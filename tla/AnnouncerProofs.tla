--------------------------- MODULE AnnouncerProofs ---------------------------
(***************************************************************************)
(* Proofs about the announcer, for any hashes, callers and workers, any    *)
(* reannounce time and any number of edits.                                *)
(*                                                                         *)
(* The ring is changed in three ways: a hash is linked in front of the     *)
(* head, the head is sent to the back, or an element is taken out.  The    *)
(* lemmas of the first part say what each of them does to the positions,   *)
(* which is all that the invariants about the ring rest on.                *)
(***************************************************************************)
EXTENDS Announcer, SequenceTheorems, FiniteSetTheorems, TLAPS

(* No hash is in the ring twice, and the map holds those of the ring.      *)
RingIsMap ==
    /\ ToSet(ring) = hashes
    /\ \A i, j \in DOMAIN ring : ring[i] = ring[j] => i = j
    /\ next = "nil" <=> ring = <<>>

(* The ring is ordered by the time of the last announcement.               *)
OldestFirst == \A i, j \in DOMAIN ring : i < j => age[ring[i]] >= age[ring[j]]

(* Before its loop the announcer has an empty ring and no limiter; while   *)
(* it blocks on a notification it holds a head, which is due.              *)
Phases ==
    /\ pc = "start" <=> limiter = "none"
    /\ pc = "start" => ring = <<>>
    /\ pc = "notify" => ring # <<>> /\ Due(Head(ring))

(* An announcer that sleeps is woken when the head is due.                 *)
WakesInTime ==
    pc = "select" /\ next = "timerC" =>
        \/ timerC
        \/ timer > 0 /\ timer <= Reannounce - age[Head(ring)]

(* The inductive invariant.                                                *)
IInv == TypeOK /\ RingIsMap /\ OldestFirst /\ Phases /\ WakesInTime /\ ShutdownWaits

-----------------------------------------------------------------------------
(* The hashes r of a ring, oldest first, by position.                      *)
ByPosition(r, hs, ag) ==
    /\ r \in Seq(Hash)
    /\ Len(r) \in Nat
    /\ \A i \in 1 .. Len(r) : r[i] \in Hash /\ r[i] \in hs
    /\ \A x \in hs : \E i \in 1 .. Len(r) : r[i] = x
    /\ \A i, j \in 1 .. Len(r) : r[i] = r[j] => i = j
    /\ \A i, j \in 1 .. Len(r) : i < j => ag[r[i]] >= ag[r[j]]

LEMMA ToPositions ==
    ASSUME TypeOK, RingIsMap, OldestFirst
    PROVE  ByPosition(ring, hashes, age)
<1>1. ring \in Seq(Hash) /\ Len(ring) \in Nat
  BY DEF TypeOK
<1>2. DOMAIN ring = 1 .. Len(ring)
  BY <1>1
<1> QED
  BY <1>1, <1>2 DEF RingIsMap, OldestFirst, ToSet, ByPosition

LEMMA FromPositions ==
    ASSUME NEW r, NEW hs, NEW ag, ByPosition(r, hs, ag)
    PROVE  /\ ToSet(r) = hs
           /\ \A i, j \in DOMAIN r : r[i] = r[j] => i = j
           /\ \A i, j \in DOMAIN r : i < j => ag[r[i]] >= ag[r[j]]
<1>1. DOMAIN r = 1 .. Len(r)
  BY DEF ByPosition
<1> QED
  BY <1>1 DEF ByPosition, ToSet

(* The three edits of the ring, position by position.                      *)

(* queue.Prev().Link(r), queue = r                                         *)
LEMMA Enqueued ==
    ASSUME NEW S, NEW s \in Seq(S), NEW h \in S
    PROVE  LET t == <<h>> \o s
           IN  /\ t \in Seq(S)
               /\ Len(t) = Len(s) + 1
               /\ t[1] = h
               /\ \A i \in 2 .. Len(t) : t[i] = s[i - 1]
OBVIOUS

(* queue = queue.Next()                                                    *)
LEMMA SentToBack ==
    ASSUME NEW S, NEW s \in Seq(S), s # <<>>
    PROVE  LET t == Append(Tail(s), Head(s))
           IN  /\ t \in Seq(S)
               /\ Len(t) = Len(s) /\ Len(s) > 0
               /\ t[Len(s)] = s[1] /\ Head(s) = s[1]
               /\ \A i \in 1 .. Len(s) - 1 : t[i] = s[i + 1]
OBVIOUS

(* r.Prev().Unlink(1)                                                      *)
LEMMA TakenOut ==
    ASSUME NEW S, NEW s \in Seq(S), NEW k \in 1 .. Len(s)
    PROVE  LET t == RemoveAt(s, k)
           IN  /\ t \in Seq(S)
               /\ Len(t) = Len(s) - 1
               /\ \A i \in 1 .. Len(t) : t[i] = IF i < k THEN s[i] ELSE s[i + 1]
<1> DEFINE a == SubSeq(s, 1, k - 1)
           b == SubSeq(s, k + 1, Len(s))
<1>1. a \in Seq(S) /\ Len(a) = k - 1 /\ \A i \in 1 .. k - 1 : a[i] = s[i]
  OBVIOUS
<1>2. b \in Seq(S) /\ Len(b) = Len(s) - k /\ \A i \in 1 .. Len(s) - k : b[i] = s[k + i]
  OBVIOUS
<1>3. RemoveAt(s, k) = a \o b
  BY DEF RemoveAt
<1> HIDE DEF a, b
<1>4. /\ a \o b \in Seq(S)
      /\ Len(a \o b) = Len(a) + Len(b)
      /\ \A i \in 1 .. Len(a) + Len(b) :
            (a \o b)[i] = IF i <= Len(a) THEN a[i] ELSE b[i - Len(a)]
  BY <1>1, <1>2, ConcatProperties
<1>5. ASSUME NEW i \in 1 .. Len(s) - 1
      PROVE  (a \o b)[i] = IF i < k THEN s[i] ELSE s[i + 1]
  <2>1. CASE i < k
    BY <2>1, <1>1, <1>2, <1>4
  <2>2. CASE ~(i < k)
    <3>1. i - (k - 1) \in 1 .. Len(s) - k /\ b[i - (k - 1)] = s[k + (i - (k - 1))]
      BY <2>2, <1>2
    <3> QED
      BY <2>2, <3>1, <1>1, <1>2, <1>4
  <2> QED
    BY <2>1, <2>2
<1>6. Len(a \o b) = Len(s) - 1
  BY <1>1, <1>2, <1>4
<1> QED
  BY <1>3, <1>4, <1>5, <1>6

-----------------------------------------------------------------------------
(* What the edits do to the invariants about the ring, whatever the rest   *)
(* of the step does.                                                       *)

(* Adding a hash that the map does not hold, due at once.                  *)
LEMMA AddKeeps ==
    ASSUME NEW r, NEW hs, NEW ag \in [Hash -> 0 .. Reannounce], ByPosition(r, hs, ag),
           NEW h \in Hash, h \notin hs
    PROVE  ByPosition(<<h>> \o r, hs \cup {h}, [ag EXCEPT ![h] = Reannounce])
<1> DEFINE t  == <<h>> \o r
           bg == [ag EXCEPT ![h] = Reannounce]
<1>1. t \in Seq(Hash) /\ Len(t) = Len(r) + 1 /\ Len(r) \in Nat /\ t[1] = h
  BY Enqueued DEF ByPosition
<1>2. ASSUME NEW i \in 1 .. Len(t), i # 1
      PROVE  /\ i - 1 \in 1 .. Len(r)
             /\ t[i] = r[i - 1] /\ t[i] # h /\ t[i] \in Hash /\ t[i] \in hs
             /\ bg[t[i]] = ag[r[i - 1]] /\ ag[r[i - 1]] \in 0 .. Reannounce
  <2>1. i \in 2 .. Len(t) /\ i - 1 \in 1 .. Len(r)
    BY <1>1, <1>2
  <2>2. t[i] = r[i - 1]
    BY <2>1, Enqueued DEF ByPosition
  <2> QED
    BY <2>1, <2>2 DEF ByPosition
<1>3. ASSUME NEW x \in hs \cup {h} PROVE \E i \in 1 .. Len(t) : t[i] = x
  <2>1. CASE x = h
    BY <2>1, <1>1
  <2>2. CASE x # h
    <3>1. PICK j \in 1 .. Len(r) : r[j] = x
      BY <2>2 DEF ByPosition
    <3>2. j + 1 \in 1 .. Len(t) /\ j + 1 # 1 /\ (j + 1) - 1 = j
      BY <1>1
    <3>3. t[j + 1] = r[(j + 1) - 1]
      BY <3>2, <1>2
    <3> QED
      BY <3>1, <3>2, <3>3
  <2> QED
    BY <2>1, <2>2
<1>4. ASSUME NEW i \in 1 .. Len(t), NEW j \in 1 .. Len(t), t[i] = t[j] PROVE i = j
  <2>1. CASE i = 1 \/ j = 1
    BY <2>1, <1>1, <1>2, <1>4
  <2>2. CASE i # 1 /\ j # 1
    <3>1. i - 1 = j - 1
      BY <2>2, <1>2, <1>4 DEF ByPosition
    <3> QED
      BY <3>1, <1>1
  <2> QED
    BY <2>1, <2>2
<1>5. ASSUME NEW i \in 1 .. Len(t), NEW j \in 1 .. Len(t), i < j
      PROVE  bg[t[i]] >= bg[t[j]]
  <2>1. j # 1
    BY <1>5, <1>1
  <2>2. CASE i = 1
    <3>1. bg[t[i]] = Reannounce
      BY <2>2, <1>1
    <3> QED
      BY <2>1, <3>1, <1>2, ConstantsAssumption
  <2>3. CASE i # 1
    <3>1. i - 1 < j - 1
      BY <1>5, <1>1
    <3>2. ag[r[i - 1]] >= ag[r[j - 1]]
      BY <2>1, <2>3, <3>1, <1>2 DEF ByPosition
    <3> QED
      BY <2>1, <2>3, <3>2, <1>2
  <2> QED
    BY <2>2, <2>3
<1>6. ASSUME NEW i \in 1 .. Len(t) PROVE t[i] \in Hash /\ t[i] \in hs \cup {h}
  BY <1>1, <1>2
<1> HIDE DEF t, bg
<1>7. ByPosition(t, hs \cup {h}, bg)
  BY <1>1, <1>3, <1>4, <1>5, <1>6 DEF ByPosition
<1> QED
  BY <1>7 DEF t, bg

(* Announcing the head: it is the youngest now, and last.                  *)
LEMMA LaunchKeeps ==
    ASSUME NEW r, NEW hs, NEW ag \in [Hash -> 0 .. Reannounce], ByPosition(r, hs, ag),
           r # <<>>
    PROVE  ByPosition(Append(Tail(r), Head(r)), hs, [ag EXCEPT ![Head(r)] = 0])
<1> DEFINE t  == Append(Tail(r), Head(r))
           bg == [ag EXCEPT ![Head(r)] = 0]
           n  == Len(r)
<1>1. /\ t \in Seq(Hash) /\ Len(t) = n /\ n \in Nat /\ n > 0
      /\ Head(r) = r[1] /\ t[n] = r[1] /\ r[1] \in Hash /\ r[1] \in hs
      /\ \A i \in 1 .. n - 1 : t[i] = r[i + 1]
  <2>1. 1 \in 1 .. n
    BY SentToBack DEF ByPosition
  <2> QED
    BY <2>1, SentToBack DEF ByPosition
<1> HIDE DEF t, n
<1>2. ASSUME NEW i \in 1 .. n, i # n
      PROVE  /\ i + 1 \in 1 .. n
             /\ t[i] = r[i + 1] /\ t[i] # r[1] /\ t[i] \in Hash /\ t[i] \in hs
             /\ bg[t[i]] = ag[r[i + 1]] /\ ag[r[i + 1]] \in 0 .. Reannounce
  <2>1. i \in 1 .. n - 1 /\ i + 1 \in 1 .. n /\ 1 \in 1 .. n /\ i + 1 # 1
    BY <1>1, <1>2
  <2>2. t[i] = r[i + 1]
    BY <2>1, <1>1
  <2>3. r[i + 1] # r[1] /\ r[i + 1] \in Hash /\ r[i + 1] \in hs
    BY <2>1 DEF ByPosition, n
  <2> QED
    BY <2>1, <2>2, <2>3, <1>1
<1>3. ASSUME NEW x \in hs PROVE \E j \in 1 .. n : t[j] = x
  <2>1. PICK i \in 1 .. n : r[i] = x
    BY DEF ByPosition, n
  <2>2. CASE i = 1
    BY <2>1, <2>2, <1>1
  <2>3. CASE i # 1
    <3>1. i - 1 \in 1 .. n /\ i - 1 # n /\ (i - 1) + 1 = i
      BY <2>3, <1>1
    <3>2. t[i - 1] = r[(i - 1) + 1]
      BY <3>1, <1>2
    <3> QED
      BY <2>1, <3>1, <3>2
  <2> QED
    BY <2>2, <2>3
<1>4. ASSUME NEW i \in 1 .. n, NEW j \in 1 .. n, t[i] = t[j] PROVE i = j
  <2>1. CASE i = n \/ j = n
    BY <2>1, <1>1, <1>2, <1>4
  <2>2. CASE i # n /\ j # n
    <3>1. i + 1 = j + 1
      BY <2>2, <1>2, <1>4 DEF ByPosition, n
    <3> QED
      BY <3>1, <1>1
  <2> QED
    BY <2>1, <2>2
<1>5. ASSUME NEW i \in 1 .. n, NEW j \in 1 .. n, i < j PROVE bg[t[i]] >= bg[t[j]]
  <2>1. i # n
    BY <1>1, <1>5
  <2>2. CASE j = n
    <3>1. bg[t[j]] = 0
      BY <2>2, <1>1
    <3> QED
      BY <2>1, <3>1, <1>2, ConstantsAssumption
  <2>3. CASE j # n
    <3>1. i + 1 < j + 1
      BY <1>1, <1>5
    <3>2. ag[r[i + 1]] >= ag[r[j + 1]]
      BY <2>1, <2>3, <3>1, <1>2 DEF ByPosition, n
    <3> QED
      BY <2>1, <2>3, <3>2, <1>2
  <2> QED
    BY <2>2, <2>3
<1>6. ASSUME NEW i \in 1 .. n PROVE t[i] \in Hash /\ t[i] \in hs
  BY <1>1, <1>2
<1> HIDE DEF bg
<1>7. ByPosition(t, hs, bg)
  BY <1>1, <1>3, <1>4, <1>5, <1>6 DEF ByPosition
<1> QED
  BY <1>7 DEF t, bg

(* Removing a hash: the others keep their order, so the new head, if there *)
(* is one, is no older than the one before.                                *)
LEMMA RemoveKeeps ==
    ASSUME NEW r, NEW hs, NEW ag \in [Hash -> 0 .. Reannounce], ByPosition(r, hs, ag),
           NEW k \in 1 .. Len(r)
    PROVE  /\ ByPosition(RemoveAt(r, k), hs \ {r[k]}, ag)
           /\ RemoveAt(r, k) # <<>> => ag[Head(RemoveAt(r, k))] <= ag[Head(r)]
<1> DEFINE t == RemoveAt(r, k)
           f(i) == IF i < k THEN i ELSE i + 1
<1>1. t \in Seq(Hash) /\ Len(t) = Len(r) - 1 /\ Len(r) \in Nat /\ Len(t) \in Nat
  <2>1. r \in Seq(Hash) /\ Len(r) \in Nat
    BY DEF ByPosition
  <2>2. t \in Seq(Hash) /\ Len(t) = Len(r) - 1
    BY <2>1, TakenOut
  <2> HIDE DEF t
  <2> QED
    BY <2>1, <2>2
<1>2. ASSUME NEW i \in 1 .. Len(t)
      PROVE  f(i) \in 1 .. Len(r) /\ f(i) # k /\ t[i] = r[f(i)]
  <2>1. f(i) \in 1 .. Len(r) /\ f(i) # k
    BY <1>1
  <2>2. t[i] = IF i < k THEN r[i] ELSE r[i + 1]
    BY TakenOut DEF ByPosition
  <2> QED
    BY <2>1, <2>2
<1>3. ASSUME NEW x \in hs \ {r[k]} PROVE \E i \in 1 .. Len(t) : t[i] = x
  <2>1. PICK j \in 1 .. Len(r) : r[j] = x
    BY DEF ByPosition
  <2>2. PICK i \in 1 .. Len(t) : f(i) = j
    <3>1. j # k
      BY <2>1, <1>3
    <3>2. CASE j < k
      <4>1. j \in 1 .. Len(t) /\ f(j) = j
        BY <3>2, <1>1
      <4> QED
        BY <4>1
    <3>3. CASE j > k
      <4>1. j - 1 \in 1 .. Len(t) /\ f(j - 1) = j
        BY <3>3, <1>1
      <4> QED
        BY <4>1
    <3> QED
      BY <3>1, <3>2, <3>3, <1>1
  <2> QED
    BY <2>1, <2>2, <1>2
<1>4. ASSUME NEW i \in 1 .. Len(t), NEW j \in 1 .. Len(t), t[i] = t[j] PROVE i = j
  <2>1. PICK m \in 1 .. Len(r), n \in 1 .. Len(r) : m = f(i) /\ n = f(j) /\ r[m] = r[n]
    BY <1>2, <1>4
  <2>2. m = n
    BY <2>1 DEF ByPosition
  <2> QED
    BY <2>1, <2>2, <1>1
<1>5. ASSUME NEW i \in 1 .. Len(t), NEW j \in 1 .. Len(t), i < j PROVE ag[t[i]] >= ag[t[j]]
  <2>1. PICK m \in 1 .. Len(r), n \in 1 .. Len(r) :
            m = f(i) /\ n = f(j) /\ t[i] = r[m] /\ t[j] = r[n]
    BY <1>2
  <2>2. m < n
    BY <2>1, <1>1, <1>5
  <2> QED
    BY <2>1, <2>2 DEF ByPosition
<1>6. ASSUME NEW i \in 1 .. Len(t) PROVE t[i] \in Hash /\ t[i] \in hs \ {r[k]}
  <2>1. PICK m \in 1 .. Len(r) : m # k /\ t[i] = r[m]
    BY <1>2
  <2> HIDE DEF t
  <2>2. r[m] \in Hash /\ r[m] \in hs /\ r[m] # r[k]
    BY <2>1 DEF ByPosition
  <2> QED
    BY <2>1, <2>2
<1>7. ASSUME t # <<>> PROVE ag[Head(t)] <= ag[Head(r)]
  <2>1. 1 \in 1 .. Len(t) /\ Head(t) = t[1] /\ 1 \in 1 .. Len(r) /\ Head(r) = r[1]
    BY <1>1, <1>7 DEF ByPosition
  <2>2. f(1) = 1 \/ 1 < f(1)
    BY <1>1
  <2>3. ag[r[1]] \in 0 .. Reannounce
    BY <2>1 DEF ByPosition
  <2> QED
    BY <2>1, <2>2, <2>3, <1>2, ConstantsAssumption DEF ByPosition
<1> HIDE DEF t, f
<1>8. ByPosition(t, hs \ {r[k]}, ag)
  BY <1>1, <1>3, <1>4, <1>5, <1>6 DEF ByPosition
<1> QED
  BY <1>7, <1>8 DEF t

-----------------------------------------------------------------------------
(* A new announcer satisfies the invariant.                                *)
LEMMA InitInv == Init => IInv
<1> SUFFICES ASSUME Init PROVE IInv
  OBVIOUS
<1>1. TypeOK
  <2>1. timerC \in BOOLEAN
    BY Zenon DEF Init
  <2> QED
    BY <2>1, ConstantsAssumption DEF Init, TypeOK
<1>2. RingIsMap /\ OldestFirst
  BY DEF Init, RingIsMap, OldestFirst, ToSet
<1>3. Phases /\ WakesInTime
  BY DEF Init, Phases, WakesInTime
<1>4. ShutdownWaits
  BY FS_EmptySet DEF Init, ShutdownWaits, Live
<1> QED
  BY <1>1, <1>2, <1>3, <1>4 DEF IInv

(* The announcements can be counted.                                       *)
LEMMA Counts ==
    ASSUME TypeOK
    PROVE  /\ Cardinality(running) \in Nat /\ Cardinality(finishing) \in Nat
           /\ IsFiniteSet(running) /\ IsFiniteSet(finishing)
           /\ Live \in Nat
<1>1. /\ Cardinality(running) \in Nat /\ Cardinality(finishing) \in Nat
      /\ IsFiniteSet(running) /\ IsFiniteSet(finishing)
  BY FS_Subset, FS_CardinalityType, ConstantsAssumption DEF TypeOK
<1> QED
  BY <1>1 DEF Live, TypeOK

(* The units of the announcer, one more while it is about to start an      *)
(* announcement, and of the limiter.                                       *)
Own(p) == CASE p = "done" -> 0 [] p = "notify" -> 2 [] OTHER -> 1
Lim(l) == IF l \in {"none", "done"} THEN 0 ELSE 1

LEMMA UnitsNat ==
    TypeOK => /\ Own(pc) \in 0 .. 2 /\ Lim(limiter) \in 0 .. 1
              /\ pc # "done" => Own(pc) > 0
BY DEF TypeOK, Own, Lim

LEMMA LiveSum ==
    /\ Live  = Own(pc) + Lim(limiter) + Cardinality(running) + Cardinality(finishing)
    /\ Live' = Own(pc') + Lim(limiter') + Cardinality(running') + Cardinality(finishing')
    /\ Own("done") = 0 /\ Own("notify") = 2 /\ Own("select") = 1 /\ Own("start") = 1
    /\ \A l : Lim(l) \in {0, 1}
BY DEF Live, Own, Lim

(* A step that leaves the ring and the ages alone keeps their order.       *)
LEMMA RingKept ==
    ASSUME RingIsMap, OldestFirst, UNCHANGED <<ring, hashes, age>>,
           next' = next \/ (ring # <<>> /\ next' # "nil")
    PROVE  RingIsMap' /\ OldestFirst'
BY DEF RingIsMap, OldestFirst, ToSet

(* The goroutines other than the announcer, the callers, and shutting      *)
(* down: none of them touches the schedule.                                *)
LEMMA OthersInv ==
    ASSUME IInv,
           \/ \E w \in Workers : WorkerEnds(w)
           \/ \E c \in Callers, e \in Edit : Call(c, e)
           \/ LimiterReady \/ LimiterReturns \/ AnnouncerReturns \/ StartLimiter
           \/ Stop \/ ShutdownReturns \/ StopListening
    PROVE  IInv'
<1> USE Counts DEF IInv
<1>1. ASSUME NEW w \in Workers, AnnounceReturns(w) PROVE IInv'
  <2>1. /\ Cardinality(running') = Cardinality(running) - 1
        /\ Cardinality(running') \in Nat
        /\ Cardinality(finishing \cup {w}) \in Nat
        /\ Cardinality(finishing \cup {w}) <= Cardinality(finishing) + 1
    <3>1. /\ Cardinality(running \ {w}) = Cardinality(running) - 1
          /\ Cardinality(running \ {w}) \in Nat
      BY <1>1, FS_RemoveElement, FS_CardinalityType DEF AnnounceReturns
    <3>2. Cardinality(finishing \cup {w}) =
              IF w \in finishing THEN Cardinality(finishing) ELSE Cardinality(finishing) + 1
      BY FS_AddElement
    <3> QED
      BY <1>1, <3>1, <3>2 DEF AnnounceReturns
  <2>2. ShutdownWaits' /\ wg' \in Nat
    <3>1. Live' \in Nat /\ IF NotifyCh THEN Live' <= Live /\ Live > 0 ELSE Live' = Live - 1
      <4>1. /\ pc' = pc /\ limiter' = limiter
            /\ finishing' = IF NotifyCh THEN finishing \cup {w} ELSE finishing
        BY <1>1 DEF AnnounceReturns
      <4> QED
        BY <4>1, <2>1, LiveSum, UnitsNat
    <3> QED
      BY <1>1, <3>1 DEF AnnounceReturns, TypeOK, ShutdownWaits
  <2>3. TypeOK'
    BY <1>1, <2>2 DEF AnnounceReturns, TypeOK, sched, users
  <2> QED
    BY <1>1, <2>2, <2>3, RingKept DEF AnnounceReturns, sched, users, Phases, WakesInTime, Due
<1>2. ASSUME NEW w \in Workers, NotifyFinished(w) PROVE IInv'
  <2>1. Cardinality(finishing') = Cardinality(finishing) - 1 /\ Cardinality(finishing') \in Nat
    BY <1>2, FS_RemoveElement, FS_CardinalityType DEF NotifyFinished
  <2>2. ShutdownWaits' /\ wg' \in Nat
    <3>1. Live' \in Nat /\ Live' = Live - 1
      BY <1>2, <2>1, LiveSum, UnitsNat DEF NotifyFinished
    <3> QED
      BY <1>2, <3>1 DEF NotifyFinished, TypeOK, ShutdownWaits
  <2>3. TypeOK'
    BY <1>2, <2>2 DEF NotifyFinished, TypeOK, sched, users
  <2> QED
    BY <1>2, <2>2, <2>3, RingKept DEF NotifyFinished, sched, users, Phases, WakesInTime, Due
<1>3. ASSUME NEW c \in Callers, NEW e \in Edit, Call(c, e) PROVE IInv'
  <2>1. TypeOK'
    BY <1>3, ConstantsAssumption DEF Call, TypeOK, sched, procs
  <2>2. ShutdownWaits'
    BY <1>3, LiveSum DEF Call, ShutdownWaits, procs
  <2> QED
    BY <1>3, <2>1, <2>2, RingKept DEF Call, sched, procs, Phases, WakesInTime, Due
<1>4. CASE LimiterReady
  <2>1. TypeOK'
    BY <1>4 DEF LimiterReady, TypeOK, sched, users
  <2>2. ShutdownWaits'
    <3>1. Live' = Live
      BY <1>4, LiveSum DEF LimiterReady, Lim
    <3> QED
      BY <1>4, <3>1 DEF LimiterReady, ShutdownWaits
  <2> QED
    BY <1>4, <2>1, <2>2, RingKept DEF LimiterReady, sched, users, Phases, WakesInTime, Due
<1>5. CASE LimiterReturns
  <2>1. ShutdownWaits' /\ wg' \in Nat
    <3>1. Live' \in Nat /\ Live' = Live - 1
      BY <1>5, LiveSum, UnitsNat DEF LimiterReturns, Lim
    <3> QED
      BY <1>5, <3>1 DEF LimiterReturns, TypeOK, ShutdownWaits
  <2>2. TypeOK'
    BY <1>5, <2>1 DEF LimiterReturns, TypeOK, sched, users
  <2> QED
    BY <1>5, <2>1, <2>2, RingKept DEF LimiterReturns, sched, users, Phases, WakesInTime, Due
<1>6. CASE AnnouncerReturns
  <2>1. ShutdownWaits' /\ wg' \in Nat
    <3>1. Live' \in Nat /\ Live' = Live - 1
      BY <1>6, LiveSum, UnitsNat DEF AnnouncerReturns
    <3> QED
      BY <1>6, <3>1 DEF AnnouncerReturns, TypeOK, ShutdownWaits
  <2>2. TypeOK'
    BY <1>6, <2>1 DEF AnnouncerReturns, TypeOK, sched, users
  <2> QED
    BY <1>6, <2>1, <2>2, RingKept DEF AnnouncerReturns, sched, users, Phases, WakesInTime, Due
<1>7. CASE StartLimiter
  <2>1. TypeOK'
    BY <1>7 DEF StartLimiter, TypeOK, sched, users
  <2>2. WakesInTime'
    BY <1>7 DEF StartLimiter, sched, WakesInTime, Phases, RingIsMap
  <2>3. ShutdownWaits'
    <3>1. Live \in Nat /\ Live > 0 /\ Live' = Live + 1
      BY <1>7, LiveSum, UnitsNat DEF StartLimiter, Phases, Lim
    <3> QED
      BY <1>7, <3>1 DEF StartLimiter, ShutdownWaits, TypeOK
  <2> QED
    BY <1>7, <2>1, <2>2, <2>3, RingKept DEF StartLimiter, sched, users, Phases, Due
<1>8. CASE Stop
  <2>1. TypeOK'
    BY <1>8 DEF Stop, TypeOK, sched, procs, users
  <2>2. ShutdownWaits'
    BY <1>8, LiveSum DEF Stop, ShutdownWaits, procs
  <2> QED
    BY <1>8, <2>1, <2>2, RingKept DEF Stop, sched, procs, users, Phases, WakesInTime, Due
<1>9. CASE ShutdownReturns
  <2>1. TypeOK' /\ ShutdownWaits'
    <3>1. TypeOK'
      BY <1>9 DEF ShutdownReturns, TypeOK, sched, procs, users
    <3>2. Live = 0 /\ Live' = Live
      BY <1>9 DEF ShutdownReturns, ShutdownWaits, Live, procs
    <3> QED
      BY <1>9, <3>1, <3>2 DEF ShutdownReturns, ShutdownWaits, procs
  <2> QED
    BY <1>9, <2>1, RingKept DEF ShutdownReturns, sched, procs, users, Phases, WakesInTime, Due
<1>10. CASE StopListening
  <2>1. TypeOK'
    BY <1>10 DEF StopListening, TypeOK, sched, procs
  <2>2. ShutdownWaits'
    BY <1>10 DEF StopListening, ShutdownWaits, Live, procs
  <2> QED
    BY <1>10, <2>1, <2>2, RingKept DEF StopListening, sched, procs, Phases, WakesInTime, Due
<1> QED
  BY <1>1, <1>2, <1>3, <1>4, <1>5, <1>6, <1>7, <1>8, <1>9, <1>10 DEF WorkerEnds

(* Waking up: the announcer holds a head, and no goroutine was started or  *)
(* ended yet.                                                              *)
LEMMA Woken ==
    ASSUME IInv, Wake
    PROVE  /\ pc = "select" /\ ring # <<>> /\ Head(ring) \in Hash
           /\ limiter' \in {"wait", "offer", "done"} /\ limiter # "none"
           /\ (limiter' = "done") = (limiter = "done")
           /\ timerC' \in BOOLEAN
<1>1. pc = "select" /\ ring # <<>> /\ limiter # "none"
  BY DEF IInv, Wake, RingIsMap, Phases
<1>2. timerC' \in BOOLEAN
  <2>1. CASE timerC' = FALSE
    BY <2>1, Zenon
  <2>2. CASE timerC' = timerC
    BY <2>2, Zenon DEF IInv, TypeOK
  <2> QED
    BY <2>1, <2>2 DEF Wake
<1> QED
  BY <1>1, <1>2 DEF IInv, Wake, TypeOK

(* Sleeping until the head is due keeps the invariant.                     *)
LEMMA NotDueInv == IInv /\ NotDue => IInv'
<1> SUFFICES ASSUME IInv, NotDue PROVE IInv'
  OBVIOUS
<1> USE DEF IInv
<1>1. /\ pc = "select" /\ pc' = "select" /\ ring # <<>> /\ Head(ring) \in Hash
      /\ limiter' \in {"wait", "offer", "done"} /\ limiter # "none"
      /\ (limiter' = "done") = (limiter = "done")
      /\ timerC' \in BOOLEAN
  BY Woken DEF NotDue
<1>2. age[Head(ring)] \in 0 .. Reannounce /\ age[Head(ring)] < Reannounce
  BY <1>1, ConstantsAssumption DEF NotDue, Due, TypeOK
<1>3. ShutdownWaits' /\ wg' \in Nat
  <2>1. Live \in Nat /\ Live' = Live /\ Live > 0
    BY <1>1, Counts, LiveSum, UnitsNat DEF NotDue, Lim
  <2> QED
    BY <2>1, ConstantsAssumption DEF NotDue, TypeOK, ShutdownWaits
<1>4. TypeOK'
  BY <1>1, <1>2, <1>3, ConstantsAssumption DEF NotDue, TypeOK, UntilDue, users
<1>5. RingIsMap' /\ OldestFirst'
  BY <1>1, RingKept DEF NotDue
<1>6. Phases'
  BY <1>1 DEF Phases
<1>7. WakesInTime'
  BY <1>2, ConstantsAssumption DEF NotDue, WakesInTime, UntilDue
<1> QED
  BY <1>3, <1>4, <1>5, <1>6, <1>7

(* Announcing the head keeps the invariant, with and without a             *)
(* notification channel.                                                   *)
LEMMA LaunchInv ==
    ASSUME IInv, ring # <<>>, NEW w \in Workers, w \notin running, Launch(w)
    PROVE  /\ ring' \in Seq(Hash) /\ hashes' \subseteq Hash
           /\ age' \in [Hash -> 0 .. Reannounce]
           /\ RingIsMap' /\ OldestFirst'
           /\ running' \subseteq Workers
           /\ Cardinality(running') = Cardinality(running) + 1
<1>1. ByPosition(ring, hashes, age)
  BY ToPositions DEF IInv
<1>2. ByPosition(ring', hashes', age')
  BY <1>1, LaunchKeeps DEF Launch, IInv, TypeOK
<1>3. ring' # <<>> /\ ring' \in Seq(Hash)
  BY SentToBack DEF Launch, IInv, TypeOK
<1>4. age' \in [Hash -> 0 .. Reannounce]
  <2>1. Head(ring) \in Hash
    BY DEF IInv, TypeOK
  <2> QED
    BY <2>1, ConstantsAssumption DEF Launch, IInv, TypeOK
<1>5. RingIsMap' /\ OldestFirst'
  BY <1>2, <1>3, FromPositions DEF RingIsMap, OldestFirst, Launch
<1>6. Cardinality(running') = Cardinality(running) + 1 /\ running' \subseteq Workers
  BY Counts, FS_AddElement DEF Launch, IInv, TypeOK
<1> QED
  BY <1>3, <1>4, <1>5, <1>6 DEF Launch, IInv, TypeOK

LEMMA AnnounceInv ==
    ASSUME IInv, NEW w \in Workers, AnnounceNext(w) \/ NotifyStarted(w)
    PROVE  IInv'
<1> USE DEF IInv
<1>1. CASE AnnounceNext(w)
  <2>1. /\ pc = "select" /\ ring # <<>> /\ Head(ring) \in Hash
        /\ limiter' \in {"wait", "offer", "done"} /\ limiter # "none"
        /\ (limiter' = "done") = (limiter = "done")
        /\ timerC' \in BOOLEAN
    BY <1>1, Woken DEF AnnounceNext
  <2>2. CASE NotifyCh
    <3>1. ShutdownWaits' /\ wg' \in Nat
      <4>1. Live \in Nat /\ Live' = Live + 1 /\ Live > 0
        BY <1>1, <2>1, <2>2, Counts, LiveSum, UnitsNat DEF AnnounceNext, Lim
      <4> QED
        BY <1>1, <4>1 DEF AnnounceNext, TypeOK, ShutdownWaits
    <3>2. TypeOK'
      BY <1>1, <2>1, <2>2, <3>1 DEF AnnounceNext, TypeOK, users
    <3>3. RingIsMap' /\ OldestFirst'
      BY <1>1, <2>2, RingKept DEF AnnounceNext
    <3>4. Phases' /\ WakesInTime'
      BY <1>1, <2>1, <2>2 DEF AnnounceNext, Phases, WakesInTime, Due
    <3> QED
      BY <3>1, <3>2, <3>3, <3>4
  <2>3. CASE ~NotifyCh
    <3>1. Launch(w) /\ w \notin running /\ pc' = pc
      BY <1>1, <2>3 DEF AnnounceNext
    <3>2. /\ ring' \in Seq(Hash) /\ hashes' \subseteq Hash
          /\ age' \in [Hash -> 0 .. Reannounce]
          /\ RingIsMap' /\ OldestFirst'
          /\ running' \subseteq Workers
          /\ Cardinality(running') = Cardinality(running) + 1
      BY <2>1, <3>1, LaunchInv
    <3>3. ShutdownWaits' /\ wg' \in Nat
      <4>1. /\ finishing' = finishing /\ Lim(limiter') = Lim(limiter)
            /\ pc = "select" /\ pc' = "select"
            /\ Cardinality(running') = Cardinality(running) + 1
        BY <1>1, <2>1, <3>1, <3>2 DEF AnnounceNext, Lim
      <4>2. Live \in Nat /\ Live' = Live + 1 /\ Live > 0
        BY <4>1, Counts, LiveSum, UnitsNat
      <4> QED
        BY <1>1, <4>2 DEF AnnounceNext, TypeOK, ShutdownWaits
    <3>4. next' = "limitCh"
      BY <3>1 DEF Launch
    <3>5. TypeOK'
      BY <1>1, <2>1, <3>1, <3>2, <3>3, <3>4 DEF AnnounceNext, TypeOK, users
    <3>6. Phases' /\ WakesInTime'
      BY <2>1, <3>1, <3>4 DEF Phases, WakesInTime
    <3> QED
      BY <3>2, <3>3, <3>5, <3>6
  <2> QED
    BY <2>2, <2>3
<1>2. CASE NotifyStarted(w)
  <2>1. Launch(w) /\ w \notin running /\ pc = "notify" /\ pc' = "select" /\ ring # <<>>
    BY <1>2 DEF NotifyStarted, Phases
  <2>2. /\ ring' \in Seq(Hash) /\ hashes' \subseteq Hash
        /\ age' \in [Hash -> 0 .. Reannounce]
        /\ RingIsMap' /\ OldestFirst'
        /\ running' \subseteq Workers
        /\ Cardinality(running') = Cardinality(running) + 1
    BY <2>1, LaunchInv
  <2>3. ShutdownWaits'
    <3>1. Live \in Nat /\ Live' = Live
      BY <1>2, <2>1, <2>2, Counts, LiveSum, UnitsNat DEF NotifyStarted, Lim
    <3> QED
      BY <1>2, <3>1 DEF NotifyStarted, ShutdownWaits
  <2>4. next' = "limitCh"
    BY <2>1 DEF Launch
  <2>5. TypeOK'
    BY <1>2, <2>1, <2>2, <2>4 DEF NotifyStarted, TypeOK, users
  <2>6. Phases' /\ WakesInTime'
    BY <1>2, <2>1, <2>4 DEF NotifyStarted, Phases, WakesInTime
  <2> QED
    BY <2>2, <2>3, <2>5, <2>6
<1> QED
  BY <1>1, <1>2

(* Adding and removing a hash keep the invariant: a new hash wakes the     *)
(* announcer, and the head of a ring that lost its head is not due before  *)
(* the timer fires.                                                        *)
LEMMA EditInv ==
    ASSUME IInv, NEW c \in Callers, Served(c)
    PROVE  IInv'
<1> USE DEF IInv
<1> DEFINE h == calls[c].hash
<1>1. /\ UNCHANGED <<procs, shutdown>> /\ pc = "select" /\ Taken(c)
      /\ h \in Hash
  BY DEF Served, AddHash, RemoveHash, TypeOK, Edit
<1>2. calls' \in [Callers -> Edit \cup {NoEdit}] /\ listening' \in BOOLEAN
  BY <1>1 DEF Taken, TypeOK
<1>3. ShutdownWaits'
  BY <1>1 DEF ShutdownWaits, Live, procs
<1>4. CASE UNCHANGED sched
  BY <1>1, <1>2, <1>3, <1>4, RingKept DEF sched, procs, TypeOK, Phases, WakesInTime, Due
<1>5. CASE h \notin hashes /\ AddHash(c)
  <2>1. /\ ring' = <<h>> \o ring /\ hashes' = hashes \cup {h}
        /\ age' = [age EXCEPT ![h] = Reannounce]
        /\ next' = "limitCh" /\ UNCHANGED <<timer, timerC>>
    BY <1>5 DEF AddHash, Enqueue, AfterAdd
  <2>2. ByPosition(ring', hashes', age')
    BY <1>1, <1>5, <2>1, ToPositions, AddKeeps DEF TypeOK
  <2>3. ring' \in Seq(Hash) /\ ring' # <<>>
    BY <1>1, <2>1, Enqueued DEF TypeOK
  <2>4. RingIsMap' /\ OldestFirst'
    BY <2>1, <2>2, <2>3, FromPositions DEF RingIsMap, OldestFirst
  <2>5. TypeOK'
    BY <1>1, <1>2, <2>1, <2>3, ConstantsAssumption DEF TypeOK, procs
  <2>6. Phases' /\ WakesInTime'
    BY <1>1, <2>1 DEF Phases, WakesInTime, procs
  <2> QED
    BY <1>3, <2>4, <2>5, <2>6
<1>6. CASE h \in hashes /\ RemoveHash(c)
  <2> DEFINE k == IndexOfHash(h)
  <2>1. /\ ring' = RemoveAt(ring, k) /\ hashes' = hashes \ {h}
        /\ next' = AfterRemove(hashes \ {h}) /\ UNCHANGED <<timer, timerC>>
        /\ age' = [age EXCEPT ![h] = Reannounce]
    BY <1>6 DEF RemoveHash
  <2>2. ByPosition(ring, hashes, age)
    BY ToPositions
  <2>3. k \in 1 .. Len(ring) /\ ring[k] = h
    <3>1. DOMAIN ring = 1 .. Len(ring)
      BY DEF TypeOK
    <3>2. \E i \in DOMAIN ring : ring[i] = h
      BY <1>6, <2>2, <3>1 DEF ByPosition
    <3> QED
      BY <3>1, <3>2 DEF IndexOfHash
  <2> HIDE DEF k, h
  <2>12. /\ ByPosition(ring', hashes', age)
         /\ ring' # <<>> => age[Head(ring')] <= age[Head(ring)]
    BY <2>1, <2>2, <2>3, RemoveKeeps DEF TypeOK
  <2>13. ASSUME NEW i \in 1 .. Len(ring') PROVE age'[ring'[i]] = age[ring'[i]]
    <3>1. ring'[i] \in hashes' /\ ring'[i] \in Hash
      BY <2>12 DEF ByPosition
    <3> QED
      BY <3>1, <2>1 DEF TypeOK
  <2>4. /\ ByPosition(ring', hashes', age')
        /\ ring' # <<>> => age'[Head(ring')] <= age[Head(ring)]
    <3>1. ByPosition(ring', hashes', age')
      BY <2>12, <2>13 DEF ByPosition
    <3>2. ASSUME ring' # <<>> PROVE age'[Head(ring')] = age[Head(ring')]
      <4>1. ring' \in Seq(Hash)
        BY <2>12 DEF ByPosition
      <4>2. 1 \in 1 .. Len(ring') /\ Head(ring') = ring'[1]
        BY <3>2, <4>1
      <4> QED
        BY <4>2, <2>13
    <3> QED
      BY <3>1, <3>2, <2>12
  <2>5. ring' \in Seq(Hash) /\ ring # <<>> /\ next # "nil"
    BY <2>2, <2>3, <2>4 DEF ByPosition, RingIsMap
  <2>6. hashes' = {} <=> ring' = <<>>
    <3>1. CASE ring' = <<>>
      BY <3>1, <2>4 DEF ByPosition
    <3>2. CASE ring' # <<>>
      <4>1. 1 \in 1 .. Len(ring')
        BY <3>2, <2>5
      <4> QED
        BY <3>2, <4>1, <2>4 DEF ByPosition
    <3> QED
      BY <3>1, <3>2
  <2>7. /\ next' = "nil" <=> ring' = <<>>
        /\ next' \in {"nil", next}
    BY <2>1, <2>5, <2>6 DEF AfterRemove
  <2>8. RingIsMap' /\ OldestFirst'
    BY <2>4, <2>7, FromPositions DEF RingIsMap, OldestFirst
  <2>9. TypeOK'
    BY <1>1, <1>2, <2>1, <2>5, <2>7, ConstantsAssumption DEF TypeOK, procs
  <2>10. Phases'
    BY <1>1 DEF Phases, procs
  <2>11. WakesInTime'
    <3> SUFFICES ASSUME next' = "timerC"
                 PROVE  timerC' \/ (timer' > 0 /\ timer' <= Reannounce - age'[Head(ring')])
      BY DEF WakesInTime
    <3>1. next = "timerC" /\ ring' # <<>>
      BY <2>7
    <3>2. timerC \/ (timer > 0 /\ timer <= Reannounce - age[Head(ring)])
      BY <1>1, <3>1 DEF WakesInTime
    <3>3. Head(ring) \in Hash /\ Head(ring') \in Hash
      BY <2>5, <3>1 DEF TypeOK
    <3>4. age[Head(ring)] \in 0 .. Reannounce /\ age'[Head(ring')] \in 0 .. Reannounce
      BY <3>3, <2>9 DEF TypeOK
    <3> QED
      BY <2>1, <2>4, <3>1, <3>2, <3>4, ConstantsAssumption DEF TypeOK
  <2> QED
    BY <1>3, <2>8, <2>9, <2>10, <2>11
<1> QED
  BY <1>1, <1>4, <1>5, <1>6 DEF Served, AddHash, RemoveHash

(* Time passing keeps the invariant: what is due stays due, and the timer  *)
(* comes down as the head's age goes up.                                   *)
LEMMA TickInv == IInv /\ Tick => IInv'
<1> SUFFICES ASSUME IInv, Tick PROVE IInv'
  OBVIOUS
<1> USE DEF IInv
<1>1. timerC' \in BOOLEAN
  BY Zenon DEF Tick
<1>2. ring' = ring /\ hashes' = hashes /\ next' = next /\ pc' = pc /\ limiter' = limiter
  BY DEF Tick, procs
<1>3. ASSUME NEW x \in Hash
      PROVE  /\ age[x] \in 0 .. Reannounce /\ age'[x] \in 0 .. Reannounce
             /\ age'[x] = IF age[x] = Reannounce THEN Reannounce ELSE age[x] + 1
  BY ConstantsAssumption DEF Tick, TypeOK, Due
<1>4. TypeOK'
  <2>1. age' \in [Hash -> 0 .. Reannounce]
    BY <1>3 DEF Tick
  <2>2. timer' \in 0 .. Reannounce
    BY ConstantsAssumption DEF Tick, TypeOK
  <2> QED
    BY <1>1, <2>1, <2>2 DEF Tick, TypeOK, procs, users
<1>5. ShutdownWaits'
  BY DEF Tick, ShutdownWaits, Live, procs
<1>6. RingIsMap'
  BY <1>2 DEF RingIsMap, ToSet
<1>7. OldestFirst'
  <2> SUFFICES ASSUME NEW i \in DOMAIN ring, NEW j \in DOMAIN ring, i < j
               PROVE  age'[ring[i]] >= age'[ring[j]]
    BY <1>2 DEF OldestFirst
  <2>1. ring[i] \in Hash /\ ring[j] \in Hash /\ age[ring[i]] >= age[ring[j]]
    BY DEF TypeOK, OldestFirst
  <2> QED
    BY <2>1, <1>3, ConstantsAssumption
<1>8. ASSUME ring # <<>> PROVE Head(ring) \in Hash
  BY <1>8 DEF TypeOK
<1>9. Phases'
  <2>1. ASSUME pc = "notify" PROVE age'[Head(ring)] >= Reannounce
    BY <1>3, <1>8, <2>1, ConstantsAssumption DEF Phases, Due
  <2> QED
    BY <1>2, <2>1 DEF Phases, Due
<1>10. WakesInTime'
  <2> SUFFICES ASSUME pc = "select", next = "timerC"
               PROVE  timerC' \/ (timer' > 0 /\ timer' <= Reannounce - age'[Head(ring)])
    BY <1>2 DEF WakesInTime
  <2>1. Head(ring) \in Hash
    BY <1>8 DEF RingIsMap
  <2>2. CASE timerC \/ timer = 1
    BY <2>2, Zenon DEF Tick
  <2>3. CASE timer > 1 /\ timer <= Reannounce - age[Head(ring)]
    BY <2>1, <2>3, <1>3, ConstantsAssumption DEF Tick, TypeOK
  <2> QED
    BY <2>2, <2>3 DEF WakesInTime, TypeOK
<1> QED
  BY <1>4, <1>5, <1>6, <1>7, <1>9, <1>10

(* Every step keeps the invariant.                                         *)
LEMMA StepInv == IInv /\ [Next]_vars => IInv'
<1> SUFFICES ASSUME IInv, [Next]_vars PROVE IInv'
  OBVIOUS
<1>1. CASE UNCHANGED vars
  BY <1>1, RingKept DEF vars, sched, procs, users, IInv, TypeOK, Phases, WakesInTime,
                        ShutdownWaits, Live, Due
<1> QED
  BY <1>1, OthersInv, NotDueInv, AnnounceInv, EditInv, TickInv DEF Next, Announcement

-----------------------------------------------------------------------------
(* In every reachable state the map and the ring hold the same hashes,     *)
(* each once, and the announcer waits for a signal only while the ring has *)
(* a head.                                                                 *)
THEOREM RingSafe == Spec => []RingMatchesMap
<1>1. IInv => RingMatchesMap
  BY DEF IInv, RingIsMap, RingMatchesMap
<1> QED
  BY InitInv, StepInv, <1>1, PTL DEF Spec

(* The announcer never sleeps past the time a hash is due.                 *)
THEOREM NeverOversleeps == Spec => []NoOversleep
<1>1. IInv => NoOversleep
  BY DEF IInv, OldestFirst, WakesInTime, NoOversleep
<1> QED
  BY InitInv, StepInv, <1>1, PTL DEF Spec

(* The wait group never counts less than the goroutines that run, so       *)
(* Shutdown returns only when all of them have ended.                      *)
THEOREM ShutdownIsLast == Spec => []ShutdownWaits
<1>1. IInv => ShutdownWaits
  BY DEF IInv
<1> QED
  BY InitInv, StepInv, <1>1, PTL DEF Spec
=============================================================================
