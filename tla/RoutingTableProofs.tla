------------------------- MODULE RoutingTableProofs -------------------------
(***************************************************************************)
(* Proofs about the routing table, for every id width, node id, bucket     *)
(* size and set of contacts.                                               *)
(*                                                                         *)
(* The inductive invariant IInv adds to the properties what makes them     *)
(* inductive: the buckets are ordered (Ordered), each is in good shape     *)
(* (AllGood), and a split under way has distributed exactly the peers it   *)
(* looked at, all of them inside the range it narrowed down to (SplitInv). *)
(* What enters the table rests on Decided as well: an Update that inserts  *)
(* without a split has no reason to split.                                 *)
(***************************************************************************)
EXTENDS RoutingTable, SequenceTheorems, FiniteSetTheorems, WellFoundedInduction, TLAPS

(* A nonempty set of naturals has a least element.                         *)
LEMMA SmallestElement ==
    ASSUME NEW T, T \subseteq Nat, T # {}
    PROVE  \E n \in T : \A k \in T : n <= k
<1>1. PICK n \in T : \A k \in T : <<k, n>> \notin OpToRel(<, Nat)
  BY NatLessThanWellFounded, WFMin
<1>2. \A k \in T : ~ (k < n)
  BY <1>1 DEF OpToRel
<1> QED
  BY <1>2

(* RemoveAt, which takes a peer out of its bucket, keeps the order of the  *)
(* others.                                                                 *)
LEMMA RemoveAtProperties ==
    ASSUME NEW S, NEW s \in Seq(S), NEW i \in 1 .. Len(s)
    PROVE  /\ RemoveAt(s, i) \in Seq(S)
           /\ Len(RemoveAt(s, i)) = Len(s) - 1
           /\ \A j \in 1 .. Len(s) - 1 :
                 RemoveAt(s, i)[j] = IF j < i THEN s[j] ELSE s[j + 1]
<1> DEFINE l == SubSeq(s, 1, i - 1)
           r == SubSeq(s, i + 1, Len(s))
<1>1. Len(s) \in Nat
  BY LenProperties
<1>2. l \in Seq(S) /\ Len(l) = i - 1 /\ \A j \in 1 .. i - 1 : l[j] = s[j]
  BY <1>1, SubSeqProperties, ElementOfSeq, Z3
<1>3. r \in Seq(S) /\ Len(r) = Len(s) - i /\ \A j \in 1 .. Len(s) - i : r[j] = s[i + j]
  BY <1>1, SubSeqProperties, ElementOfSeq, Z3
<1> HIDE DEF l, r
<1>4. /\ l \o r \in Seq(S)
      /\ Len(l \o r) = Len(l) + Len(r)
      /\ \A j \in 1 .. Len(l) + Len(r) : (l \o r)[j] = IF j <= Len(l) THEN l[j] ELSE r[j - Len(l)]
  BY <1>2, <1>3, ConcatProperties
<1>5. RemoveAt(s, i) = l \o r
  BY DEF RemoveAt, l, r
<1>6. ASSUME NEW j \in 1 .. Len(s) - 1
      PROVE  (l \o r)[j] = IF j < i THEN s[j] ELSE s[j + 1]
  <2>1. CASE j < i
    BY <2>1, <1>1, <1>2, <1>3, <1>4
  <2>2. CASE ~ (j < i)
    <3>1. j \in 1 .. Len(l) + Len(r) /\ ~ (j <= Len(l))
      BY <2>2, <1>1, <1>2, <1>3
    <3>2. (l \o r)[j] = r[j - Len(l)]
      BY <1>4, <3>1
    <3>3. j - (i - 1) \in 1 .. Len(s) - i /\ i + (j - (i - 1)) = j + 1
      BY <2>2, <1>1
    <3>4. r[j - (i - 1)] = s[i + (j - (i - 1))]
      BY <1>3, <3>3
    <3> QED
      BY <3>2, <3>3, <3>4, <1>2, <2>2
  <2> QED
    BY <2>1, <2>2
<1>7. l \o r \in Seq(S) /\ Len(l \o r) = Len(s) - 1
  BY <1>1, <1>2, <1>3, <1>4
<1> QED
  BY ONLY <1>5, <1>6, <1>7

(* bits.Range.IntervalP cuts a range of at least two distances into two    *)
(* nonempty adjacent halves: none is lost or counted twice, whatever the   *)
(* rounding.                                                               *)
LEMMA HalvesSplit ==
    ASSUME NEW r \in DistRange, r.start < r.end
    PROVE  /\ IntervalP(r, 1, 2).start = r.start
           /\ IntervalP(r, 2, 2).end = r.end
           /\ IntervalP(r, 2, 2).start = IntervalP(r, 1, 2).end + 1
           /\ IntervalP(r, 1, 2) \in DistRange
           /\ IntervalP(r, 2, 2) \in DistRange
           /\ r.start <= IntervalP(r, 1, 2).end
           /\ IntervalP(r, 1, 2).end < r.end
<1>1. IntervalStart(r, 1, 2) = r.start
  BY ConstantsAssumption DEF IntervalStart, DistRange, ID
<1>2. IntervalStart(r, 2, 2) = r.start + ((r.end - r.start) \div 2) + ((r.end - r.start) % 2)
  BY ConstantsAssumption DEF IntervalStart, DistRange, ID
<1>3. IntervalStart(r, 2, 2) > r.start /\ IntervalStart(r, 2, 2) <= r.end
  BY <1>2, ConstantsAssumption DEF DistRange, ID
<1> QED
  BY <1>1, <1>2, <1>3, ConstantsAssumption DEF IntervalP, DistRange, ID

-----------------------------------------------------------------------------
(* A list of peers that a bucket of range r may hold.                      *)
GoodPeers(r, ps) ==
    /\ ps \in Seq(Peer)
    /\ Len(ps) <= BucketSize
    /\ \A j \in DOMAIN ps : Covers(r, Distance(ps[j].id))
    /\ \A j, l \in DOMAIN ps : ps[j].id = ps[l].id => j = l

(* A bucket in good shape.                                                 *)
GoodBucket(b) ==
    /\ b \in Bucket
    /\ b.range.start <= b.range.end
    /\ GoodPeers(b.range, b.peers)

(* Taking a peer out of a good list leaves a good list with all the        *)
(* others.                                                                 *)
LEMMA GoodRemove ==
    ASSUME NEW r, NEW ps, GoodPeers(r, ps), NEW i \in DOMAIN ps
    PROVE  /\ GoodPeers(r, RemoveAt(ps, i))
           /\ Len(RemoveAt(ps, i)) = Len(ps) - 1
           /\ \A j \in DOMAIN RemoveAt(ps, i) : RemoveAt(ps, i)[j].id # ps[i].id
           /\ \A j \in DOMAIN ps : j # i =>
                 \E l \in DOMAIN RemoveAt(ps, i) : RemoveAt(ps, i)[l] = ps[j]
           /\ \A j \in DOMAIN RemoveAt(ps, i) :
                 \E l \in DOMAIN ps : RemoveAt(ps, i)[j] = ps[l]
<1> DEFINE q == RemoveAt(ps, i)
<1>1. ps \in Seq(Peer) /\ Len(ps) \in Nat /\ i \in 1 .. Len(ps) /\ DOMAIN ps = 1 .. Len(ps)
  <2> HIDE DEF q
  <2>1. ps \in Seq(Peer)
    BY ONLY GoodPeers(r, ps), ZenonT(30) DEF GoodPeers
  <2> QED
    BY <2>1, LenProperties
<1>2. /\ q \in Seq(Peer)
      /\ Len(q) = Len(ps) - 1
      /\ \A j \in 1 .. Len(ps) - 1 : q[j] = IF j < i THEN ps[j] ELSE ps[j + 1]
  BY <1>1, RemoveAtProperties
<1>3. DOMAIN q = 1 .. Len(ps) - 1
  BY <1>2, LenProperties
<1> HIDE DEF q
<1>4. \A j \in DOMAIN q : Covers(r, Distance(q[j].id))
  BY <1>1, <1>2, <1>3 DEF GoodPeers
<1> DEFINE from(j) == IF j < i THEN j ELSE j + 1
<1>a. \A j \in DOMAIN q : from(j) \in DOMAIN ps /\ from(j) # i /\ q[j] = ps[from(j)]
  BY <1>1, <1>2, <1>3
<1>b. \A j, l \in DOMAIN q : from(j) = from(l) => j = l
  BY <1>1, <1>3
<1>c. \A j, l \in DOMAIN ps : ps[j].id = ps[l].id => j = l
  BY DEF GoodPeers
<1> HIDE DEF from
<1>5. \A j, l \in DOMAIN q : q[j].id = q[l].id => j = l
  BY <1>a, <1>b, <1>c
<1>6. \A j \in DOMAIN q : q[j].id # ps[i].id
  BY <1>a, <1>c
<1>7. ASSUME NEW j \in DOMAIN ps, j # i
      PROVE  \E l \in DOMAIN q : q[l] = ps[j]
  <2>1. CASE j < i
    BY <2>1, <1>1, <1>2, <1>3
  <2>2. CASE j > i
    <3>1. j - 1 \in DOMAIN q /\ q[j - 1] = ps[j]
      BY <2>2, <1>1, <1>2, <1>3
    <3> QED
      BY <3>1
  <2> QED
    BY <2>1, <2>2, <1>1, <1>7
<1>8. Len(q) <= BucketSize
  BY <1>1, <1>2, ConstantsAssumption DEF GoodPeers
<1> QED
  BY <1>2, <1>4, <1>5, <1>6, <1>7, <1>8, <1>a DEF GoodPeers, q

(* Adding a peer that is in range and not yet listed keeps a list good, if *)
(* there is room.                                                          *)
LEMMA GoodAppend ==
    ASSUME NEW r, NEW ps, GoodPeers(r, ps), Len(ps) < BucketSize,
           NEW p \in Peer, Covers(r, Distance(p.id)),
           \A j \in DOMAIN ps : ps[j].id # p.id
    PROVE  /\ GoodPeers(r, Append(ps, p))
           /\ DOMAIN Append(ps, p) = 1 .. Len(ps) + 1
           /\ Append(ps, p)[Len(ps) + 1] = p
           /\ \A j \in DOMAIN ps : Append(ps, p)[j] = ps[j]
<1> DEFINE q == Append(ps, p)
<1>1. ps \in Seq(Peer) /\ Len(ps) \in Nat /\ DOMAIN ps = 1 .. Len(ps)
  BY LenProperties DEF GoodPeers
<1>2. /\ q \in Seq(Peer)
      /\ Len(q) = Len(ps) + 1
      /\ \A j \in 1 .. Len(ps) : q[j] = ps[j]
      /\ q[Len(ps) + 1] = p
  BY <1>1, AppendProperties
<1>3. DOMAIN q = 1 .. Len(ps) + 1
  BY <1>1, <1>2, LenProperties
<1> HIDE DEF q
<1>4. \A j \in DOMAIN q : Covers(r, Distance(q[j].id))
  BY <1>1, <1>2, <1>3 DEF GoodPeers
<1>5. \A j, l \in DOMAIN q : q[j].id = q[l].id => j = l
  BY <1>1, <1>2, <1>3 DEF GoodPeers
<1>6. Len(q) <= BucketSize
  BY <1>1, <1>2, ConstantsAssumption
<1> QED
  BY <1>1, <1>2, <1>3, <1>4, <1>5, <1>6 DEF GoodPeers, q

(* A bucket's peers by id.                                                 *)
Listed(b, id) == \E j \in DOMAIN b.peers : b.peers[j].id = id

(* find returns 0 exactly when the id is not listed, and a position that   *)
(* has it otherwise.                                                       *)
LEMMA FindProperties ==
    ASSUME NEW id, NEW ps
    PROVE  \/ find(id, ps) = 0 /\ \A j \in DOMAIN ps : ps[j].id # id
           \/ find(id, ps) \in DOMAIN ps /\ ps[find(id, ps)].id = id
<1>1. CASE \E i \in DOMAIN ps : ps[i].id = id
  <2>1. PICK i \in DOMAIN ps : ps[i].id = id
    BY <1>1
  <2> QED
    BY <1>1, <2>1, Zenon DEF find
<1>2. CASE ~ \E i \in DOMAIN ps : ps[i].id = id
  BY <1>2, Zenon DEF find
<1> QED
  BY <1>1, <1>2

(* The peer that UpdatePeer drops from a full bucket is one of its bad     *)
(* peers.                                                                  *)
LEMMA FirstBadProperties ==
    ASSUME NEW ps \in Seq(Peer), FirstBad(ps) # 0
    PROVE  FirstBad(ps) \in DOMAIN ps /\ IsBad(ps[FirstBad(ps)])
<1> DEFINE Bad == {i \in DOMAIN ps : IsBad(ps[i])}
<1>1. Bad # {}
  BY DEF FirstBad
<1>2. DOMAIN ps = 1 .. Len(ps) /\ Len(ps) \in Nat /\ Bad \subseteq Nat
  BY LenProperties
<1>3. \E n \in Bad : \A k \in Bad : n <= k
  BY <1>1, <1>2, SmallestElement
<1>4. PICK n \in Bad : \A k \in Bad : n <= k
  BY <1>3
<1>5. n \in DOMAIN ps /\ IsBad(ps[n]) /\ \A j \in 1 .. n - 1 : ~ IsBad(ps[j])
  BY <1>2, <1>4
<1> QED
  BY <1>5, Zenon DEF FirstBad

(* UpdatePeer keeps a bucket good, keeps its range, and loses a peer only  *)
(* if that peer is bad, the bucket full and the contact a new one that     *)
(* takes its place.                                                        *)
LEMMA UpdatePeerGood ==
    ASSUME NEW b, GoodBucket(b), NEW c \in Contact, NEW f \in BOOLEAN
    PROVE  /\ GoodBucket(UpdatePeer(b, c, f))
           /\ UpdatePeer(b, c, f).range = b.range
           /\ \A j \in DOMAIN b.peers :
                \/ Listed(UpdatePeer(b, c, f), b.peers[j].id)
                \/ /\ f
                   /\ IsBad(b.peers[j])
                   /\ Len(b.peers) = BucketSize
                   /\ Listed(UpdatePeer(b, c, f), c.id)
                   /\ ~ Listed(b, c.id)
<1> DEFINE i == peerIndex(b, c)
           bad == FirstBad(b.peers)
           n == UpdatePeer(b, c, f)
           isNew == coversPeer(b, c) /\ i = 0 /\ f
<1>1. b \in Bucket /\ GoodPeers(b.range, b.peers) /\ b.peers \in Seq(Peer) /\ Len(b.peers) \in Nat
  BY LenProperties DEF GoodBucket, GoodPeers
<1>2. newPeer(c) \in Peer /\ newPeer(c).id = c.id
  BY ConstantsAssumption DEF newPeer, Peer, Contact
<1>3. CASE coversPeer(b, c) /\ i # 0
  <2> DEFINE ps == RemoveAt(b.peers, i)
             p == Touch(b.peers[i])
  <2>1. n = [b EXCEPT !.peers = Append(ps, p), !.stale = FALSE]
    BY <1>3, Zenon DEF UpdatePeer, moveToBack
  <2>2. i \in DOMAIN b.peers /\ b.peers[i].id = c.id
    BY <1>3, FindProperties DEF peerIndex
  <2>a. b.peers[i] \in Peer
    BY <2>2, <1>1, ElementOfSeq, LenProperties
  <2> HIDE DEF i
  <2>3. p \in Peer /\ p.id = b.peers[i].id
    BY <2>a, ConstantsAssumption DEF Touch, Peer
  <2>4. /\ GoodPeers(b.range, ps) /\ Len(ps) = Len(b.peers) - 1
        /\ \A j \in DOMAIN ps : ps[j].id # b.peers[i].id
        /\ \A j \in DOMAIN b.peers : j # i => \E l \in DOMAIN ps : ps[l] = b.peers[j]
    BY <1>1, <2>2, GoodRemove
  <2>5. Covers(b.range, Distance(p.id))
    BY <2>2, <2>3, <1>1 DEF GoodPeers
  <2>6. Len(ps) < BucketSize
    BY <2>4, <1>1, ConstantsAssumption DEF GoodPeers
  <2> HIDE DEF ps, p, n, i
  <2>7. /\ GoodPeers(b.range, Append(ps, p))
        /\ DOMAIN Append(ps, p) = 1 .. Len(ps) + 1
        /\ Append(ps, p)[Len(ps) + 1] = p
        /\ \A j \in DOMAIN ps : Append(ps, p)[j] = ps[j]
    BY <2>3, <2>4, <2>5, <2>6, GoodAppend
  <2>8. n.peers = Append(ps, p) /\ n.range = b.range /\ n \in Bucket
    BY <2>1, <2>7, <1>1 DEF Bucket, GoodPeers
  <2>9. GoodBucket(n)
    BY <2>7, <2>8 DEF GoodBucket
  <2>10. ASSUME NEW j \in DOMAIN b.peers PROVE Listed(n, b.peers[j].id)
    <3>1. Len(ps) \in Nat /\ DOMAIN ps = 1 .. Len(ps)
      BY <2>4, LenProperties DEF GoodPeers
    <3>2. CASE j = i
      BY <3>1, <3>2, <2>3, <2>7, <2>8 DEF Listed
    <3>3. CASE j # i
      BY <3>1, <3>3, <2>4, <2>7, <2>8 DEF Listed
    <3> QED
      BY <3>2, <3>3
  <2> QED
    BY <2>8, <2>9, <2>10 DEF n
<1>4. ASSUME NEW ps, GoodPeers(b.range, ps), Len(ps) < BucketSize, isNew,
             \A j \in DOMAIN ps : \E l \in DOMAIN b.peers : ps[j] = b.peers[l],
             n = [b EXCEPT !.peers = Append(ps, newPeer(c)), !.stale = FALSE]
      PROVE  /\ GoodBucket(n) /\ n.range = b.range
             /\ Listed(n, c.id) /\ ~ Listed(b, c.id)
             /\ \A j \in DOMAIN ps : Listed(n, ps[j].id)
  <2>1. \A j \in DOMAIN b.peers : b.peers[j].id # c.id
    BY <1>4, <1>1, FindProperties, LenProperties DEF peerIndex
  <2>2. \A j \in DOMAIN ps : ps[j].id # c.id
    BY <1>4, <2>1
  <2>3. Covers(b.range, Distance(c.id))
    BY <1>4 DEF coversPeer
  <2> HIDE DEF n, i
  <2>4. /\ GoodPeers(b.range, Append(ps, newPeer(c)))
        /\ DOMAIN Append(ps, newPeer(c)) = 1 .. Len(ps) + 1
        /\ Append(ps, newPeer(c))[Len(ps) + 1] = newPeer(c)
        /\ \A j \in DOMAIN ps : Append(ps, newPeer(c))[j] = ps[j]
    BY <1>2, <1>4, <2>2, <2>3, GoodAppend
  <2>5. n.peers = Append(ps, newPeer(c)) /\ n.range = b.range /\ n \in Bucket
    BY <1>1, <1>4, <2>4 DEF Bucket, GoodPeers
  <2>6. Len(ps) \in Nat /\ DOMAIN ps = 1 .. Len(ps)
    BY <1>4, LenProperties DEF GoodPeers
  <2>7. GoodBucket(n)
    BY <2>4, <2>5 DEF GoodBucket
  <2>8. Listed(n, c.id)
    BY <1>2, <2>4, <2>5, <2>6 DEF Listed
  <2>9. \A j \in DOMAIN ps : Listed(n, ps[j].id)
    BY <2>4, <2>5, <2>6 DEF Listed
  <2> QED
    BY <2>1, <2>5, <2>7, <2>8, <2>9 DEF Listed
<1>5. CASE isNew /\ hasRoom(b)
  <2>1. n = [b EXCEPT !.peers = Append(b.peers, newPeer(c)), !.stale = FALSE]
    BY <1>5, Zenon DEF UpdatePeer
  <2>2. Len(b.peers) < BucketSize
    BY <1>5 DEF hasRoom
  <2> QED
    BY <1>1, <1>4, <1>5, <2>1, <2>2
<1>6. CASE isNew /\ ~ hasRoom(b) /\ bad # 0
  <2> DEFINE ps == RemoveAt(b.peers, bad)
  <2>1. n = [b EXCEPT !.peers = Append(ps, newPeer(c)), !.stale = FALSE]
    BY <1>6, Zenon DEF UpdatePeer
  <2>2. bad \in DOMAIN b.peers /\ IsBad(b.peers[bad])
    BY <1>1, <1>6, FirstBadProperties
  <2>3. /\ GoodPeers(b.range, ps) /\ Len(ps) = Len(b.peers) - 1
        /\ \A j \in DOMAIN b.peers : j # bad => \E l \in DOMAIN ps : ps[l] = b.peers[j]
        /\ \A j \in DOMAIN ps : \E l \in DOMAIN b.peers : ps[j] = b.peers[l]
    BY <1>1, <2>2, GoodRemove
  <2>5. Len(ps) < BucketSize /\ Len(b.peers) = BucketSize
    BY <1>1, <1>6, <2>3, ConstantsAssumption DEF hasRoom, GoodPeers
  <2> HIDE DEF ps, n, bad
  <2>6. /\ GoodBucket(n) /\ n.range = b.range
        /\ Listed(n, c.id) /\ ~ Listed(b, c.id)
        /\ \A j \in DOMAIN ps : Listed(n, ps[j].id)
    BY <1>4, <1>6, <2>1, <2>3, <2>5
  <2>7. f
    BY <1>6
  <2> QED
    BY <2>2, <2>3, <2>5, <2>6, <2>7 DEF n
<1>7. CASE ~ (coversPeer(b, c) /\ i # 0) /\ ~ (isNew /\ hasRoom(b))
             /\ ~ (isNew /\ ~ hasRoom(b) /\ bad # 0)
  <2>1. n = b
    BY <1>7, Zenon DEF UpdatePeer
  <2> QED
    BY <2>1 DEF Listed
<1> QED
  BY <1>3, <1>5, <1>6, <1>7

(* FailContact keeps a bucket good, its range and everyone in it.          *)
LEMMA FailContactGood ==
    ASSUME NEW b, GoodBucket(b), NEW c \in Contact
    PROVE  /\ GoodBucket(FailContact(b, c.id))
           /\ FailContact(b, c.id).range = b.range
           /\ \A j \in DOMAIN b.peers : Listed(FailContact(b, c.id), b.peers[j].id)
<1> DEFINE i == find(c.id, b.peers)
           n == FailContact(b, c.id)
<1>1. b \in Bucket /\ b.peers \in Seq(Peer) /\ DOMAIN b.peers = 1 .. Len(b.peers)
      /\ Len(b.peers) \in Nat
  BY LenProperties DEF GoodBucket, GoodPeers
<1>2. CASE i = 0
  BY <1>2 DEF FailContact, Listed
<1>3. CASE i # 0
  <2> DEFINE p == FailPeer(b.peers[i])
             ps == [b.peers EXCEPT ![i] = p]
  <2>1. i \in DOMAIN b.peers
    BY <1>3, FindProperties
  <2>2. b.peers[i] \in Peer
    BY <1>1, <2>1, ElementOfSeq
  <2>3. n = [b EXCEPT !.peers = ps]
    BY <1>1, <1>3 DEF FailContact, Bucket
  <2> HIDE DEF i
  <2>4. p \in Peer /\ p.id = b.peers[i].id
    BY <2>2, ConstantsAssumption DEF FailPeer, Peer
  <2> HIDE DEF p
  <2>5. ps \in Seq(Peer) /\ Len(ps) = Len(b.peers)
        /\ \A j \in DOMAIN b.peers : ps[j] = IF j = i THEN p ELSE b.peers[j]
    BY <1>1, <2>1, <2>4, ExceptSeq
  <2>6. DOMAIN ps = DOMAIN b.peers /\ \A j \in DOMAIN ps : ps[j].id = b.peers[j].id
    BY <2>4, <2>5
  <2> HIDE DEF ps, n
  <2>7. n.peers = ps /\ n.range = b.range /\ n \in Bucket
    BY <1>1, <2>3, <2>5 DEF Bucket
  <2>8. GoodPeers(b.range, ps)
    BY <2>5, <2>6 DEF GoodPeers, GoodBucket
  <2>9. GoodBucket(n)
    BY <2>7, <2>8 DEF GoodBucket
  <2>10. \A j \in DOMAIN b.peers : Listed(n, b.peers[j].id)
    BY <2>6, <2>7 DEF Listed
  <2> QED
    BY <2>7, <2>9, <2>10 DEF n
<1> QED
  BY <1>2, <1>3

-----------------------------------------------------------------------------
(* Every bucket is in good shape.                                          *)
AllGood == \A i \in DOMAIN buckets : GoodBucket(buckets[i])

(* The inductive invariant.                                                *)
IInv ==
    /\ TypeOK
    /\ Partition
    /\ Ordered
    /\ AllGood
    /\ SplitInv
    /\ RoomAfterSplit

(* bucketFor finds a bucket for every id: its panic is never reached.      *)
LEMMA BucketForCovers ==
    ASSUME TypeOK, Partition, NEW id \in ID
    PROVE  /\ bucketFor(id) \in DOMAIN buckets
           /\ Covers(buckets[bucketFor(id)].range, Distance(id))
<1> DEFINE d == Distance(id)
           T == {i \in DOMAIN buckets : d <= buckets[i].range.end}
<1>1. d \in ID /\ d \in 0 .. MaxID
  BY ConstantsAssumption, XorAssumption DEF Distance, ID
<1>2. buckets \in Seq(Bucket) /\ Len(buckets) \in Nat /\ DOMAIN buckets = 1 .. Len(buckets)
  BY LenProperties DEF TypeOK
<1>3. \A i \in DOMAIN buckets : buckets[i].range.start \in ID /\ buckets[i].range.end \in ID
  <2>1. \A i \in DOMAIN buckets : buckets[i] \in Bucket
    BY <1>2, ElementOfSeq
  <2> QED
    BY <2>1 DEF Bucket, DistRange
<1> HIDE DEF d
<1>4. Len(buckets) \in T
  BY <1>1, <1>2 DEF Partition
<1>a. T \subseteq Nat /\ T # {}
  BY <1>2, <1>4
<1>5. PICK n \in T : \A k \in T : n <= k
  <2> HIDE DEF T
  <2> QED
    BY <1>a, SmallestElement
<1>6. buckets[n].range.start <= d
  <2>1. CASE n = 1
    BY <2>1, <1>1 DEF Partition
  <2>2. CASE n > 1
    <3>1. n - 1 \in DOMAIN buckets /\ n - 1 \notin T
      BY <1>2, <1>5, <2>2
    <3>2. ~ (d <= buckets[n - 1].range.end)
      BY <3>1
    <3>3. buckets[n].range.start = buckets[n - 1].range.end + 1
      <4>1. n - 1 \in 1 .. Len(buckets) - 1 /\ (n - 1) + 1 = n
        BY <1>2, <1>5, <2>2
      <4> QED
        BY <4>1 DEF Partition
    <3> QED
      BY <3>1, <3>2, <3>3, <1>1, <1>3 DEF ID
  <2> QED
    BY <2>1, <2>2, <1>2, <1>5
<1>7. n \in DOMAIN buckets /\ Covers(buckets[n].range, Distance(id))
  BY <1>5, <1>6 DEF Covers, d
<1> QED
  BY <1>7, Zenon DEF bucketFor

(* Replacing one bucket by a good bucket of the same range keeps the       *)
(* table's shape.                                                          *)
LEMMA ReplaceBucket ==
    ASSUME TypeOK, Partition, Ordered, AllGood,
           NEW i \in DOMAIN buckets, NEW n, GoodBucket(n), n.range = buckets[i].range,
           buckets' = [buckets EXCEPT ![i] = n]
    PROVE  /\ buckets' \in Seq(Bucket)
           /\ DOMAIN buckets' = DOMAIN buckets
           /\ Partition' /\ Ordered' /\ AllGood'
<1>1. buckets \in Seq(Bucket) /\ Len(buckets) \in Nat /\ DOMAIN buckets = 1 .. Len(buckets)
  BY LenProperties DEF TypeOK
<1>2. /\ buckets' \in Seq(Bucket) /\ Len(buckets') = Len(buckets)
      /\ \A j \in DOMAIN buckets : buckets'[j] = IF j = i THEN n ELSE buckets[j]
  BY <1>1, ExceptSeq DEF GoodBucket
<1>3. DOMAIN buckets' = DOMAIN buckets
  BY <1>1, <1>2, LenProperties
<1>4. \A j \in DOMAIN buckets : buckets'[j].range = buckets[j].range
  BY <1>2
<1>5. Partition'
  BY <1>1, <1>2, <1>3, <1>4 DEF Partition
<1>6. Ordered'
  BY <1>3, <1>4 DEF Ordered
<1>7. AllGood'
  BY <1>2, <1>3 DEF AllGood, GoodBucket, GoodPeers
<1> QED
  BY <1>2, <1>3, <1>5, <1>6, <1>7

(* What Update's append of append does: the bucket is replaced by the two  *)
(* halves and the later ones move up by one.                               *)
LEMMA ReplaceByTwo ==
    ASSUME NEW S, NEW s \in Seq(S), NEW i \in 1 .. Len(s), NEW l \in S, NEW r \in S
    PROVE  /\ ReplaceBy(s, i, l, r) \in Seq(S)
           /\ Len(ReplaceBy(s, i, l, r)) = Len(s) + 1
           /\ \A j \in 1 .. i - 1 : ReplaceBy(s, i, l, r)[j] = s[j]
           /\ ReplaceBy(s, i, l, r)[i] = l
           /\ ReplaceBy(s, i, l, r)[i + 1] = r
           /\ \A j \in i + 2 .. Len(s) + 1 : ReplaceBy(s, i, l, r)[j] = s[j - 1]
<1> DEFINE a == SubSeq(s, 1, i - 1)
           m == <<l, r>>
           z == SubSeq(s, i + 1, Len(s))
<1>1. Len(s) \in Nat
  BY LenProperties
<1>2. a \in Seq(S) /\ Len(a) = i - 1 /\ \A j \in 1 .. i - 1 : a[j] = s[j]
  BY <1>1, SubSeqProperties, ElementOfSeq, Z3
<1>3. z \in Seq(S) /\ Len(z) = Len(s) - i /\ \A j \in 1 .. Len(s) - i : z[j] = s[i + j]
  BY <1>1, SubSeqProperties, ElementOfSeq, Z3
<1>4. m \in Seq(S) /\ Len(m) = 2 /\ m[1] = l /\ m[2] = r
  OBVIOUS
<1> HIDE DEF a, m, z
<1>5. /\ a \o m \in Seq(S)
      /\ Len(a \o m) = Len(a) + Len(m)
      /\ \A j \in 1 .. Len(a) + Len(m) : (a \o m)[j] = IF j <= Len(a) THEN a[j] ELSE m[j - Len(a)]
  BY <1>2, <1>4, ConcatProperties
<1> DEFINE am == a \o m
<1>6. /\ am \in Seq(S) /\ Len(am) = i + 1
      /\ \A j \in 1 .. i - 1 : am[j] = s[j]
      /\ am[i] = l /\ am[i + 1] = r
  <2>1. \A j \in 1 .. i - 1 : am[j] = s[j]
    BY <1>1, <1>2, <1>4, <1>5
  <2>2. am[i] = m[1]
    BY <1>1, <1>2, <1>4, <1>5
  <2>3. am[i + 1] = m[2]
    BY <1>1, <1>2, <1>4, <1>5
  <2> QED
    BY <2>1, <2>2, <2>3, <1>1, <1>2, <1>4, <1>5
<1> HIDE DEF am
<1>7. /\ am \o z \in Seq(S)
      /\ Len(am \o z) = Len(am) + Len(z)
      /\ \A j \in 1 .. Len(am) + Len(z) : (am \o z)[j] = IF j <= Len(am) THEN am[j] ELSE z[j - Len(am)]
  BY <1>3, <1>6, ConcatProperties
<1> DEFINE t == am \o z
<1>8. t \in Seq(S) /\ Len(t) = Len(s) + 1
  BY <1>1, <1>3, <1>6, <1>7
<1>9. \A j \in 1 .. i + 1 : t[j] = am[j]
  BY <1>1, <1>3, <1>6, <1>7
<1>10. ASSUME NEW j \in i + 2 .. Len(s) + 1 PROVE t[j] = s[j - 1]
  <2>1. t[j] = z[j - (i + 1)]
    BY <1>1, <1>3, <1>6, <1>7
  <2>2. j - (i + 1) \in 1 .. Len(s) - i /\ i + (j - (i + 1)) = j - 1
    BY <1>1
  <2> QED
    BY <2>1, <2>2, <1>3
<1> HIDE DEF t
<1>11. \A j \in 1 .. i - 1 : t[j] = s[j]
  BY <1>1, <1>6, <1>9
<1>12. t[i] = l /\ t[i + 1] = r
  BY <1>1, <1>6, <1>9
<1>13. t = ReplaceBy(s, i, l, r)
  BY DEF t, am, a, m, z, ReplaceBy
<1> QED
  BY <1>8, <1>10, <1>11, <1>12, <1>13

(* In particular the buckets before it stay.                               *)
LEMMA ReplaceByLow ==
    ASSUME NEW S, NEW s \in Seq(S), NEW i \in 1 .. Len(s), NEW l \in S, NEW r \in S
    PROVE  \A j \in 1 .. i - 1 : ReplaceBy(s, i, l, r)[j] = s[j]
  BY ReplaceByTwo

-----------------------------------------------------------------------------
(* Splitting.                                                              *)

(* While a bucket is split, the range narrowed down to still has two       *)
(* distances, since two of its peers differ.                               *)
LEMMA SplitRange ==
    ASSUME IInv, upd.pc = "split"
    PROVE  /\ upd.range \in DistRange
           /\ upd.range.start < upd.range.end
           /\ SplitPeers \in Seq(Peer)
           /\ GoodBucket(buckets[upd.b])
<1>1. upd.b \in DOMAIN buckets /\ upd.range \in DistRange
  BY DEF IInv, TypeOK
<1>2. GoodBucket(buckets[upd.b])
  BY <1>1 DEF IInv, AllGood
<1>3. SplitPeers \in Seq(Peer) /\ Len(SplitPeers) = BucketSize
      /\ DOMAIN SplitPeers = 1 .. BucketSize
  BY <1>2, LenProperties DEF GoodBucket, GoodPeers, SplitPeers, IInv, SplitInv
<1>4. 1 \in DOMAIN SplitPeers /\ 2 \in DOMAIN SplitPeers
  BY <1>3, ConstantsAssumption
<1>5. SplitPeers[1].id # SplitPeers[2].id
  BY <1>2, <1>4 DEF GoodBucket, GoodPeers, SplitPeers
<1>6. SplitPeers[1] \in Peer /\ SplitPeers[2] \in Peer
  BY <1>3, <1>4, ElementOfSeq
<1>7. Distance(SplitPeers[1].id) # Distance(SplitPeers[2].id)
      /\ Distance(SplitPeers[1].id) \in ID /\ Distance(SplitPeers[2].id) \in ID
  BY <1>5, <1>6, XorAssumption, ConstantsAssumption DEF Distance, Peer
<1>8. Covers(upd.range, Distance(SplitPeers[1].id)) /\ Covers(upd.range, Distance(SplitPeers[2].id))
  BY <1>4 DEF IInv, SplitInv
<1>9. upd.range.start < upd.range.end
  BY <1>1, <1>7, <1>8 DEF Covers, DistRange, ID
<1> QED
  BY <1>1, <1>2, <1>3, <1>9

(* One half under construction.                                            *)
PartOf(h, q) ==
    /\ \A j \in DOMAIN q : Covers(h, Distance(q[j].id))
    /\ \A j, l \in DOMAIN q : q[j].id = q[l].id => j = l

(* A half under construction that takes one more peer keeps its peers in   *)
(* range and distinct.                                                     *)
LEMMA AppendPart ==
    ASSUME NEW h, NEW q \in Seq(Peer), PartOf(h, q), NEW p \in Peer,
           Covers(h, Distance(p.id)), \A x \in ToSet(q) : x.id # p.id
    PROVE  /\ Append(q, p) \in Seq(Peer)
           /\ Len(Append(q, p)) = Len(q) + 1
           /\ PartOf(h, Append(q, p))
           /\ ToSet(Append(q, p)) = ToSet(q) \cup {p}
<1> DEFINE t == Append(q, p)
<1>1. /\ Len(q) \in Nat /\ DOMAIN q = 1 .. Len(q)
      /\ t \in Seq(Peer) /\ Len(t) = Len(q) + 1
      /\ \A j \in 1 .. Len(q) : t[j] = q[j]
      /\ t[Len(q) + 1] = p
  BY AppendProperties, LenProperties
<1>2. DOMAIN t = 1 .. Len(q) + 1
  BY <1>1, LenProperties
<1> HIDE DEF t
<1>3. \A j \in DOMAIN q : q[j].id # p.id
  BY DEF ToSet
<1>4. PartOf(h, t)
  BY <1>1, <1>2, <1>3 DEF PartOf
<1>5. ToSet(t) = ToSet(q) \cup {p}
  BY <1>1, <1>2 DEF ToSet
<1> QED
  BY <1>1, <1>4, <1>5 DEF t

(* Moving the next peer into its half preserves the invariant.             *)
LEMMA SplitPeerInv ==
    ASSUME IInv, SplitPeer
    PROVE  IInv'
<1> DEFINE p == SplitPeers[upd.i]
           done == {SplitPeers[j] : j \in 1 .. upd.i - 1}
           nl == Len(upd.left)
           nr == Len(upd.right)
<1>1. upd.pc = "split" /\ upd.i <= Len(SplitPeers) /\ buckets' = buckets
  BY DEF SplitPeer
<1>2. /\ upd.range \in DistRange /\ upd.range.start < upd.range.end
      /\ SplitPeers \in Seq(Peer) /\ GoodBucket(buckets[upd.b])
  BY <1>1, SplitRange
<1>3. /\ upd.left \in Seq(Peer) /\ upd.right \in Seq(Peer)
      /\ nl \in Nat /\ nr \in Nat
      /\ Len(SplitPeers) \in Nat /\ DOMAIN SplitPeers = 1 .. Len(SplitPeers)
  BY <1>2, LenProperties DEF IInv, TypeOK
<1>4. /\ Len(SplitPeers) = BucketSize
      /\ buckets[upd.b].range.start <= upd.range.start
      /\ upd.range.end <= buckets[upd.b].range.end
      /\ \A j \in DOMAIN SplitPeers : Covers(upd.range, Distance(SplitPeers[j].id))
      /\ upd.i \in 1 .. Len(SplitPeers) + 1
      /\ nl + nr = upd.i - 1
      /\ PartOf(LeftHalf, upd.left) /\ PartOf(RightHalf, upd.right)
      /\ ToSet(upd.left) \cup ToSet(upd.right) = done
  BY <1>1 DEF IInv, SplitInv, PartOf
<1>5. upd.i \in DOMAIN SplitPeers /\ upd.i \in Nat /\ p \in Peer
  BY <1>1, <1>2, <1>3, <1>4, ElementOfSeq
<1>6. Covers(upd.range, Distance(p.id)) /\ Distance(p.id) \in ID
  <2>1. Covers(upd.range, Distance(p.id))
    BY <1>4, <1>5
  <2>2. p.id \in ID
    BY <1>5 DEF Peer
  <2> QED
    BY <2>1, <2>2, XorAssumption, ConstantsAssumption DEF Distance
<1>7. Covers(LeftHalf, Distance(p.id)) \/ Covers(RightHalf, Distance(p.id))
  BY <1>2, <1>6, HalvesSplit DEF LeftHalf, RightHalf, Covers, DistRange, ID
<1>8. \A x \in done : x.id # p.id
  <2>1. \A j, l \in DOMAIN SplitPeers : SplitPeers[j].id = SplitPeers[l].id => j = l
    BY <1>2 DEF GoodBucket, GoodPeers, SplitPeers
  <2>2. ASSUME NEW j \in 1 .. upd.i - 1 PROVE SplitPeers[j].id # p.id
    <3>1. j \in DOMAIN SplitPeers /\ j # upd.i
      BY <1>3, <1>4
    <3> QED
      BY <1>5, <2>1, <3>1
  <2> QED
    BY <2>2
<1>9. {SplitPeers[j] : j \in 1 .. (upd.i + 1) - 1} = done \cup {p}
  BY <1>3, <1>4, <1>5
<1> DEFINE L == IF Covers(LeftHalf, Distance(p.id)) THEN Append(upd.left, p) ELSE upd.left
           R == IF Covers(LeftHalf, Distance(p.id)) THEN upd.right ELSE Append(upd.right, p)
<1>10. upd' = [upd EXCEPT !.i = @ + 1, !.left = L, !.right = R]
  BY DEF SplitPeer, IInv, TypeOK
<1> HIDE DEF p, done, nl, nr
<1>11. /\ L \in Seq(Peer) /\ R \in Seq(Peer)
       /\ Len(L) + Len(R) = nl + nr + 1
       /\ PartOf(LeftHalf, L) /\ PartOf(RightHalf, R)
       /\ ToSet(L) \cup ToSet(R) = done \cup {p}
  <2>1. CASE Covers(LeftHalf, Distance(p.id))
    <3>1. L = Append(upd.left, p) /\ R = upd.right
      BY <2>1
    <3>2. \A x \in ToSet(upd.left) : x.id # p.id
      BY <1>4, <1>8
    <3>3. /\ L \in Seq(Peer) /\ Len(L) = nl + 1 /\ PartOf(LeftHalf, L)
          /\ ToSet(L) = ToSet(upd.left) \cup {p}
      BY <1>3, <1>4, <1>5, <2>1, <3>1, <3>2, AppendPart DEF nl, nr
    <3> HIDE DEF L, R
    <3>a. Len(L) = nl + 1 /\ Len(R) = nr
      BY <3>1, <3>3 DEF nr
    <3>4. Len(L) + Len(R) = nl + nr + 1
      BY <1>3, <3>a
    <3>5. ToSet(L) \cup ToSet(R) = done \cup {p}
      BY <1>4, <3>1, <3>3, Zenon
    <3> QED
      BY <1>3, <1>4, <3>1, <3>3, <3>4, <3>5
  <2>2. CASE ~ Covers(LeftHalf, Distance(p.id))
    <3>1. R = Append(upd.right, p) /\ L = upd.left
      BY <2>2
    <3>2. \A x \in ToSet(upd.right) : x.id # p.id
      BY <1>4, <1>8
    <3>3. /\ R \in Seq(Peer) /\ Len(R) = nr + 1 /\ PartOf(RightHalf, R)
          /\ ToSet(R) = ToSet(upd.right) \cup {p}
      BY <1>3, <1>4, <1>5, <1>7, <2>2, <3>1, <3>2, AppendPart DEF nl, nr
    <3> HIDE DEF L, R
    <3>a. Len(L) = nl /\ Len(R) = nr + 1
      BY <3>1, <3>3 DEF nl
    <3>4. Len(L) + Len(R) = nl + nr + 1
      BY <1>3, <3>a
    <3>5. ToSet(L) \cup ToSet(R) = done \cup {p}
      BY <1>4, <3>1, <3>3, Zenon
    <3> QED
      BY <1>3, <1>4, <3>1, <3>3, <3>4, <3>5
  <2> QED
    BY <2>1, <2>2
<1> HIDE DEF L, R
<1>12. /\ upd'.pc = "split" /\ upd'.b = upd.b /\ upd'.range = upd.range
       /\ upd'.i = upd.i + 1 /\ upd'.left = L /\ upd'.right = R
  BY <1>1, <1>10 DEF IInv, TypeOK
<1>13. TypeOK'
  <2>1. upd.i + 1 \in Nat
    BY <1>5
  <2> QED
    BY <1>1, <1>10, <1>11, <2>1 DEF IInv, TypeOK
<1>14. SplitPeers' = SplitPeers /\ LeftHalf' = LeftHalf /\ RightHalf' = RightHalf
  BY <1>1, <1>12 DEF SplitPeers, LeftHalf, RightHalf
<1>15. SplitInv'
  <2>1. \A j \in DOMAIN L : Covers(LeftHalf, Distance(L[j].id))
    BY <1>11 DEF PartOf
  <2>2. \A j \in DOMAIN R : Covers(RightHalf, Distance(R[j].id))
    BY <1>11 DEF PartOf
  <2>3. \A j, l \in DOMAIN L : L[j].id = L[l].id => j = l
    BY <1>11 DEF PartOf
  <2>4. \A j, l \in DOMAIN R : R[j].id = R[l].id => j = l
    BY <1>11 DEF PartOf
  <2>a. nl + nr + 1 = (upd.i + 1) - 1
    BY <1>3, <1>4, <1>5
  <2>b. Len(L) + Len(R) = (upd.i + 1) - 1
    BY <1>11, <2>a, Zenon
  <2>5. upd.i + 1 \in 1 .. Len(SplitPeers) + 1
    BY <1>1, <1>3, <1>4, <1>5
  <2>6. ToSet(L) \cup ToSet(R) = {SplitPeers[j] : j \in 1 .. (upd.i + 1) - 1}
    BY <1>9, <1>11
  <2> QED
    BY <1>1, <1>4, <1>12, <1>14, <2>1, <2>2, <2>3, <2>4, <2>5, <2>6, <2>b DEF SplitInv
<1>16. Partition' /\ Ordered' /\ AllGood' /\ RoomAfterSplit'
  BY <1>1, <1>12 DEF IInv, Partition, Ordered, AllGood, GoodBucket, GoodPeers, RoomAfterSplit
<1> QED
  BY <1>13, <1>15, <1>16 DEF IInv

(* Narrowing the range to the half that took all peers preserves the       *)
(* invariant.                                                              *)
LEMMA SplitNarrowInv ==
    ASSUME IInv, SplitNarrow
    PROVE  IInv'
<1> DEFINE r == IF upd.left = <<>> THEN RightHalf ELSE LeftHalf
<1>1. /\ upd.pc = "split" /\ upd.i > Len(SplitPeers) /\ buckets' = buckets
      /\ upd.left = <<>> \/ upd.right = <<>>
      /\ upd' = [upd EXCEPT !.range = r, !.i = 1, !.left = <<>>, !.right = <<>>]
  BY DEF SplitNarrow, OneSided
<1>2. /\ upd.range \in DistRange /\ upd.range.start < upd.range.end
      /\ SplitPeers \in Seq(Peer) /\ GoodBucket(buckets[upd.b])
  BY <1>1, SplitRange
<1>3. /\ LeftHalf \in DistRange /\ RightHalf \in DistRange
      /\ LeftHalf.start = upd.range.start /\ LeftHalf.end <= upd.range.end
      /\ RightHalf.end = upd.range.end /\ upd.range.start <= RightHalf.start
  BY <1>2, HalvesSplit DEF LeftHalf, RightHalf, DistRange, ID
<1>4. r \in DistRange /\ upd.range.start <= r.start /\ r.end <= upd.range.end
  BY <1>2, <1>3 DEF DistRange, ID
<1>5. /\ Len(SplitPeers) = BucketSize
      /\ buckets[upd.b].range.start <= upd.range.start
      /\ upd.range.end <= buckets[upd.b].range.end
      /\ upd.i \in 1 .. Len(SplitPeers) + 1
      /\ \A j \in DOMAIN upd.left : Covers(LeftHalf, Distance(upd.left[j].id))
      /\ \A j \in DOMAIN upd.right : Covers(RightHalf, Distance(upd.right[j].id))
      /\ ToSet(upd.left) \cup ToSet(upd.right) = {SplitPeers[j] : j \in 1 .. upd.i - 1}
  BY <1>1 DEF IInv, SplitInv
<1>6. DOMAIN SplitPeers = 1 .. upd.i - 1 /\ Len(SplitPeers) \in Nat
  BY <1>1, <1>2, <1>5, LenProperties
<1>7. \A j \in DOMAIN SplitPeers : Covers(r, Distance(SplitPeers[j].id))
  <2>1. \A j \in DOMAIN SplitPeers : SplitPeers[j] \in ToSet(upd.left) \cup ToSet(upd.right)
    BY <1>5, <1>6
  <2>2. CASE upd.left = <<>>
    <3>1. ToSet(upd.left) = {} /\ r = RightHalf
      BY <2>2 DEF ToSet
    <3> QED
      BY <2>1, <3>1, <1>5 DEF ToSet
  <2>3. CASE upd.left # <<>>
    <3>1. ToSet(upd.right) = {} /\ r = LeftHalf
      BY <2>3, <1>1 DEF ToSet
    <3> QED
      BY <2>1, <3>1, <1>5 DEF ToSet
  <2> QED
    BY <2>2, <2>3
<1> HIDE DEF r
<1>8. /\ upd'.pc = "split" /\ upd'.b = upd.b /\ upd'.range = r
      /\ upd'.i = 1 /\ upd'.left = <<>> /\ upd'.right = <<>>
  BY <1>1 DEF IInv, TypeOK
<1>9. TypeOK'
  BY <1>1, <1>4 DEF IInv, TypeOK
<1>10. SplitPeers' = SplitPeers
  BY <1>1, <1>8 DEF SplitPeers
<1>11. SplitInv'
  <2>1. buckets[upd.b].range.start <= r.start /\ r.end <= buckets[upd.b].range.end
    BY <1>2, <1>4, <1>5 DEF DistRange, ID, GoodBucket, Bucket
  <2>2. ToSet(<<>>) \cup ToSet(<<>>) = {SplitPeers[j] : j \in 1 .. 1 - 1}
    BY DEF ToSet
  <2>3. 1 \in 1 .. Len(SplitPeers) + 1 /\ Len(<<>>) + Len(<<>>) = 1 - 1
    BY <1>6
  <2> QED
    BY <1>1, <1>5, <1>7, <1>8, <1>10, <2>1, <2>2, <2>3 DEF SplitInv
<1>12. Partition' /\ Ordered' /\ AllGood' /\ RoomAfterSplit'
  BY <1>1, <1>8 DEF IInv, Partition, Ordered, AllGood, GoodBucket, GoodPeers, RoomAfterSplit
<1> QED
  BY <1>9, <1>11, <1>12 DEF IInv

(* The register is well typed when no Update runs.                         *)
LEMMA IdleType ==
    /\ idle.pc = "idle"
    /\ idle.b = 1
    /\ idle \in [pc : {"idle", "split", "half", "insert"}, c : Contact,
                 b : Nat, range : DistRange, i : Nat,
                 left : Seq(Peer), right : Seq(Peer)]
<1>1. NoContact \in Contact
  BY ConstantsAssumption DEF NoContact, Contact
<1>2. MaxRange \in DistRange
  BY ConstantsAssumption DEF MaxRange, DistRange, ID
<1>3. <<>> \in Seq(Peer)
  OBVIOUS
<1> QED
  BY <1>1, <1>2, <1>3 DEF idle

(* The two halves that are about to be linked.                             *)
LEMMA Halves ==
    ASSUME IInv, upd.pc = "split", upd.i > Len(SplitPeers), ~ OneSided
    PROVE  /\ GoodBucket(LeftBucket) /\ GoodBucket(RightBucket)
           /\ LeftBucket.range.start = buckets[upd.b].range.start
           /\ RightBucket.range.end = buckets[upd.b].range.end
           /\ RightBucket.range.start = LeftBucket.range.end + 1
           /\ LeftBucket.peers = upd.left /\ upd.left # <<>>
           /\ RightBucket.peers = upd.right /\ upd.right # <<>>
           /\ Len(upd.left) < BucketSize /\ Len(upd.right) < BucketSize
           /\ ToSet(upd.left) \cup ToSet(upd.right) = ToSet(SplitPeers)
<1> DEFINE b == buckets[upd.b]
           L == upd.left
           R == upd.right
<1>1. /\ upd.range \in DistRange /\ upd.range.start < upd.range.end
      /\ SplitPeers \in Seq(Peer) /\ GoodBucket(b)
  BY SplitRange
<1>2. /\ L \in Seq(Peer) /\ R \in Seq(Peer) /\ b \in Bucket
  BY <1>1 DEF IInv, TypeOK, GoodBucket
<1>3. /\ Len(SplitPeers) = BucketSize
      /\ b.range.start <= upd.range.start /\ upd.range.end <= b.range.end
      /\ upd.i \in 1 .. Len(SplitPeers) + 1
      /\ Len(L) + Len(R) = upd.i - 1
      /\ PartOf(LeftHalf, L) /\ PartOf(RightHalf, R)
      /\ ToSet(L) \cup ToSet(R) = {SplitPeers[j] : j \in 1 .. upd.i - 1}
  BY DEF IInv, SplitInv, PartOf
<1>4. L # <<>> /\ R # <<>>
  BY <1>3, ConstantsAssumption DEF OneSided
<1>5. upd.i - 1 = BucketSize /\ DOMAIN SplitPeers = 1 .. upd.i - 1
  BY <1>1, <1>3, ConstantsAssumption, LenProperties
<1>6. /\ LeftHalf \in DistRange /\ RightHalf \in DistRange
      /\ LeftHalf.start = upd.range.start /\ RightHalf.end = upd.range.end
      /\ RightHalf.start = LeftHalf.end + 1
      /\ upd.range.start <= LeftHalf.end /\ LeftHalf.end < upd.range.end
  BY <1>1, HalvesSplit DEF LeftHalf, RightHalf
<1>7. /\ b.range \in DistRange
      /\ LeftBucket = [b EXCEPT !.range = [b.range EXCEPT !.end = LeftHalf.end], !.peers = L]
      /\ RightBucket = [b EXCEPT !.range = [b.range EXCEPT !.start = RightHalf.start], !.peers = R]
  BY <1>2 DEF LeftBucket, RightBucket, Bucket, DistRange
<1> HIDE DEF L, R, b
<1>8. Len(L) \in Nat /\ Len(R) \in Nat /\ Len(L) > 0 /\ Len(R) > 0
  BY <1>2, <1>4, LenProperties, EmptySeq
<1>9. Len(L) < BucketSize /\ Len(R) < BucketSize
  BY <1>3, <1>5, <1>8, ConstantsAssumption
<1> DEFINE lr == [b.range EXCEPT !.end = LeftHalf.end]
           rr == [b.range EXCEPT !.start = RightHalf.start]
<1>10. /\ lr \in DistRange /\ lr.start = b.range.start /\ lr.end = LeftHalf.end
       /\ rr \in DistRange /\ rr.end = b.range.end /\ rr.start = RightHalf.start
  BY <1>6, <1>7 DEF DistRange
<1> HIDE DEF lr, rr
<1>11. /\ LeftBucket \in Bucket /\ LeftBucket.range = lr /\ LeftBucket.peers = L
       /\ RightBucket \in Bucket /\ RightBucket.range = rr /\ RightBucket.peers = R
  BY <1>2, <1>7, <1>10 DEF Bucket, lr, rr
<1>12. lr.start <= lr.end /\ rr.start <= rr.end
  BY <1>1, <1>3, <1>6, <1>7, <1>10 DEF DistRange, ID
<1>13. \A d : Covers(LeftHalf, d) /\ d \in ID => Covers(lr, d)
  BY <1>1, <1>3, <1>6, <1>7, <1>10 DEF DistRange, ID, Covers
<1>14. \A d : Covers(RightHalf, d) /\ d \in ID => Covers(rr, d)
  BY <1>1, <1>3, <1>6, <1>7, <1>10 DEF DistRange, ID, Covers
<1>15. ASSUME NEW p \in Peer PROVE Distance(p.id) \in ID
  BY XorAssumption, ConstantsAssumption DEF Peer, Distance
<1>16. GoodPeers(lr, L)
  <2>1. \A j \in DOMAIN L : L[j] \in Peer
    BY <1>2, ElementOfSeq, LenProperties
  <2> QED
    BY <2>1, <1>2, <1>3, <1>8, <1>9, <1>13, <1>15, ConstantsAssumption DEF GoodPeers, PartOf
<1>17. GoodPeers(rr, R)
  <2>1. \A j \in DOMAIN R : R[j] \in Peer
    BY <1>2, ElementOfSeq, LenProperties
  <2> QED
    BY <2>1, <1>2, <1>3, <1>8, <1>9, <1>14, <1>15, ConstantsAssumption DEF GoodPeers, PartOf
<1>18. GoodBucket(LeftBucket) /\ GoodBucket(RightBucket)
  BY <1>11, <1>12, <1>16, <1>17 DEF GoodBucket
<1>19. ToSet(L) \cup ToSet(R) = ToSet(SplitPeers)
  BY <1>3, <1>5 DEF ToSet
<1> QED
  BY <1>4, <1>6, <1>9, <1>10, <1>11, <1>18, <1>19 DEF L, R, b

(* Linking the two halves preserves the invariant.                         *)
LEMMA SplitLinkInv ==
    ASSUME IInv, SplitLink
    PROVE  IInv'
<1> DEFINE l == LeftBucket
           r == RightBucket
           k == upd.b
           n == Len(buckets)
<1>1. /\ upd.pc = "split" /\ upd.i > Len(SplitPeers) /\ ~ OneSided
      /\ buckets' = ReplaceBy(buckets, k, l, r)
      /\ upd' = [idle EXCEPT !.pc = "half", !.c = upd.c,
                             !.b = IF GoLeft(LeftBucket, upd.c) THEN upd.b ELSE upd.b + 1]
  BY DEF SplitLink
<1>2. /\ GoodBucket(l) /\ GoodBucket(r)
      /\ l.range.start = buckets[k].range.start
      /\ r.range.end = buckets[k].range.end
      /\ r.range.start = l.range.end + 1
      /\ l.peers # <<>> /\ r.peers # <<>>
      /\ Len(l.peers) < BucketSize /\ Len(r.peers) < BucketSize
  BY <1>1, Halves
<1>3. /\ buckets \in Seq(Bucket) /\ n \in Nat /\ DOMAIN buckets = 1 .. n
      /\ k \in 1 .. n /\ l \in Bucket /\ r \in Bucket
  BY <1>2, LenProperties DEF IInv, TypeOK, GoodBucket
<1> HIDE DEF l, r, k
<1>4. /\ buckets' \in Seq(Bucket)
      /\ Len(buckets') = n + 1
      /\ \A j \in 1 .. k - 1 : buckets'[j] = buckets[j]
      /\ buckets'[k] = l
      /\ buckets'[k + 1] = r
      /\ \A j \in k + 2 .. n + 1 : buckets'[j] = buckets[j - 1]
  <2>1. buckets \in Seq(Bucket) /\ k \in 1 .. Len(buckets) /\ l \in Bucket /\ r \in Bucket
    BY <1>3
  <2> DEFINE u == ReplaceBy(buckets, k, l, r)
  <2>2. u \in Seq(Bucket)
    BY <2>1, ReplaceByTwo
  <2>3. Len(u) = Len(buckets) + 1
    BY <2>1, ReplaceByTwo
  <2>4. u[k] = l /\ u[k + 1] = r
    BY <2>1, ReplaceByTwo
  <2>5. \A j \in 1 .. k - 1 : u[j] = buckets[j]
    <3>1. \A j \in 1 .. k - 1 : ReplaceBy(buckets, k, l, r)[j] = buckets[j]
      <4> HIDE DEF u
      <4> QED
        BY ONLY <2>1, ReplaceByLow
    <3> QED
      BY <3>1
  <2>6. \A j \in k + 2 .. Len(buckets) + 1 : u[j] = buckets[j - 1]
    BY <2>1, ReplaceByTwo
  <2> HIDE DEF u
  <2>7. buckets' = u
    BY <1>1 DEF u
  <2> QED
    BY <2>2, <2>3, <2>4, <2>5, <2>6, <2>7
<1>5. DOMAIN buckets' = 1 .. n + 1
  BY <1>3, <1>4, LenProperties
<1> HIDE DEF n
<1>6. \A j \in 1 .. n : /\ buckets[j] \in Bucket /\ GoodBucket(buckets[j])
                        /\ buckets[j].range.start \in Int /\ buckets[j].range.end \in Int
  <2>1. \A j \in 1 .. n : buckets[j] \in Bucket /\ GoodBucket(buckets[j])
    BY <1>3, ElementOfSeq DEF IInv, AllGood, n
  <2> QED
    BY <2>1 DEF Bucket, DistRange, ID
<1>7. /\ l.range.start \in Int /\ l.range.end \in Int /\ l.range.start <= l.range.end
      /\ r.range.start \in Int /\ r.range.end \in Int /\ r.range.start <= r.range.end
  <2>1. ASSUME NEW b \in Bucket, GoodBucket(b)
        PROVE  b.range.start \in Int /\ b.range.end \in Int /\ b.range.start <= b.range.end
    BY <2>1 DEF Bucket, DistRange, ID, GoodBucket
  <2> QED
    BY <1>2, <1>3, <2>1
<1>8. \A j \in 1 .. n + 1 : \/ j \in 1 .. k - 1
                            \/ j = k
                            \/ j = k + 1
                            \/ j \in k + 2 .. n + 1 /\ j - 1 \in k + 1 .. n
  BY <1>3
<1>9. AllGood'
  <2>1. \A j \in 1 .. n + 1 : GoodBucket(buckets'[j])
    BY <1>2, <1>3, <1>4, <1>6, <1>8
  <2> QED
    BY <1>5, <2>1 DEF AllGood, GoodBucket, GoodPeers
<1>10. Ordered'
  <2> SUFFICES ASSUME NEW i \in 1 .. n + 1, NEW j \in 1 .. n + 1, i < j
               PROVE  buckets'[i].range.end < buckets'[j].range.start
    BY <1>5 DEF Ordered
  <2>1. \A x, y \in 1 .. n : x < y => buckets[x].range.end < buckets[y].range.start
    BY <1>3 DEF IInv, Ordered
  <2>2. CASE i \in 1 .. k - 1 /\ j \in 1 .. k - 1
    BY <2>1, <2>2, <1>3, <1>4
  <2>3. CASE i \in 1 .. k - 1 /\ j = k
    BY <2>1, <2>3, <1>2, <1>3, <1>4
  <2>4. CASE i \in 1 .. k - 1 /\ j = k + 1
    <3>1. i \in 1 .. n /\ i < k /\ buckets'[i] = buckets[i] /\ buckets'[j] = r
      BY <2>4, <1>3, <1>4
    <3>2. buckets[i].range.end < buckets[k].range.start
      BY <2>1, <3>1, <1>3
    <3> QED
      BY <3>1, <3>2, <1>2, <1>3, <1>6, <1>7
  <2>5. CASE i \in 1 .. k - 1 /\ j \in k + 2 .. n + 1
    <3>1. i \in 1 .. n /\ j - 1 \in 1 .. n /\ i < j - 1
      BY <2>5, <1>3
    <3> QED
      BY <2>1, <2>5, <3>1, <1>4
  <2>6. CASE i = k /\ j = k + 1
    BY <2>6, <1>2, <1>4, <1>7
  <2>7. CASE (i = k \/ i = k + 1) /\ j \in k + 2 .. n + 1
    <3>1. j - 1 \in 1 .. n /\ k < j - 1 /\ buckets'[j] = buckets[j - 1]
      BY <2>7, <1>3, <1>4
    <3>2. buckets[k].range.end < buckets[j - 1].range.start
      BY <2>1, <3>1, <1>3
    <3>3. buckets'[i].range.end <= buckets[k].range.end /\ buckets'[i].range.end \in Int
      <4>1. CASE i = k
        BY <4>1, <1>2, <1>4, <1>7
      <4>2. CASE i = k + 1
        BY <4>2, <1>2, <1>4, <1>7
      <4> QED
        BY <2>7, <4>1, <4>2
    <3> QED
      BY <3>1, <3>2, <3>3, <1>3, <1>6
  <2>8. CASE i \in k + 2 .. n + 1 /\ j \in k + 2 .. n + 1
    <3>1. i - 1 \in 1 .. n /\ j - 1 \in 1 .. n /\ i - 1 < j - 1
      BY <2>8, <1>3
    <3> QED
      BY <2>1, <2>8, <3>1, <1>4
  <2> QED
    BY <1>3, <1>8, <2>2, <2>3, <2>4, <2>5, <2>6, <2>7, <2>8
<1>11. Partition'
  <2>1. /\ buckets[1].range.start = 0 /\ buckets[n].range.end = MaxID
        /\ \A i \in 1 .. n - 1 : buckets[i + 1].range.start = buckets[i].range.end + 1
    BY DEF IInv, Partition, n
  <2>2. buckets'[1].range.start = 0
    BY <2>1, <1>2, <1>3, <1>4
  <2>3. buckets'[n + 1].range.end = MaxID
    <3>1. CASE k = n
      BY <3>1, <2>1, <1>2, <1>3, <1>4
    <3>2. CASE k < n
      <4>1. n + 1 \in k + 2 .. n + 1 /\ (n + 1) - 1 = n
        BY <3>2, <1>3 DEF n
      <4> QED
        BY <4>1, <2>1, <1>4
    <3> QED
      BY <3>1, <3>2, <1>3
  <2>4. ASSUME NEW i \in 1 .. n
        PROVE  buckets'[i + 1].range.start = buckets'[i].range.end + 1
    <3>1. CASE i < k - 1
      <4>1. i \in 1 .. n - 1 /\ i \in 1 .. k - 1 /\ i + 1 \in 1 .. k - 1
        BY <3>1, <1>3
      <4> QED
        BY <4>1, <2>1, <1>4
    <3>2. CASE i = k - 1
      <4>1. i \in 1 .. n - 1 /\ i \in 1 .. k - 1 /\ i + 1 = k
        BY <3>2, <1>3
      <4> QED
        BY <4>1, <2>1, <1>2, <1>4
    <3>3. CASE i = k
      BY <3>3, <1>2, <1>4
    <3>4. CASE i = k + 1
      <4>1. i + 1 \in k + 2 .. n + 1 /\ (i + 1) - 1 = k + 1 /\ k \in 1 .. n - 1
        BY <3>4, <1>3
      <4> QED
        BY <3>4, <4>1, <2>1, <1>2, <1>4
    <3>5. CASE i > k + 1
      <4>1. /\ i \in k + 2 .. n + 1 /\ i + 1 \in k + 2 .. n + 1
            /\ (i + 1) - 1 = (i - 1) + 1 /\ i - 1 \in 1 .. n - 1
        BY <3>5, <1>3
      <4> QED
        BY <4>1, <2>1, <1>4
    <3> QED
      BY <3>1, <3>2, <3>3, <3>4, <3>5, <1>3
  <2>5. \A i \in 1 .. n + 1 : buckets'[i].range.start <= buckets'[i].range.end
    BY <1>5, <1>9 DEF AllGood, GoodBucket
  <2>6. Len(buckets') > 0 /\ n \in Nat /\ (n + 1) - 1 = n
    BY <1>3, <1>4
  <2> QED
    BY <1>4, <1>5, <2>2, <2>3, <2>4, <2>5, <2>6 DEF Partition
<1>12. /\ upd'.pc = "half" /\ upd'.b \in {k, k + 1}
       /\ upd' \in [pc : {"idle", "split", "half", "insert"}, c : Contact,
                    b : Nat, range : DistRange, i : Nat,
                    left : Seq(Peer), right : Seq(Peer)]
  <2>1. upd.c \in Contact /\ k \in Nat /\ k + 1 \in Nat
    BY <1>3 DEF IInv, TypeOK
  <2> QED
    BY <1>1, <2>1, IdleType DEF k
<1>13. TypeOK'
  <2>1. upd'.b \in DOMAIN buckets'
    BY <1>3, <1>5, <1>12
  <2> QED
    BY <2>1, <1>4, <1>12 DEF TypeOK
<1>14. SplitInv'
  BY <1>12 DEF SplitInv
<1>15. RoomAfterSplit'
  BY <1>2, <1>4, <1>12 DEF RoomAfterSplit
<1> QED
  BY <1>9, <1>10, <1>11, <1>13, <1>14, <1>15 DEF IInv

-----------------------------------------------------------------------------
(* The other steps.                                                        *)

(* The empty table satisfies the invariant.                                *)
LEMMA InitInv == Init => IInv
<1> SUFFICES ASSUME Init PROVE IInv
  OBVIOUS
<1> DEFINE b == newBucket(MaxRange)
<1>1. buckets = <<b>> /\ upd = idle
  BY DEF Init
<1>2. /\ b \in Bucket /\ b.range.start = 0 /\ b.range.end = MaxID /\ b.peers = <<>>
  BY ConstantsAssumption DEF newBucket, MaxRange, Bucket, DistRange, ID
<1>3. GoodBucket(b)
  BY <1>2, ConstantsAssumption DEF GoodBucket, GoodPeers
<1> HIDE DEF b
<1>4. buckets \in Seq(Bucket) /\ Len(buckets) = 1 /\ DOMAIN buckets = {1} /\ buckets[1] = b
  BY <1>1, <1>2
<1>5. TypeOK
  BY <1>1, <1>4, IdleType DEF TypeOK
<1>6. Partition
  BY <1>2, <1>4, ConstantsAssumption DEF Partition
<1>7. Ordered
  BY <1>4 DEF Ordered
<1>8. AllGood
  BY <1>3, <1>4 DEF AllGood
<1>9. SplitInv /\ RoomAfterSplit
  BY <1>1, IdleType DEF SplitInv, RoomAfterSplit
<1> QED
  BY <1>5, <1>6, <1>7, <1>8, <1>9 DEF IInv

(* Choosing the bucket of an Update preserves the invariant.               *)
LEMMA UpdateBeginInv ==
    ASSUME IInv, NEW c \in Known, UpdateBegin(c)
    PROVE  IInv'
<1> DEFINE i == bucketFor(c.id)
           pc == IF shouldSplit(i, c) THEN "split" ELSE "insert"
<1>1. /\ buckets' = buckets
      /\ upd' = [idle EXCEPT !.pc = pc, !.c = c, !.b = i, !.range = buckets[i].range]
  BY DEF UpdateBegin
<1>2. c \in Contact /\ c.id \in ID
  BY ConstantsAssumption DEF Contact
<1>3. i \in DOMAIN buckets
  BY <1>2, BucketForCovers DEF IInv
<1>4. /\ GoodBucket(buckets[i]) /\ buckets[i].range \in DistRange /\ i \in Nat
      /\ Len(buckets[i].peers) \in Nat
  BY <1>3, LenProperties DEF IInv, AllGood, GoodBucket, GoodPeers, Bucket, TypeOK
<1>5. pc = "split" => Len(buckets[i].peers) = BucketSize
  BY <1>4, ConstantsAssumption DEF shouldSplit, GoodBucket, GoodPeers
<1> HIDE DEF i
<1>6. pc \in {"split", "insert"}
  OBVIOUS
<1> HIDE DEF pc
<1>7. /\ upd'.pc = pc /\ upd'.b = i /\ upd'.range = buckets[i].range /\ upd'.i = 1
      /\ upd'.left = <<>> /\ upd'.right = <<>>
      /\ upd' \in [pc : {"idle", "split", "half", "insert"}, c : Contact,
                   b : Nat, range : DistRange, i : Nat,
                   left : Seq(Peer), right : Seq(Peer)]
  BY <1>1, <1>2, <1>4, <1>6, IdleType DEF idle
<1>8. TypeOK'
  BY <1>1, <1>3, <1>7 DEF IInv, TypeOK
<1>9. SplitInv'
  <2> SUFFICES ASSUME pc = "split" PROVE SplitInv'
    BY <1>7 DEF SplitInv
  <2>1. SplitPeers' = buckets[i].peers
    BY <1>1, <1>7 DEF SplitPeers
  <2>2. buckets[i].range.start <= buckets[i].range.start /\ buckets[i].range.end <= buckets[i].range.end
    BY <1>4 DEF DistRange, ID
  <2>3. \A j \in DOMAIN buckets[i].peers : Covers(buckets[i].range, Distance(buckets[i].peers[j].id))
    BY <1>4 DEF GoodBucket, GoodPeers
  <2>4. ToSet(<<>>) \cup ToSet(<<>>) = {buckets[i].peers[j] : j \in 1 .. 1 - 1}
    BY DEF ToSet
  <2>5. 1 \in 1 .. Len(buckets[i].peers) + 1 /\ Len(<<>>) + Len(<<>>) = 1 - 1
    BY <1>4
  <2> QED
    BY <1>1, <1>5, <1>7, <2>1, <2>2, <2>3, <2>4, <2>5 DEF SplitInv
<1>10. RoomAfterSplit'
  BY <1>6, <1>7 DEF RoomAfterSplit
<1>11. Partition' /\ Ordered' /\ AllGood'
  BY <1>1 DEF IInv, Partition, Ordered, AllGood, GoodBucket, GoodPeers
<1> QED
  BY <1>8, <1>9, <1>10, <1>11 DEF IInv

(* A step that replaces one bucket by a good one of the same range and     *)
(* leaves the register idle.                                               *)
LEMMA IdleReplace ==
    ASSUME IInv, NEW i \in DOMAIN buckets, NEW n, GoodBucket(n), n.range = buckets[i].range,
           buckets' = [buckets EXCEPT ![i] = n],
           upd' = idle \/ (upd' = upd /\ upd.pc = "idle")
    PROVE  IInv'
<1>1. /\ buckets' \in Seq(Bucket) /\ DOMAIN buckets' = DOMAIN buckets
      /\ Partition' /\ Ordered' /\ AllGood'
  BY ReplaceBucket DEF IInv
<1>2. 1 \in DOMAIN buckets
  <2>1. Len(buckets) \in Nat /\ DOMAIN buckets = 1 .. Len(buckets) /\ Len(buckets) > 0
    BY LenProperties DEF IInv, TypeOK, Partition
  <2> QED
    BY <2>1
<1>3. TypeOK'
  BY <1>1, <1>2, IdleType DEF IInv, TypeOK
<1>4. SplitInv' /\ RoomAfterSplit'
  BY IdleType DEF SplitInv, RoomAfterSplit
<1> QED
  BY <1>1, <1>3, <1>4 DEF IInv

(* The insertion at the end of Update preserves the invariant.             *)
LEMMA UpdateEndInv ==
    ASSUME IInv, UpdateEnd
    PROVE  IInv'
<1> DEFINE n == UpdatePeer(buckets[upd.b], upd.c, TRUE)
<1>1. upd' = idle /\ buckets' = [buckets EXCEPT ![upd.b] = n]
  BY DEF UpdateEnd
<1>2. upd.b \in DOMAIN buckets /\ upd.c \in Contact /\ GoodBucket(buckets[upd.b])
  BY DEF IInv, TypeOK, AllGood
<1>3. GoodBucket(n) /\ n.range = buckets[upd.b].range
  BY <1>2, UpdatePeerGood
<1> HIDE DEF n
<1> QED
  BY <1>1, <1>2, <1>3, IdleReplace

(* Every contact has a bucket.                                             *)
LEMMA KnownBucket ==
    ASSUME IInv, NEW c \in Known
    PROVE  /\ c \in Contact
           /\ bucketFor(c.id) \in DOMAIN buckets
           /\ GoodBucket(buckets[bucketFor(c.id)])
<1>1. c \in Contact /\ c.id \in ID
  BY ConstantsAssumption DEF Contact
<1>2. bucketFor(c.id) \in DOMAIN buckets
  BY <1>1, BucketForCovers DEF IInv
<1> QED
  BY <1>1, <1>2 DEF IInv, AllGood

(* Fresh preserves the invariant.                                          *)
LEMMA FreshInv ==
    ASSUME IInv, NEW c \in Known, Fresh(c)
    PROVE  IInv'
<1> DEFINE i == bucketFor(c.id)
           n == UpdatePeer(buckets[i], c, FALSE)
<1>1. upd.pc = "idle" /\ upd' = upd /\ buckets' = [buckets EXCEPT ![i] = n]
  BY DEF Fresh
<1>2. c \in Contact /\ i \in DOMAIN buckets /\ GoodBucket(buckets[i])
  BY KnownBucket
<1>3. GoodBucket(n) /\ n.range = buckets[i].range
  BY <1>2, UpdatePeerGood
<1> HIDE DEF n, i
<1> QED
  BY <1>1, <1>2, <1>3, IdleReplace

(* Fail preserves the invariant.                                           *)
LEMMA FailInv ==
    ASSUME IInv, NEW c \in Known, Fail(c)
    PROVE  IInv'
<1> DEFINE i == bucketFor(c.id)
           n == FailContact(buckets[i], c.id)
<1>1. upd.pc = "idle" /\ upd' = upd /\ buckets' = [buckets EXCEPT ![i] = n]
  BY DEF Fail
<1>2. c \in Contact /\ i \in DOMAIN buckets /\ GoodBucket(buckets[i])
  BY KnownBucket
<1>3. GoodBucket(n) /\ n.range = buckets[i].range
  BY <1>2, FailContactGood
<1> HIDE DEF n, i
<1> QED
  BY <1>1, <1>2, <1>3, IdleReplace

(* The passing of a bucket's refresh interval preserves the invariant.     *)
LEMMA GrowStaleInv ==
    ASSUME IInv, NEW i \in DOMAIN buckets, GrowStale(i)
    PROVE  IInv'
<1> DEFINE n == [buckets[i] EXCEPT !.stale = TRUE]
<1>1. upd' = upd /\ buckets' = [buckets EXCEPT ![i] = n]
  BY DEF GrowStale
<1>2. GoodBucket(buckets[i])
  BY DEF IInv, AllGood
<1>3. n \in Bucket /\ n.range = buckets[i].range /\ n.peers = buckets[i].peers
  BY <1>2 DEF GoodBucket, Bucket
<1>4. GoodBucket(n)
  BY <1>2, <1>3 DEF GoodBucket
<1> HIDE DEF n
<1>5. /\ buckets' \in Seq(Bucket) /\ DOMAIN buckets' = DOMAIN buckets
      /\ Partition' /\ Ordered' /\ AllGood'
  BY <1>1, <1>3, <1>4, ReplaceBucket DEF IInv
<1>6. \A j \in DOMAIN buckets : /\ buckets'[j].peers = buckets[j].peers
                                /\ buckets'[j].range = buckets[j].range
  BY <1>1, <1>3
<1>7. TypeOK'
  BY <1>1, <1>5 DEF IInv, TypeOK
<1>8. upd.b \in DOMAIN buckets
  BY DEF IInv, TypeOK
<1>9. SplitPeers' = SplitPeers /\ LeftHalf' = LeftHalf /\ RightHalf' = RightHalf
  BY <1>1, <1>6, <1>8 DEF SplitPeers, LeftHalf, RightHalf
<1>10. SplitInv'
  <2>1. buckets'[upd.b].range = buckets[upd.b].range /\ upd' = upd
    BY <1>1, <1>6, <1>8
  <2>2. SplitInv
    BY DEF IInv
  <2> QED
    BY <2>1, <2>2, <1>9, ZenonT(40) DEF SplitInv
<1>11. RoomAfterSplit'
  BY <1>1, <1>6, <1>8 DEF IInv, RoomAfterSplit
<1> QED
  BY <1>5, <1>7, <1>10, <1>11 DEF IInv

(* A step that changes nothing preserves the invariant.                    *)
LEMMA StutterInv ==
    ASSUME IInv, UNCHANGED vars
    PROVE  IInv'
<1> USE DEF vars
<1>1. TypeOK'
  BY DEF IInv, TypeOK
<1>2. Partition' /\ Ordered' /\ AllGood' /\ RoomAfterSplit'
  BY DEF IInv, Partition, Ordered, AllGood, GoodBucket, GoodPeers, RoomAfterSplit
<1>3. SplitPeers' = SplitPeers /\ LeftHalf' = LeftHalf /\ RightHalf' = RightHalf
  BY DEF SplitPeers, LeftHalf, RightHalf
<1>4. SplitInv'
  BY <1>3 DEF IInv, SplitInv
<1> QED
  BY <1>1, <1>2, <1>4 DEF IInv

(* Every step preserves the invariant.                                     *)
LEMMA NextInv ==
    ASSUME IInv, [Next]_vars
    PROVE  IInv'
<1>1. ASSUME NEW c \in Known, UpdateBegin(c) PROVE IInv'
  BY <1>1, UpdateBeginInv
<1>2. ASSUME NEW c \in Known, Fresh(c) PROVE IInv'
  BY <1>2, FreshInv
<1>3. ASSUME NEW c \in Known, Fail(c) PROVE IInv'
  BY <1>3, FailInv
<1>4. CASE SplitPeer
  BY <1>4, SplitPeerInv
<1>5. CASE SplitNarrow
  BY <1>5, SplitNarrowInv
<1>6. CASE SplitLink
  BY <1>6, SplitLinkInv
<1>7. CASE UpdateEnd
  BY <1>7, UpdateEndInv
<1>8. ASSUME NEW i \in DOMAIN buckets, GrowStale(i) PROVE IInv'
  BY <1>8, GrowStaleInv
<1>9. CASE UNCHANGED vars
  BY <1>9, StutterInv
<1> QED
  BY <1>1, <1>2, <1>3, <1>4, <1>5, <1>6, <1>7, <1>8, <1>9 DEF Next, UpdateStep

(* The invariant holds in every state the routing table reaches.           *)
THEOREM Invariance == Spec => []IInv
<1>1. Init => IInv
  BY InitInv
<1>2. IInv /\ [Next]_vars => IInv'
  BY NextInv
<1> QED
  BY <1>1, <1>2, PTL DEF Spec

(* The table and the register of a running Update always have their shape; *)
(* the bucket an Update works on exists.                                   *)
THEOREM TypeCorrect == Spec => []TypeOK
<1>1. IInv => TypeOK
  BY DEF IInv
<1> QED
  BY <1>1, Invariance, PTL

(* The buckets always cover every distance exactly once, in order, however *)
(* Update splits them: bucketFor never panics.                             *)
THEOREM BucketsPartition == Spec => []Partition
<1>1. IInv => Partition
  BY DEF IInv
<1> QED
  BY <1>1, Invariance, PTL

(* Every peer stays in the bucket that covers its distance, so Fresh and   *)
(* Fail find the peers that Update inserted.                               *)
THEOREM PeersStayInRange == Spec => []PeersInRange
<1>1. IInv => PeersInRange
  BY DEF IInv, AllGood, GoodBucket, GoodPeers, PeersInRange
<1> QED
  BY <1>1, Invariance, PTL

(* No bucket ever holds more than bucketSize peers.                        *)
THEOREM CapacityKept == Spec => []Capacity
<1>1. IInv => Capacity
  BY DEF IInv, AllGood, GoodBucket, GoodPeers, Capacity
<1> QED
  BY <1>1, Invariance, PTL

(* A split puts peers in both halves, so there is room for the contact in  *)
(* the half that Update goes on with.                                      *)
THEOREM SplitMakesRoom == Spec => []RoomAfterSplit
<1>1. IInv => RoomAfterSplit
  BY DEF IInv
<1> QED
  BY <1>1, Invariance, PTL

(* Two buckets that cover the same distance are the same bucket.           *)
LEMMA OneBucketCovers ==
    ASSUME IInv, NEW i \in DOMAIN buckets, NEW k \in DOMAIN buckets, NEW d \in ID,
           Covers(buckets[i].range, d), Covers(buckets[k].range, d)
    PROVE  i = k
<1>1. GoodBucket(buckets[i]) /\ GoodBucket(buckets[k])
  BY DEF IInv, AllGood
<1>2. /\ buckets[i].range.start \in Int /\ buckets[i].range.end \in Int
      /\ buckets[k].range.start \in Int /\ buckets[k].range.end \in Int
  BY <1>1 DEF GoodBucket, Bucket, DistRange, ID
<1>3. i \in Int /\ k \in Int /\ d \in Int
  BY LenProperties DEF IInv, TypeOK, ID
<1>4. ~ (i < k)
  BY <1>2, <1>3 DEF IInv, Ordered, Covers
<1>5. ~ (k < i)
  BY <1>2, <1>3 DEF IInv, Ordered, Covers
<1> QED
  BY <1>3, <1>4, <1>5

(* Peers in range, of ordered buckets, each without duplicates: no id      *)
(* twice.                                                                  *)
LEMMA NoDuplicatesFollows == IInv => NoDuplicates
<1> SUFFICES ASSUME IInv,
                    NEW i \in DOMAIN buckets, NEW k \in DOMAIN buckets,
                    NEW j \in DOMAIN buckets[i].peers, NEW l \in DOMAIN buckets[k].peers,
                    buckets[i].peers[j].id = buckets[k].peers[l].id
             PROVE  i = k /\ j = l
  BY DEF NoDuplicates
<1> DEFINE d == Distance(buckets[i].peers[j].id)
<1>1. GoodBucket(buckets[i]) /\ GoodBucket(buckets[k])
  BY DEF IInv, AllGood
<1>2. Covers(buckets[i].range, d) /\ Covers(buckets[k].range, d)
  BY <1>1 DEF GoodBucket, GoodPeers
<1>3. d \in ID
  <2>1. buckets[i].peers[j] \in Peer
    BY <1>1, ElementOfSeq, LenProperties DEF GoodBucket, GoodPeers
  <2>2. buckets[i].peers[j].id \in ID
    BY <2>1 DEF Peer
  <2> QED
    BY <2>2, XorAssumption, ConstantsAssumption DEF Distance
<1> HIDE DEF d
<1>4. i = k
  BY <1>2, <1>3, OneBucketCovers
<1> QED
  BY <1>1, <1>4 DEF GoodBucket, GoodPeers

(* No id is listed twice, not across buckets, after splits or under two    *)
(* addresses.                                                              *)
THEOREM NoIdTwice == Spec => []NoDuplicates
BY NoDuplicatesFollows, Invariance, PTL

-----------------------------------------------------------------------------
(* Who leaves the table.                                                   *)

(* A step that replaces bucket k loses only what the new bucket lacks.     *)
LEMMA ReplaceKeeps ==
    ASSUME IInv, NEW k \in DOMAIN buckets, NEW n, buckets' = [buckets EXCEPT ![k] = n],
           NEW i \in DOMAIN buckets, NEW p \in ToSet(buckets[i].peers), p.id \notin IDs'
    PROVE  i = k /\ ~ Listed(n, p.id)
<1>1. DOMAIN buckets' = DOMAIN buckets /\ buckets'[k] = n
      /\ \A j \in DOMAIN buckets : j # k => buckets'[j] = buckets[j]
  BY DEF IInv, TypeOK
<1>2. \A j \in DOMAIN buckets : \A q \in ToSet(buckets'[j].peers) : q.id \in IDs'
  BY <1>1 DEF IDs, Peers
<1>3. i = k
  BY <1>1, <1>2
<1>4. ~ Listed(n, p.id)
  BY <1>1, <1>2 DEF Listed, ToSet
<1> QED
  BY <1>3, <1>4

(* Who leaves the table in a step: a bad peer of a full bucket, for a new  *)
(* contact.                                                                *)
EvictStep ==
    \A i \in DOMAIN buckets : \A p \in ToSet(buckets[i].peers) :
        p.id \notin IDs' =>
            /\ IsBad(p)
            /\ Len(buckets[i].peers) = BucketSize
            /\ upd.c.id \in IDs' \ IDs

(* A step that leaves every list of peers as it is evicts nobody.          *)
LEMMA PeersUnchangedKeeps ==
    ASSUME buckets' = buckets
    PROVE  EvictStep
BY DEF EvictStep, IDs, Peers

(* Inserting the contact at the end of Update evicts at most one peer, bad *)
(* and from a full bucket, for a contact that was nowhere in the table.    *)
LEMMA UpdateEndEvicts ==
    ASSUME IInv, UpdateEnd
    PROVE  EvictStep
<1> DEFINE b == buckets[upd.b]
           n == UpdatePeer(b, upd.c, TRUE)
<1>1. buckets' = [buckets EXCEPT ![upd.b] = n]
  BY DEF UpdateEnd
<1>2. upd.b \in DOMAIN buckets /\ upd.c \in Contact /\ upd.c.id \in ID /\ GoodBucket(b)
  BY DEF IInv, TypeOK, AllGood, Contact
<1>3. /\ GoodBucket(n) /\ n.range = b.range
      /\ \A j \in DOMAIN b.peers :
            \/ Listed(n, b.peers[j].id)
            \/ /\ IsBad(b.peers[j]) /\ Len(b.peers) = BucketSize
               /\ Listed(n, upd.c.id) /\ ~ Listed(b, upd.c.id)
  BY <1>2, UpdatePeerGood
<1> HIDE DEF n
<1> SUFFICES ASSUME NEW i \in DOMAIN buckets, NEW p \in ToSet(buckets[i].peers), p.id \notin IDs'
             PROVE  /\ IsBad(p)
                    /\ Len(buckets[i].peers) = BucketSize
                    /\ upd.c.id \in IDs' \ IDs
  BY DEF EvictStep
<1>4. i = upd.b /\ ~ Listed(n, p.id)
  BY <1>1, <1>2, ReplaceKeeps
<1>5. PICK j \in DOMAIN b.peers : p = b.peers[j]
  BY <1>4 DEF ToSet
<1>6. IsBad(p) /\ Len(b.peers) = BucketSize /\ Listed(n, upd.c.id) /\ ~ Listed(b, upd.c.id)
  BY <1>3, <1>4, <1>5
<1>7. upd.c.id \in IDs'
  <2>1. buckets'[upd.b] = n /\ upd.b \in DOMAIN buckets'
    BY <1>1, <1>2 DEF IInv, TypeOK
  <2> QED
    BY <1>6, <2>1 DEF IDs, Peers, Listed, ToSet
<1>8. Covers(b.range, Distance(upd.c.id)) /\ Distance(upd.c.id) \in ID
  <2>1. Covers(b.range, Distance(upd.c.id))
    BY <1>3, <1>6 DEF GoodBucket, GoodPeers, Listed
  <2> QED
    BY <2>1, <1>2, XorAssumption, ConstantsAssumption DEF Distance
<1>9. ASSUME upd.c.id \in IDs PROVE FALSE
  <2>1. PICK k \in DOMAIN buckets : \E l \in DOMAIN buckets[k].peers :
            buckets[k].peers[l].id = upd.c.id
    BY <1>9 DEF IDs, Peers, ToSet
  <2>2. Covers(buckets[k].range, Distance(upd.c.id))
    BY <2>1 DEF IInv, AllGood, GoodBucket, GoodPeers
  <2>3. k = upd.b
    BY <1>2, <1>8, <2>2, OneBucketCovers
  <2> QED
    BY <1>6, <2>1, <2>3 DEF Listed
<1> QED
  BY <1>4, <1>6, <1>7, <1>9

(* Replacing the bucket of a contact by one that lists all its peers       *)
(* evicts nobody.                                                          *)
LEMMA KeepAllKeeps ==
    ASSUME IInv, NEW k \in DOMAIN buckets, NEW n, buckets' = [buckets EXCEPT ![k] = n],
           \A j \in DOMAIN buckets[k].peers : Listed(n, buckets[k].peers[j].id)
    PROVE  EvictStep
<1> SUFFICES ASSUME NEW i \in DOMAIN buckets, NEW p \in ToSet(buckets[i].peers), p.id \notin IDs'
             PROVE  FALSE
  BY DEF EvictStep
<1>1. i = k /\ ~ Listed(n, p.id)
  BY ReplaceKeeps
<1> QED
  BY <1>1 DEF ToSet

(* Linking the two halves loses no peer.                                   *)
LEMMA SplitLinkKeeps ==
    ASSUME IInv, SplitLink
    PROVE  EvictStep
<1> DEFINE l == LeftBucket
           r == RightBucket
           k == upd.b
<1>1. /\ upd.pc = "split" /\ upd.i > Len(SplitPeers) /\ ~ OneSided
      /\ buckets' = ReplaceBy(buckets, k, l, r)
  BY DEF SplitLink
<1>2. /\ GoodBucket(l) /\ GoodBucket(r)
      /\ ToSet(l.peers) \cup ToSet(r.peers) = ToSet(buckets[k].peers)
  BY <1>1, Halves DEF SplitPeers
<1>3. /\ buckets \in Seq(Bucket) /\ Len(buckets) \in Nat /\ DOMAIN buckets = 1 .. Len(buckets)
      /\ k \in 1 .. Len(buckets) /\ l \in Bucket /\ r \in Bucket
  BY <1>2, LenProperties DEF IInv, TypeOK, GoodBucket
<1> HIDE DEF l, r, k
<1> DEFINE u == ReplaceBy(buckets, k, l, r)
<1>4. /\ u \in Seq(Bucket)
      /\ Len(u) = Len(buckets) + 1
      /\ \A j \in 1 .. k - 1 : u[j] = buckets[j]
      /\ u[k] = l /\ u[k + 1] = r
      /\ \A j \in k + 2 .. Len(buckets) + 1 : u[j] = buckets[j - 1]
  <2>1. buckets \in Seq(Bucket) /\ k \in 1 .. Len(buckets) /\ l \in Bucket /\ r \in Bucket
    BY <1>3
  <2>2. u \in Seq(Bucket) /\ Len(u) = Len(buckets) + 1
    BY <2>1, ReplaceByTwo
  <2>3. u[k] = l /\ u[k + 1] = r
    BY <2>1, ReplaceByTwo
  <2>4. \A j \in 1 .. k - 1 : ReplaceBy(buckets, k, l, r)[j] = buckets[j]
    BY ONLY <2>1, ReplaceByLow
  <2>5. \A j \in k + 2 .. Len(buckets) + 1 : u[j] = buckets[j - 1]
    BY <2>1, ReplaceByTwo
  <2> QED
    BY <2>2, <2>3, <2>4, <2>5
<1>5. DOMAIN u = 1 .. Len(buckets) + 1
  BY <1>4, LenProperties
<1> HIDE DEF u
<1>6. ASSUME NEW i \in DOMAIN buckets, NEW p \in ToSet(buckets[i].peers)
      PROVE  \E j \in DOMAIN u : p \in ToSet(u[j].peers)
  <2>1. CASE i < k
    <3>1. i \in 1 .. k - 1 /\ i \in DOMAIN u
      BY <2>1, <1>3, <1>5
    <3>2. u[i] = buckets[i]
      BY <3>1, <1>4
    <3> QED
      BY <3>1, <3>2
  <2>2. CASE i = k
    <3>1. k \in DOMAIN u /\ k + 1 \in DOMAIN u
      BY <1>3, <1>5
    <3>2. p \in ToSet(l.peers) \/ p \in ToSet(r.peers)
      BY <2>2, <1>2
    <3> QED
      BY <1>4, <3>1, <3>2
  <2>3. CASE i > k
    <3>1. i + 1 \in k + 2 .. Len(buckets) + 1 /\ (i + 1) - 1 = i /\ i + 1 \in DOMAIN u
      BY <2>3, <1>3, <1>5
    <3>2. u[i + 1] = buckets[i]
      BY <3>1, <1>4
    <3> QED
      BY <3>1, <3>2
  <2> QED
    BY <2>1, <2>2, <2>3, <1>3
<1>7. buckets' = u
  BY <1>1 DEF u
<1> QED
  BY <1>6, <1>7 DEF EvictStep, IDs, Peers

(* What GoodPeersStay says of one step.                                    *)
StayStep ==
    /\ \A p \in Peers : ~ IsBad(p) => p.id \in IDs'
    /\ Capacity'

(* A peer that is not bad stays in the table, and no bucket grows past     *)
(* bucketSize: UpdatePeer drops bad peers of full buckets only, each for a *)
(* new contact, and no split or Fresh loses a peer.                        *)
THEOREM GoodPeersKept == Spec => GoodPeersStay
<1>1. ASSUME IInv, Next PROVE EvictStep
  <2>1. ASSUME NEW c \in Known, UpdateBegin(c) PROVE EvictStep
    BY <2>1, PeersUnchangedKeeps DEF UpdateBegin
  <2>2. ASSUME NEW c \in Known, Fresh(c) PROVE EvictStep
    <3> DEFINE k == bucketFor(c.id)
               n == UpdatePeer(buckets[k], c, FALSE)
    <3>1. buckets' = [buckets EXCEPT ![k] = n]
      BY <2>2 DEF Fresh
    <3>2. c \in Contact /\ k \in DOMAIN buckets /\ GoodBucket(buckets[k])
      BY <1>1, KnownBucket
    <3>3. \A j \in DOMAIN buckets[k].peers : Listed(n, buckets[k].peers[j].id)
      BY <3>2, UpdatePeerGood
    <3> HIDE DEF n, k
    <3> QED
      BY <1>1, <3>1, <3>2, <3>3, KeepAllKeeps
  <2>3. ASSUME NEW c \in Known, Fail(c) PROVE EvictStep
    <3> DEFINE k == bucketFor(c.id)
               n == FailContact(buckets[k], c.id)
    <3>1. buckets' = [buckets EXCEPT ![k] = n]
      BY <2>3 DEF Fail
    <3>2. c \in Contact /\ k \in DOMAIN buckets /\ GoodBucket(buckets[k])
      BY <1>1, KnownBucket
    <3>3. \A j \in DOMAIN buckets[k].peers : Listed(n, buckets[k].peers[j].id)
      BY <3>2, FailContactGood
    <3> HIDE DEF n, k
    <3> QED
      BY <1>1, <3>1, <3>2, <3>3, KeepAllKeeps
  <2>4. CASE SplitPeer \/ SplitNarrow
    BY <2>4, PeersUnchangedKeeps DEF SplitPeer, SplitNarrow
  <2>5. CASE SplitLink
    BY <1>1, <2>5, SplitLinkKeeps
  <2>6. CASE UpdateEnd
    BY <1>1, <2>6, UpdateEndEvicts
  <2>7. ASSUME NEW k \in DOMAIN buckets, GrowStale(k) PROVE EvictStep
    <3> DEFINE n == [buckets[k] EXCEPT !.stale = TRUE]
    <3>1. buckets' = [buckets EXCEPT ![k] = n]
      BY <2>7 DEF GrowStale
    <3>2. n.peers = buckets[k].peers
      BY <1>1 DEF IInv, AllGood, GoodBucket, Bucket
    <3> HIDE DEF n
    <3>3. \A j \in DOMAIN buckets[k].peers : Listed(n, buckets[k].peers[j].id)
      BY <3>2 DEF Listed
    <3> QED
      BY <1>1, <3>1, <3>3, KeepAllKeeps
  <2> QED
    BY <1>1, <2>1, <2>2, <2>3, <2>4, <2>5, <2>6, <2>7 DEF Next, UpdateStep
<1>2. ASSUME IInv, IInv', Next PROVE StayStep
  <2>1. \A p \in Peers : ~ IsBad(p) => p.id \in IDs'
    BY <1>1, <1>2 DEF EvictStep, Peers
  <2>2. Capacity'
    BY <1>2 DEF IInv, AllGood, GoodBucket, GoodPeers, Capacity
  <2> QED
    BY <2>1, <2>2 DEF StayStep
<1>3. IInv /\ IInv' /\ [Next]_vars => [StayStep]_vars
  BY <1>2
<1>4. Spec => [][StayStep]_vars
  BY <1>3, Invariance, PTL DEF Spec
<1>5. GoodPeersStay <=> [][StayStep]_vars
  BY DEF GoodPeersStay, StayStep
<1> QED
  BY <1>4, <1>5

-----------------------------------------------------------------------------
(* Who enters the table.                                                   *)

(* An Update that went on without a split had no reason for one, and still *)
(* has none: it holds the lock.                                            *)
Decided == upd.pc = "insert" => ~ shouldSplit(upd.b, upd.c)

(* What NeighbourhoodKept says of one step.                                *)
InsertStep ==
    (upd.pc # "idle" /\ upd'.pc = "idle" /\ coversPeer(buckets[upd.b], upd.c)
       /\ \/ Cardinality(Peers) < BucketSize
          \/ \E p \in getClosest(SelfID, BucketSize) : Distance(upd.c.id) < Distance(p.id))
     => upd.c.id \in IDs'

(* A contact that the bucket covers is listed after UpdatePeer if it was   *)
(* known or there is room.                                                 *)
LEMMA UpdatePeerLists ==
    ASSUME NEW b, GoodBucket(b), NEW c \in Contact, coversPeer(b, c),
           Listed(b, c.id) \/ hasRoom(b)
    PROVE  Listed(UpdatePeer(b, c, TRUE), c.id)
<1> DEFINE n == UpdatePeer(b, c, TRUE)
<1>1. b \in Bucket /\ b.peers \in Seq(Peer)
  BY DEF GoodBucket, GoodPeers
<1>2. CASE Listed(b, c.id)
  <2>1. PICK j \in DOMAIN b.peers : b.peers[j].id = c.id
    BY <1>2 DEF Listed
  <2>2. Listed(n, b.peers[j].id) \/ Listed(n, c.id)
    BY UpdatePeerGood
  <2> QED
    BY <2>1, <2>2
<1>3. CASE ~ Listed(b, c.id) /\ hasRoom(b)
  <2>1. peerIndex(b, c) = 0
    BY <1>3, FindProperties DEF peerIndex, Listed
  <2>2. n = [b EXCEPT !.peers = Append(b.peers, newPeer(c)), !.stale = FALSE]
    BY <1>3, <2>1, Zenon DEF UpdatePeer
  <2>3. newPeer(c) \in Peer /\ newPeer(c).id = c.id
    BY ConstantsAssumption DEF newPeer, Peer, Contact
  <2>4. n.peers = Append(b.peers, newPeer(c))
    BY <1>1, <2>2 DEF Bucket
  <2>5. /\ Append(b.peers, newPeer(c)) \in Seq(Peer)
        /\ Len(Append(b.peers, newPeer(c))) = Len(b.peers) + 1
        /\ Append(b.peers, newPeer(c))[Len(b.peers) + 1] = newPeer(c)
    BY <1>1, <2>3, AppendProperties
  <2> HIDE DEF n
  <2>6. Len(b.peers) + 1 \in DOMAIN n.peers
    <3>1. n.peers \in Seq(Peer) /\ Len(n.peers) = Len(b.peers) + 1 /\ Len(b.peers) \in Nat
      BY <1>1, <2>4, <2>5, LenProperties
    <3>2. DOMAIN n.peers = 1 .. Len(n.peers)
      BY <3>1, LenProperties
    <3> QED
      BY <3>1, <3>2
  <2>7. Listed(n, c.id)
    BY <2>3, <2>4, <2>5, <2>6 DEF Listed
  <2> QED
    BY <2>7 DEF n
<1> QED
  BY <1>2, <1>3

(* A full bucket alone has as many peers as the table is asked to have.    *)
LEMMA FullBucketCounts ==
    ASSUME IInv, NEW i \in DOMAIN buckets, Len(buckets[i].peers) >= BucketSize
    PROVE  ~ (Cardinality(Peers) < BucketSize)
<1> DEFINE Of(j) == ToSet(buckets[j].peers)
<1>1. \A j \in DOMAIN buckets : buckets[j].peers \in Seq(Peer)
  BY DEF IInv, AllGood, GoodBucket, GoodPeers
<1>2. ASSUME NEW j \in DOMAIN buckets
      PROVE  /\ Len(buckets[j].peers) \in Nat
             /\ buckets[j].peers \in Surjection(1 .. Len(buckets[j].peers), Of(j))
             /\ IsFiniteSet(Of(j))
  <2>1. PICK s \in Seq(Peer) : s = buckets[j].peers
    BY <1>1
  <2>2. PICK l \in Nat : l = Len(s) /\ DOMAIN s = 1 .. l /\ s \in [1 .. l -> Peer]
    BY LenProperties
  <2>3. s \in Surjection(1 .. l, ToSet(s))
    BY <2>2 DEF Surjection, ToSet
  <2>4. IsFiniteSet(ToSet(s))
    BY <2>3, FS_Interval, FS_Surjection
  <2> QED
    BY <2>1, <2>2, <2>3, <2>4
<1>3. IsFiniteSet(Peers)
  <2> DEFINE all == {Of(j) : j \in DOMAIN buckets}
             f == [j \in DOMAIN buckets |-> Of(j)]
  <2>1. IsFiniteSet(DOMAIN buckets)
    <3>1. Len(buckets) \in Nat /\ DOMAIN buckets = 1 .. Len(buckets)
      BY LenProperties DEF IInv, TypeOK
    <3> QED
      BY <3>1, FS_Interval
  <2>2. f \in Surjection(DOMAIN buckets, all)
    BY DEF Surjection
  <2>3. IsFiniteSet(all)
    BY <2>1, <2>2, FS_Surjection
  <2>4. \A T \in all : IsFiniteSet(T)
    BY <1>2
  <2> QED
    BY <2>3, <2>4, FS_UNION DEF Peers
<1>4. Of(i) \in SUBSET Peers
  BY DEF Peers
<1>5. Cardinality(Of(i)) = Len(buckets[i].peers)
  <2>1. PICK s \in Seq(Peer) : s = buckets[i].peers
    BY <1>1
  <2>2. PICK l \in Nat : l = Len(s) /\ DOMAIN s = 1 .. l
    BY LenProperties
  <2>3. \A j, k \in DOMAIN s : s[j].id = s[k].id => j = k
    BY <2>1 DEF IInv, AllGood, GoodBucket, GoodPeers
  <2>4. s \in Surjection(1 .. l, ToSet(s))
    BY <1>2, <2>1, <2>2
  <2>5. s \in Injection(1 .. l, ToSet(s))
    BY <2>2, <2>3, <2>4 DEF Surjection, Injection, IsInjective
  <2>6. IsFiniteSet(1 .. l) /\ Cardinality(1 .. l) = l
    BY FS_Interval
  <2> QED
    BY <2>1, <2>2, <2>4, <2>5, <2>6, FS_Surjection
<1> HIDE DEF Of
<1>6. Cardinality(Of(i)) <= Cardinality(Peers) /\ Cardinality(Peers) \in Nat
  BY <1>3, <1>4, FS_Subset, FS_CardinalityType
<1> QED
  BY <1>2, <1>5, <1>6, ConstantsAssumption

(* The end of an Update.                                                   *)
LEMMA UpdateEndInserts ==
    ASSUME IInv, Decided, UpdateEnd
    PROVE  InsertStep
<1> DEFINE b == buckets[upd.b]
           n == UpdatePeer(b, upd.c, TRUE)
           Nearer == \E p \in getClosest(SelfID, BucketSize) : Distance(upd.c.id) < Distance(p.id)
<1> SUFFICES ASSUME coversPeer(b, upd.c), Cardinality(Peers) < BucketSize \/ Nearer
             PROVE  upd.c.id \in IDs'
  BY DEF InsertStep
<1>1. buckets' = [buckets EXCEPT ![upd.b] = n] /\ upd.pc \in {"insert", "half"}
  BY DEF UpdateEnd
<1>2. upd.b \in DOMAIN buckets /\ upd.c \in Contact /\ GoodBucket(b)
  BY DEF IInv, TypeOK, AllGood
<1>3. Listed(b, upd.c.id) \/ hasRoom(b)
  <2>1. CASE upd.pc = "half"
    BY <2>1 DEF IInv, RoomAfterSplit, hasRoom
  <2>2. CASE upd.pc = "insert"
    <3>1. \/ Has(b, upd.c)
          \/ ~ (Len(b.peers) >= BucketSize)
          \/ ~ Nearer
      BY <2>2 DEF Decided, shouldSplit
    <3>2. Has(b, upd.c) => Listed(b, upd.c.id)
      BY DEF Has, Listed
    <3>3. Len(b.peers) \in Nat
      BY <1>2, LenProperties DEF GoodBucket, GoodPeers
    <3>4. ~ (Len(b.peers) >= BucketSize) => hasRoom(b)
      BY <3>3, ConstantsAssumption DEF hasRoom
    <3>5. Len(b.peers) >= BucketSize => ~ (Cardinality(Peers) < BucketSize)
      BY <1>2, FullBucketCounts
    <3> HIDE DEF b, Nearer
    <3> QED
      BY <3>1, <3>2, <3>4, <3>5
  <2> QED
    BY <1>1, <2>1, <2>2
<1>4. Listed(n, upd.c.id)
  BY <1>2, <1>3, UpdatePeerLists
<1> HIDE DEF n
<1>5. buckets'[upd.b] = n /\ upd.b \in DOMAIN buckets'
  BY <1>1, <1>2 DEF IInv, TypeOK
<1> QED
  BY <1>4, <1>5 DEF IDs, Peers, Listed, ToSet

(* Whether to split depends on the ranges and the lists of peers only.     *)
LEMMA SplitDependsOnPeers ==
    ASSUME DOMAIN buckets' = DOMAIN buckets, upd' = upd, upd.b \in DOMAIN buckets,
           \A i \in DOMAIN buckets : /\ buckets'[i].peers = buckets[i].peers
                                    /\ buckets'[i].range = buckets[i].range
    PROVE  shouldSplit(upd.b, upd.c)' => shouldSplit(upd.b, upd.c)
<1>1. Peers' = Peers
  BY DEF Peers
<1>2. getClosest(SelfID, BucketSize)' = getClosest(SelfID, BucketSize)
  BY <1>1 DEF getClosest
<1>3. Has(buckets[upd.b], upd.c)' <=> Has(buckets[upd.b], upd.c)
  BY DEF Has
<1> QED
  BY <1>2, <1>3 DEF shouldSplit

(* No step of a running Update, and no bucket that grows old, undoes the   *)
(* decision not to split.                                                  *)
LEMMA NextDecided ==
    ASSUME IInv, Decided, [Next]_vars
    PROVE  Decided'
<1> SUFFICES ASSUME upd'.pc = "insert", shouldSplit(upd.b, upd.c)'
             PROVE  FALSE
  BY DEF Decided
<1>1. upd \in [pc : {"idle", "split", "half", "insert"}, c : Contact,
                b : Nat, range : DistRange, i : Nat,
                left : Seq(Peer), right : Seq(Peer)]
      /\ upd.b \in DOMAIN buckets
  BY DEF IInv, TypeOK
<1>2. ASSUME NEW c \in Known, UpdateBegin(c) PROVE FALSE
  <2> DEFINE i == bucketFor(c.id)
  <2>1. upd' = [idle EXCEPT !.pc = IF shouldSplit(i, c) THEN "split" ELSE "insert",
                            !.c = c, !.b = i, !.range = buckets[i].range]
        /\ buckets' = buckets
    BY <1>2 DEF UpdateBegin
  <2> HIDE DEF i
  <2>2. /\ upd'.pc = (IF shouldSplit(i, c) THEN "split" ELSE "insert")
        /\ upd'.c = c /\ upd'.b = i
    BY <2>1 DEF idle
  <2>3. ~ shouldSplit(i, c)
    BY <2>2
  <2>4. shouldSplit(upd.b, upd.c)' => shouldSplit(i, c)
    BY <2>1, <2>2 DEF shouldSplit, Has, getClosest, Peers
  <2> QED
    BY <2>3, <2>4
<1>3. ASSUME NEW c \in Known, Fresh(c) \/ Fail(c) PROVE FALSE
  BY <1>3 DEF Fresh, Fail
<1>4. CASE SplitPeer \/ SplitNarrow
  <2>1. upd'.pc = upd.pc /\ upd.pc = "split"
    BY <1>1, <1>4 DEF SplitPeer, SplitNarrow
  <2> QED
    BY <2>1
<1>5. CASE SplitLink
  BY <1>5 DEF SplitLink, idle
<1>6. CASE UpdateEnd
  BY <1>6 DEF UpdateEnd, idle
<1>7. ASSUME NEW k \in DOMAIN buckets, GrowStale(k) PROVE FALSE
  <2>1. buckets' = [buckets EXCEPT ![k] = [buckets[k] EXCEPT !.stale = TRUE]] /\ upd' = upd
    BY <1>7 DEF GrowStale
  <2>2. buckets[k] \in Bucket
    BY DEF IInv, AllGood, GoodBucket
  <2>3. /\ [buckets[k] EXCEPT !.stale = TRUE].peers = buckets[k].peers
        /\ [buckets[k] EXCEPT !.stale = TRUE].range = buckets[k].range
    BY <2>2 DEF Bucket
  <2>4. /\ DOMAIN buckets' = DOMAIN buckets
        /\ \A i \in DOMAIN buckets : /\ buckets'[i].peers = buckets[i].peers
                                     /\ buckets'[i].range = buckets[i].range
    BY <2>1, <2>3 DEF IInv, TypeOK
  <2>5. shouldSplit(upd.b, upd.c)' => shouldSplit(upd.b, upd.c)
    BY <1>1, <2>1, <2>4, SplitDependsOnPeers
  <2> QED
    BY <2>1, <2>5 DEF Decided
<1>8. CASE UNCHANGED vars
  <2>1. buckets' = buckets /\ upd' = upd
    BY <1>8 DEF vars
  <2>2. shouldSplit(upd.b, upd.c)' => shouldSplit(upd.b, upd.c)
    BY <1>1, <2>1, SplitDependsOnPeers
  <2> QED
    BY <2>1, <2>2 DEF Decided
<1> QED
  BY <1>2, <1>3, <1>4, <1>5, <1>6, <1>7, <1>8 DEF Next, UpdateStep

(* When Update returns, a contact closer to the node than its kth closest  *)
(* peer is listed, as is any contact while the table has fewer than        *)
(* bucketSize peers, provided Update went on with a bucket that covers it. *)
THEOREM NeighboursEnter == Spec => NeighbourhoodKept
<1>1. Init => Decided
  BY DEF Init, Decided, idle
<1>2. Spec => []Decided
  BY <1>1, NextDecided, Invariance, PTL DEF Spec
<1>3. ASSUME IInv, Decided, Next PROVE InsertStep
  <2>1. CASE UpdateEnd
    BY <1>3, <2>1, UpdateEndInserts
  <2>2. ASSUME NEW c \in Known, UpdateBegin(c) \/ Fresh(c) \/ Fail(c) PROVE InsertStep
    BY <2>2 DEF UpdateBegin, Fresh, Fail, InsertStep
  <2>3. CASE SplitPeer \/ SplitNarrow \/ SplitLink
    <3>1. upd'.pc # "idle"
      BY <1>3, <2>3 DEF SplitPeer, SplitNarrow, SplitLink, idle, IInv, TypeOK
    <3> QED
      BY <3>1 DEF InsertStep
  <2>4. ASSUME NEW k \in DOMAIN buckets, GrowStale(k) PROVE InsertStep
    BY <2>4 DEF GrowStale, InsertStep
  <2> QED
    BY <1>3, <2>1, <2>2, <2>3, <2>4 DEF Next, UpdateStep
<1>4. IInv /\ Decided /\ [Next]_vars => [InsertStep]_vars
  BY <1>3
<1>5. Spec => [][InsertStep]_vars
  BY <1>2, <1>4, Invariance, PTL DEF Spec
<1>6. NeighbourhoodKept <=> [][InsertStep]_vars
  BY DEF NeighbourhoodKept, InsertStep
<1> QED
  BY <1>5, <1>6, PTL
=============================================================================
