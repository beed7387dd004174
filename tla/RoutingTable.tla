---------------------------- MODULE RoutingTable ----------------------------
(***************************************************************************)
(* The Kademlia routing table of one DHT node (dht/routing_table.go): a    *)
(* list of buckets that partition the distances from the node's own id,    *)
(* each holding up to bucketSize peers.                                    *)
(*                                                                         *)
(* Update holds the table's write lock from its first line to its last.    *)
(* It is modelled as the steps of the goroutine that holds it (register    *)
(* upd): choose the bucket, distribute its peers over the two halves,      *)
(* narrow the range while one half stays empty (the recursion of           *)
(* bucket.Split), link the halves, insert.  Fresh and Fail take the read   *)
(* lock and cannot run in between.                                         *)
(*                                                                         *)
(* Data abstractions: an id is a number below 2^bits; lastUpdate is        *)
(* whether the bucket is stale (older than the refresh interval);          *)
(* NumFailures saturates at maxPeerFails, the only value it is compared    *)
(* with; LastActivity is read by nothing.                                  *)
(***************************************************************************)
EXTENDS Integers, Sequences, FiniteSets, SequencesExt

CONSTANTS
    MaxID,          \* bits.MaxP(): the largest id, 2^NumBits - 1
    SelfID,         \* rt.id
    BucketSize,     \* bucketSize: peers per bucket (8 in dht/config.go)
    MaxPeerFails,   \* maxPeerFails: failures in a row that make a peer bad
    Addr,           \* network addresses (IP and port)
    Known,          \* the contacts whose packets reach the node, and seed nodes
    Xor(_, _)       \* bits.Bitmap.Xor

ID == 0 .. MaxID
Contact == [id : ID, addr : Addr]

ASSUME ConstantsAssumption ==
    /\ MaxID \in Nat \ {0}
    /\ SelfID \in ID
    /\ BucketSize \in Nat /\ BucketSize > 1
    /\ MaxPeerFails \in Nat \ {0}
    /\ Addr # {}
    /\ Known \subseteq Contact
    /\ \A c \in Known : c.id # SelfID

(* What the routing table needs of the xor metric: it is closed on ids,    *)
(* and each id has its own distance from the node, 0 being the node's own. *)
ASSUME XorAssumption ==
    /\ \A x, y \in ID : Xor(x, y) \in ID
    /\ \A x, y \in ID : Xor(SelfID, x) = Xor(SelfID, y) => x = y
    /\ Xor(SelfID, SelfID) = 0

VARIABLES
    buckets,        \* rt.buckets
    upd             \* the call of Update that holds the write lock

vars == <<buckets, upd>>

-----------------------------------------------------------------------------
Peer      == [id : ID, addr : Addr, fails : 0 .. MaxPeerFails]
DistRange == [start : ID, end : ID]
Bucket    == [range : DistRange, peers : Seq(Peer), stale : BOOLEAN]

Distance(id) == Xor(SelfID, id)

Covers(r, d) == r.start <= d /\ d <= r.end

(* A slip of intervalStart: the remainder forgotten.                       *)
IntervalStartNoRem(r, n, num) ==
    r.start + ((r.end - r.start) \div num) * (n - 1)

(* Range.intervalStart: the first value of the nth of num intervals.       *)
IntervalStart(r, n, num) ==
    r.start + ((r.end - r.start) \div num) * (n - 1)
            + ((((r.end - r.start) % num) * (n - 1)) % num)

IntervalP(r, n, num) ==
    [start |-> IntervalStart(r, n, num),
     end   |-> IF n < num THEN IntervalStart(r, n + 1, num) - 1 ELSE r.end]

MaxRange == [start |-> 0, end |-> MaxID]

newBucket(r) == [range |-> r, peers |-> <<>>, stale |-> TRUE]

-----------------------------------------------------------------------------
(* One bucket.                                                             *)

IsBad(p) == p.fails >= MaxPeerFails
Touch(p) == [p EXCEPT !.fails = 0]
FailPeer(p) ==
    [p EXCEPT !.fails = IF @ < MaxPeerFails THEN @ + 1 ELSE @]

find(id, peers) ==
    IF \E i \in DOMAIN peers : peers[i].id = id
    THEN CHOOSE i \in DOMAIN peers : peers[i].id = id
    ELSE 0

Has(b, c) == \E i \in DOMAIN b.peers : b.peers[i].id = c.id /\ b.peers[i].addr = c.addr

moveToBack(peers, i) == Append(RemoveAt(peers, i), Touch(peers[i]))

(* A slip of UpdatePeer: the oldest peer makes room, bad or not.           *)
FirstBadOldest(peers) == IF peers = <<>> THEN 0 ELSE 1

FirstBad(peers) ==
    IF \E i \in DOMAIN peers : IsBad(peers[i])
    THEN CHOOSE i \in DOMAIN peers :
            /\ IsBad(peers[i])
            /\ \A j \in 1 .. i - 1 : ~ IsBad(peers[j])
    ELSE 0

newPeer(c) == [id |-> c.id, addr |-> c.addr, fails |-> 0]

(* Slips of UpdatePeer: the range is not checked; a peer is known only     *)
(* under the same address.                                                 *)
coversAnything(b, c)     == TRUE
peerIndexByAddress(b, c) == IF Has(b, c) THEN find(c.id, b.peers) ELSE 0

coversPeer(b, c) == Covers(b.range, Distance(c.id))
peerIndex(b, c)  == find(c.id, b.peers)
hasRoom(b)       == Len(b.peers) < BucketSize

(* A known peer is touched and moved to the back, under the address it     *)
(* already has.  A new one is appended if there is room; a full bucket     *)
(* makes room by dropping its first bad peer.                              *)
UpdatePeer(b, c, insertIfNew) ==
    LET i    == peerIndex(b, c)
        bad  == FirstBad(b.peers)
        isNew == coversPeer(b, c) /\ i = 0 /\ insertIfNew
        Put(peers) == [b EXCEPT !.peers = Append(peers, newPeer(c)), !.stale = FALSE]
    IN  CASE coversPeer(b, c) /\ i # 0 ->
                [b EXCEPT !.peers = moveToBack(b.peers, i), !.stale = FALSE]
          [] isNew /\ hasRoom(b) -> Put(b.peers)
          [] isNew /\ ~ hasRoom(b) /\ bad # 0 -> Put(RemoveAt(b.peers, bad))
          [] OTHER -> b

FailContact(b, id) ==
    IF find(id, b.peers) = 0 THEN b
    ELSE [b EXCEPT !.peers[find(id, b.peers)] = FailPeer(@)]

-----------------------------------------------------------------------------
(* The table.                                                              *)

(* bucketFor panics on the node's own id, which no contact in Known has.   *)
bucketFor(id) ==
    CHOOSE i \in DOMAIN buckets : Covers(buckets[i].range, Distance(id))

Peers == UNION {ToSet(buckets[i].peers) : i \in DOMAIN buckets}
IDs   == {p.id : p \in Peers}

(* getClosest(target, limit): the limit contacts closest to target.        *)
getClosest(target, limit) ==
    {p \in Peers :
        Cardinality({q \in Peers : Xor(target, q.id) < Xor(target, p.id)}) < limit}

(* A slip of shouldSplit: only the bucket of the node's own id is split.   *)
shouldSplitOwnOnly(i, c) ==
    /\ ~ Has(buckets[i], c)
    /\ Len(buckets[i].peers) >= BucketSize
    /\ buckets[i].range.start = 0

(* Split a full bucket when it covers the node's own id, or when the new   *)
(* contact is closer than the kth closest one.                             *)
shouldSplit(i, c) ==
    /\ ~ Has(buckets[i], c)
    /\ Len(buckets[i].peers) >= BucketSize
    /\ \/ buckets[i].range.start = 0
       \/ \E p \in getClosest(SelfID, BucketSize) : Distance(c.id) < Distance(p.id)

(* GetIDsForRefresh: the ids bits.Rand().Prefix(n, false) can be, the nth  *)
(* bucket counted from 0.                                                  *)
RefreshIDs(i) == {id \in ID : id <= MaxID \div (2 ^ (i - 1))}

GetIDsForRefresh ==
    {t \in [{i \in DOMAIN buckets : buckets[i].stale} -> ID] :
        \A i \in DOMAIN t : t[i] \in RefreshIDs(i)}

-----------------------------------------------------------------------------
NoContact == [id |-> SelfID, addr |-> CHOOSE a \in Addr : TRUE]

idle == [pc |-> "idle", c |-> NoContact, b |-> 1, range |-> MaxRange,
         i |-> 1, left |-> <<>>, right |-> <<>>]

Init ==
    /\ buckets = <<newBucket(MaxRange)>>
    /\ upd = idle

(* Update: take the write lock, find the bucket, decide on a split.        *)
UpdateBegin(c) ==
    /\ upd.pc = "idle"
    /\ LET i == bucketFor(c.id)
       IN  upd' = [idle EXCEPT !.pc = IF shouldSplit(i, c) THEN "split" ELSE "insert",
                               !.c = c, !.b = i, !.range = buckets[i].range]
    /\ UNCHANGED buckets

SplitPeers == buckets[upd.b].peers
LeftHalf   == IntervalP(upd.range, 1, 2)
RightHalf  == IntervalP(upd.range, 2, 2)

(* Split: the next peer goes to the half that covers it.                   *)
SplitPeer ==
    /\ upd.pc = "split"
    /\ upd.i <= Len(SplitPeers)
    /\ LET p == SplitPeers[upd.i]
       IN  upd' = IF Covers(LeftHalf, Distance(p.id))
                  THEN [upd EXCEPT !.i = @ + 1, !.left  = Append(@, p)]
                  ELSE [upd EXCEPT !.i = @ + 1, !.right = Append(@, p)]
    /\ UNCHANGED buckets

(* Split: one half took every peer.                                        *)
OneSided == Len(SplitPeers) > 1 /\ (upd.left = <<>> \/ upd.right = <<>>)

(* Split: that half is split instead.                                      *)
SplitNarrow ==
    /\ upd.pc = "split"
    /\ upd.i > Len(SplitPeers)
    /\ OneSided
    /\ upd' = [upd EXCEPT !.range = IF upd.left = <<>> THEN RightHalf ELSE LeftHalf,
                          !.i = 1, !.left = <<>>, !.right = <<>>]
    /\ UNCHANGED buckets

(* A slip of Split: the start is not put back after the recursion.         *)
LeftBucketNarrow == [buckets[upd.b] EXCEPT !.range = LeftHalf, !.peers = upd.left]

(* Split: the halves, which also take what narrowing gave up               *)
(* (left.Range.Start = b.Range.Start, right.Range.End = b.Range.End).      *)
LeftBucket  == [buckets[upd.b] EXCEPT !.range.end   = LeftHalf.end,    !.peers = upd.left]
RightBucket == [buckets[upd.b] EXCEPT !.range.start = RightHalf.start, !.peers = upd.right]

(* The half Update goes on with: it compares the half's range with the     *)
(* contact's id, where every other range test uses the distance.           *)
GoLeft(left, c) == Covers(left.range, c.id)

ReplaceBy(s, i, l, r) == SubSeq(s, 1, i - 1) \o <<l, r>> \o SubSeq(s, i + 1, Len(s))

(* Update: replace the bucket by its halves.                               *)
SplitLink ==
    /\ upd.pc = "split"
    /\ upd.i > Len(SplitPeers)
    /\ ~ OneSided
    /\ buckets' = ReplaceBy(buckets, upd.b, LeftBucket, RightBucket)
    /\ upd' = [idle EXCEPT !.pc = "half", !.c = upd.c,
                           !.b = IF GoLeft(LeftBucket, upd.c) THEN upd.b ELSE upd.b + 1]

(* Update: insert or refresh the contact and unlock.                       *)
UpdateEnd ==
    /\ upd.pc \in {"insert", "half"}
    /\ buckets' = [buckets EXCEPT ![upd.b] = UpdatePeer(@, upd.c, TRUE)]
    /\ upd' = idle

(* A request or an error reply arrived from c.                             *)
Fresh(c) ==
    /\ upd.pc = "idle"
    /\ buckets' = [buckets EXCEPT ![bucketFor(c.id)] = UpdatePeer(@, c, FALSE)]
    /\ UNCHANGED upd

(* c did not answer a request.                                             *)
Fail(c) ==
    /\ upd.pc = "idle"
    /\ buckets' = [buckets EXCEPT ![bucketFor(c.id)] = FailContact(@, c.id)]
    /\ UNCHANGED upd

(* The refresh interval of a bucket passes without an update.              *)
GrowStale(i) ==
    /\ ~ buckets[i].stale
    /\ buckets' = [buckets EXCEPT ![i].stale = TRUE]
    /\ UNCHANGED upd

UpdateStep == SplitPeer \/ SplitNarrow \/ SplitLink \/ UpdateEnd

Next ==
    \/ \E c \in Known : UpdateBegin(c) \/ Fresh(c) \/ Fail(c)
    \/ UpdateStep
    \/ \E i \in DOMAIN buckets : GrowStale(i)

(* A goroutine that holds the write lock goes on running.                  *)
Spec == Init /\ [][Next]_vars /\ WF_vars(UpdateStep)

-----------------------------------------------------------------------------
(* Properties.                                                             *)

(* The state has its shape: buckets of peers, and a register that holds    *)
(* either nothing or an Update of one contact to one existing bucket.      *)
TypeOK ==
    /\ buckets \in Seq(Bucket)
    /\ upd \in [pc : {"idle", "split", "half", "insert"}, c : Contact,
                b : Nat, range : DistRange, i : Nat,
                left : Seq(Peer), right : Seq(Peer)]
    /\ upd.b \in DOMAIN buckets

(* The buckets cover every distance exactly once, in order, so bucketFor   *)
(* never panics with "target is not contained in any buckets": splitting,  *)
(* with its recursion and repaired end points, leaves no gap or overlap.   *)
Partition ==
    /\ Len(buckets) > 0
    /\ buckets[1].range.start = 0
    /\ buckets[Len(buckets)].range.end = MaxID
    /\ \A i \in DOMAIN buckets : buckets[i].range.start <= buckets[i].range.end
    /\ \A i \in 1 .. Len(buckets) - 1 :
            buckets[i + 1].range.start = buckets[i].range.end + 1

(* Every peer sits in the bucket that covers its distance, so bucketFor    *)
(* finds it again: Fail and Fresh reach the peer Update put there.         *)
PeersInRange ==
    \A i \in DOMAIN buckets : \A j \in DOMAIN buckets[i].peers :
        Covers(buckets[i].range, Distance(buckets[i].peers[j].id))

(* No id is listed twice, not even through a split or under two addresses. *)
NoDuplicates ==
    \A i, k \in DOMAIN buckets :
        \A j \in DOMAIN buckets[i].peers, l \in DOMAIN buckets[k].peers :
            buckets[i].peers[j].id = buckets[k].peers[l].id => i = k /\ j = l

(* No bucket grows past bucketSize.                                        *)
Capacity ==
    \A i \in DOMAIN buckets : Len(buckets[i].peers) <= BucketSize

(* A split puts at least one peer in each half, so the half that Update    *)
(* goes on with has room for its contact and one split is always enough.   *)
RoomAfterSplit ==
    upd.pc = "half" =>
        /\ Len(buckets[upd.b].peers) < BucketSize
        /\ buckets[upd.b].peers # <<>>

-----------------------------------------------------------------------------
(* What the proofs need besides.                                           *)

(* Buckets are ordered by distance, also those that are not adjacent.      *)
Ordered ==
    \A i, k \in DOMAIN buckets : i < k => buckets[i].range.end < buckets[k].range.start

(* While a full bucket is split, all its peers are in the range that was   *)
(* narrowed down to; the ones looked at so far are in the half that covers *)
(* them, and nowhere else.                                                 *)
SplitInv ==
    upd.pc = "split" =>
        /\ Len(SplitPeers) = BucketSize
        /\ buckets[upd.b].range.start <= upd.range.start
        /\ upd.range.end <= buckets[upd.b].range.end
        /\ \A j \in DOMAIN SplitPeers : Covers(upd.range, Distance(SplitPeers[j].id))
        /\ upd.i \in 1 .. Len(SplitPeers) + 1
        /\ Len(upd.left) + Len(upd.right) = upd.i - 1
        /\ \A j \in DOMAIN upd.left : Covers(LeftHalf, Distance(upd.left[j].id))
        /\ \A j \in DOMAIN upd.right : Covers(RightHalf, Distance(upd.right[j].id))
        /\ ToSet(upd.left) \cup ToSet(upd.right) = {SplitPeers[j] : j \in 1 .. upd.i - 1}
        /\ \A j, l \in DOMAIN upd.left : upd.left[j].id = upd.left[l].id => j = l
        /\ \A j, l \in DOMAIN upd.right : upd.right[j].id = upd.right[l].id => j = l

-----------------------------------------------------------------------------
(* UpdatePeer makes room in a full bucket at the cost of bad peers only:   *)
(* a peer that is not bad stays listed through splits, refreshes and the   *)
(* coming of others, and no bucket grows past bucketSize.  When a bad peer *)
(* has to go is the question of FailedRemoved.                             *)
GoodPeersStay ==
    [][/\ \A p \in Peers : ~ IsBad(p) => p.id \in IDs'
       /\ Capacity']_vars

(* "FailContact marks a contact as having failed, and removes it if it     *)
(* failed too many times": no peer with maxPeerFails failures in a row is  *)
(* listed.                                                                 *)
FailedRemoved == \A p \in Peers : ~ IsBad(p)

(* Update keeps the neighbourhood of the node complete: after it, a        *)
(* contact closer to the node than the kth closest one it knows is listed, *)
(* unless Update went on with a half that does not cover the contact (see  *)
(* UpdateInserts).                                                         *)
NeighbourhoodKept ==
    [][(upd.pc # "idle" /\ upd'.pc = "idle" /\ coversPeer(buckets[upd.b], upd.c)
          /\ \/ Cardinality(Peers) < BucketSize
             \/ \E p \in getClosest(SelfID, BucketSize) :
                    Distance(upd.c.id) < Distance(p.id))
        => upd.c.id \in IDs']_vars

(* "Update inserts or refreshes a contact": if the bucket that covers the  *)
(* contact has room, the contact is listed when Update returns.            *)
UpdateInserts ==
    [][(upd.pc # "idle" /\ upd'.pc = "idle"
          /\ Len(buckets[bucketFor(upd.c.id)].peers) < BucketSize)
        => upd.c.id \in IDs']_vars

(* Update returns and releases the write lock: the recursion of Split ends *)
(* because two peers always have different distances.                      *)
UpdateReturns == upd.pc # "idle" ~> upd.pc = "idle"
=============================================================================
