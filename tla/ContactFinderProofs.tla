-------------------------- MODULE ContactFinderProofs -------------------------
(***************************************************************************)
(* Proofs about the iterative search, for any network, any alpha and       *)
(* bucket size, and any number of cycles at once.                          *)
(*                                                                         *)
(* shortlistAdded is what keeps a contact from being asked again: it holds *)
(* every contact that was ever taken up (Seen), so what an answer adds to  *)
(* the shortlist is neither being asked nor among those that answered.     *)
(* The first part is about insertIntoActiveList, which keeps a list sorted *)
(* and lets none of its entries get farther away.                          *)
(***************************************************************************)
EXTENDS ContactFinder, SequenceTheorems, WellFoundedInduction, TLAPS

Contacted(c, i) == probe[c][i].contact

(* A probe that has popped a contact holds one that is not this node and   *)
(* was taken up; so was every contact that answered.                       *)
Seen ==
    /\ \A c \in Cycle, i \in Slot : probe[c][i].pc \in {"wait", "insert", "append"} =>
            /\ Contacted(c, i) \in shortlistAdded
            /\ Contacted(c, i) # Self
    /\ \A i \in 1 .. Len(activeContacts) : activeContacts[i] \in shortlistAdded

(* Contacts in the shortlist, being asked, and answered, are different.    *)
Busy(c, i) == probe[c][i].pc \in {"wait", "insert"}

Apart ==
    /\ \A c, d \in Cycle, i, j \in Slot :
            Busy(c, i) /\ Busy(d, j) /\ Contacted(c, i) = Contacted(d, j) => c = d /\ i = j
    /\ \A c \in Cycle, i \in Slot : Busy(c, i) =>
            /\ Contacted(c, i) \notin shortlist
            /\ \A k \in 1 .. Len(activeContacts) : activeContacts[k] # Contacted(c, i)
    /\ \A k \in 1 .. Len(activeContacts) : activeContacts[k] \notin shortlist /\ activeContacts[k] # Self

Sorted(s) == \A i, j \in 1 .. Len(s) : i < j => s[i] < s[j]

(* Probes run within their cycle, and a cycle that found a closer contact  *)
(* knows it.                                                               *)
CyclesInOrder ==
    \A c \in Cycle :
        /\ cycle[c].pc # "run" => Probed(c)
        /\ cycle[c].pc \in {"idle", "start"} => ~ cycle[c].foundCloser
        /\ cycle[c].foundCloser => cycle[c].closest # NoContact

(* What Find returned is sorted, and the front of the active contacts as   *)
(* long as they share an array.                                            *)
ResultInOrder ==
    /\ find # "returned" => result = <<>> /\ ~ shared
    /\ Sorted(result)
    /\ shared => /\ Len(result) <= Len(activeContacts)
                 /\ \A i \in 1 .. Len(result) : result[i] = activeContacts[i]

(* The inductive invariant.                                                *)
IInv ==
    /\ TypeOK /\ Seen /\ Apart /\ Sorted(activeContacts)
    /\ CyclesInOrder /\ ResultInOrder

-----------------------------------------------------------------------------
(* The closest of some contacts is one of them.                            *)
LEMMA MinIs ==
    ASSUME NEW T, T \subseteq Nat, T # {}
    PROVE  Min(T) \in T /\ \A k \in T : Min(T) <= k
<1>1. PICK n \in T : \A k \in T : <<k, n>> \notin OpToRel(<, Nat)
  BY NatLessThanWellFounded, WFMin, Zenon
<1>2. \A k \in T : ~ (k < n)
  BY <1>1 DEF OpToRel
<1>3. \E m \in T : \A k \in T : m <= k
  BY <1>2
<1> QED
  BY <1>3 DEF Min

LEMMA ClosestIs ==
    ASSUME NEW T, T \subseteq Node
    PROVE  /\ closest(T) = NoContact <=> T = {}
           /\ closest(T) # NoContact => closest(T) \in T
           /\ closest(T) \in Node \cup {NoContact}
           /\ NoContact \notin Node
<1>1. NoContact \notin Node /\ T \subseteq Nat
  BY ConstantsAssumption DEF NoContact
<1>2. T # {} => Min(T) \in T
  BY <1>1, MinIs
<1> QED
  BY <1>1, <1>2 DEF closest

(* The contacts of a list, as distances.                                   *)
LEMMA ListOfNodes ==
    ASSUME NEW s \in Seq(Node)
    PROVE  Len(s) \in Nat /\ \A i \in 1 .. Len(s) : s[i] \in Node /\ s[i] \in Nat
<1>1. Node \subseteq Nat
  BY ConstantsAssumption
<1> QED
  BY <1>1, LenProperties, ElementOfSeq

(* insertIntoActiveList, position by position: the contacts before n are   *)
(* closer than n, those after it farther away.                             *)
LEMMA InsertedIs ==
    ASSUME NEW s \in Seq(Node), Sorted(s), NEW n \in Node,
           \A i \in 1 .. Len(s) : s[i] # n
    PROVE  \E k \in 1 .. Len(s) + 1 :
              /\ Inserted(s, n) \in Seq(Node)
              /\ Len(Inserted(s, n)) = Len(s) + 1
              /\ Inserted(s, n)[k] = n
              /\ \A i \in 1 .. k - 1 : s[i] < n /\ Inserted(s, n)[i] = s[i]
              /\ \A i \in k .. Len(s) : n < s[i] /\ Inserted(s, n)[i + 1] = s[i]
<1> DEFINE T == {i \in DOMAIN s : n < s[i]} \cup {Len(s) + 1}
           k == Min(T)
           a == SubSeq(s, 1, k - 1)
           b == SubSeq(s, k, Len(s))
           ab == a \o <<n>>
<1>1. Len(s) \in Nat /\ n \in Nat /\ \A i \in 1 .. Len(s) : s[i] \in Nat /\ s[i] \in Node
  BY ListOfNodes, ConstantsAssumption
<1>2. k \in T /\ \A i \in T : k <= i
  <2>1. T \subseteq Nat /\ T # {}
    BY <1>1
  <2> HIDE DEF T
  <2> QED
    BY <2>1, MinIs
<1>3. k \in 1 .. Len(s) + 1
  BY <1>1, <1>2
<1>4. \A i \in 1 .. k - 1 : s[i] < n
  <2> SUFFICES ASSUME NEW i \in 1 .. k - 1 PROVE s[i] < n
    OBVIOUS
  <2> HIDE DEF k
  <2>1. i \in 1 .. Len(s) /\ ~ (k <= i)
    BY <1>1, <1>3
  <2>2. ~ (n < s[i])
    BY <1>2, <2>1
  <2> QED
    BY <1>1, <2>1, <2>2
<1>5. \A i \in k .. Len(s) : n < s[i]
  <2> SUFFICES ASSUME NEW i \in k .. Len(s) PROVE n < s[i]
    OBVIOUS
  <2> HIDE DEF k
  <2>1. k \in 1 .. Len(s) /\ i \in 1 .. Len(s)
    BY <1>1, <1>3
  <2>2. n < s[k]
    BY <1>1, <1>2, <2>1
  <2>3. k = i \/ s[k] < s[i]
    BY <1>1, <2>1 DEF Sorted
  <2> QED
    BY <1>1, <2>1, <2>2, <2>3
<1> HIDE DEF T, k
<1>6. a \in Seq(Node) /\ Len(a) = k - 1 /\ \A i \in 1 .. k - 1 : a[i] = s[i]
  BY <1>1, <1>3, SubSeqProperties
<1>7. b \in Seq(Node) /\ Len(b) = Len(s) - k + 1 /\ \A i \in 1 .. Len(s) - k + 1 : b[i] = s[k + i - 1]
  BY <1>1, <1>3, SubSeqProperties
<1>8. ab \in Seq(Node) /\ Len(ab) = k /\ ab[k] = n /\ \A i \in 1 .. k - 1 : ab[i] = s[i]
  <2> HIDE DEF a
  <2>1. <<n>> \in Seq(Node) /\ Len(<<n>>) = 1 /\ <<n>>[1] = n
    OBVIOUS
  <2>2. /\ ab \in Seq(Node) /\ Len(ab) = k
        /\ \A i \in 1 .. k : ab[i] = IF i <= k - 1 THEN a[i] ELSE <<n>>[i - (k - 1)]
    <3>1. a \in Seq(Node) /\ <<n>> \in Seq(Node)
      BY <1>6, <2>1, Zenon
    <3>2. /\ ab \in Seq(Node) /\ Len(ab) = Len(a) + Len(<<n>>)
          /\ \A i \in 1 .. Len(a) + Len(<<n>>) :
                ab[i] = IF i <= Len(a) THEN a[i] ELSE <<n>>[i - Len(a)]
      BY <3>1, ConcatProperties, Zenon
    <3>3. Len(a) = k - 1 /\ Len(a) + Len(<<n>>) = k
      BY <1>3, <1>6, <2>1
    <3> QED
      BY <3>2, <3>3
  <2>3. ab[k] = <<n>>[1]
    BY <1>3, <2>2
  <2> QED
    BY <1>3, <1>6, <2>1, <2>2, <2>3
<1>9. Inserted(s, n) = ab \o b
  BY DEF Inserted, T, k
<1> HIDE DEF a, b, ab
<1>10. /\ ab \o b \in Seq(Node) /\ Len(ab \o b) = Len(s) + 1
       /\ \A i \in 1 .. Len(s) + 1 : (ab \o b)[i] = IF i <= k THEN ab[i] ELSE b[i - k]
  <2>0. ab \in Seq(Node) /\ b \in Seq(Node)
    BY <1>7, <1>8, Zenon
  <2>1. /\ ab \o b \in Seq(Node) /\ Len(ab \o b) = Len(ab) + Len(b)
        /\ \A i \in 1 .. Len(ab) + Len(b) :
              (ab \o b)[i] = IF i <= Len(ab) THEN ab[i] ELSE b[i - Len(ab)]
    BY <2>0, ConcatProperties, Zenon
  <2>2. Len(ab) + Len(b) = Len(s) + 1 /\ Len(ab) = k
    BY <1>1, <1>3, <1>7, <1>8
  <2> QED
    BY <2>1, <2>2
<1>11. \A i \in k .. Len(s) : (ab \o b)[i + 1] = s[i]
  <2> SUFFICES ASSUME NEW i \in k .. Len(s) PROVE (ab \o b)[i + 1] = s[i]
    OBVIOUS
  <2>1. (ab \o b)[i + 1] = b[i + 1 - k] /\ i + 1 - k \in 1 .. Len(s) - k + 1
    BY <1>1, <1>3, <1>10
  <2>2. b[i + 1 - k] = s[k + (i + 1 - k) - 1] /\ k + (i + 1 - k) - 1 = i
    BY <1>1, <1>3, <1>7, <2>1
  <2> QED
    BY <2>1, <2>2
<1>12. (ab \o b)[k] = n /\ \A i \in 1 .. k - 1 : (ab \o b)[i] = s[i]
  BY <1>1, <1>3, <1>8, <1>10
<1> QED
  BY <1>3, <1>4, <1>5, <1>9, <1>10, <1>11, <1>12

(* So the list stays sorted, holds n beside what it held, and none of its  *)
(* entries gets farther away.                                              *)
LEMMA InsertedSorted ==
    ASSUME NEW s \in Seq(Node), Sorted(s), NEW n \in Node,
           \A i \in 1 .. Len(s) : s[i] # n
    PROVE  LET t == Inserted(s, n)
           IN  /\ t \in Seq(Node) /\ Len(t) = Len(s) + 1 /\ Len(s) \in Nat
               /\ Sorted(t)
               /\ \A i \in 1 .. Len(t) : t[i] = n \/ \E j \in 1 .. Len(s) : t[i] = s[j]
               /\ \A i \in 1 .. Len(s) : t[i] <= s[i]
<1> DEFINE t == Inserted(s, n)
<1>1. PICK k \in 1 .. Len(s) + 1 :
          /\ t \in Seq(Node)
          /\ Len(t) = Len(s) + 1
          /\ t[k] = n
          /\ \A i \in 1 .. k - 1 : s[i] < n /\ t[i] = s[i]
          /\ \A i \in k .. Len(s) : n < s[i] /\ t[i + 1] = s[i]
  BY InsertedIs
<1> HIDE DEF t
<1>2. Len(s) \in Nat /\ n \in Nat /\ \A i \in 1 .. Len(s) : s[i] \in Nat
  BY ListOfNodes, ConstantsAssumption
<1>3. ASSUME NEW i \in 1 .. Len(t), i > k
      PROVE  i - 1 \in k .. Len(s) /\ t[i] = s[i - 1] /\ n < s[i - 1] /\ i - 1 \in 1 .. Len(s)
  <2>1. i - 1 \in k .. Len(s) /\ (i - 1) + 1 = i /\ i - 1 \in 1 .. Len(s)
    BY <1>1, <1>2, <1>3
  <2>2. t[(i - 1) + 1] = s[i - 1] /\ n < s[i - 1]
    BY <1>1, <2>1
  <2> QED
    BY <2>1, <2>2
<1>4. ASSUME NEW i \in 1 .. Len(t), i < k
      PROVE  i \in 1 .. Len(s) /\ t[i] = s[i] /\ s[i] < n
  BY <1>1, <1>2, <1>4
<1>5. ASSUME NEW i \in 1 .. Len(t), NEW j \in 1 .. Len(t), i < j PROVE t[i] < t[j]
  <2>1. CASE j < k
    <3>1. i < k
      BY <1>1, <1>2, <1>5, <2>1
    <3>2. i \in 1 .. Len(s) /\ t[i] = s[i] /\ j \in 1 .. Len(s) /\ t[j] = s[j]
      BY <1>4, <2>1, <3>1
    <3> QED
      BY <1>5, <3>2 DEF Sorted
  <2>2. CASE j = k
    <3>1. t[i] = s[i] /\ s[i] < n
      BY <1>4, <1>5, <2>2
    <3> QED
      BY <1>1, <2>2, <3>1
  <2>3. CASE j > k /\ i < k
    <3>1. t[i] = s[i] /\ s[i] < n /\ i \in 1 .. Len(s)
      BY <1>4, <2>3
    <3>2. t[j] = s[j - 1] /\ n < s[j - 1] /\ j - 1 \in 1 .. Len(s)
      BY <1>3, <2>3
    <3> QED
      BY <1>2, <3>1, <3>2
  <2>4. CASE j > k /\ i = k
    BY <1>1, <1>2, <1>3, <2>4
  <2>5. CASE j > k /\ i > k
    <3>1. i - 1 < j - 1
      BY <1>1, <1>2, <1>5
    <3> QED
      BY <1>2, <1>3, <2>5, <3>1 DEF Sorted
  <2> QED
    BY <1>1, <1>2, <2>1, <2>2, <2>3, <2>4, <2>5
<1>6. ASSUME NEW i \in 1 .. Len(t) PROVE t[i] = n \/ \E j \in 1 .. Len(s) : t[i] = s[j]
  BY <1>1, <1>2, <1>3, <1>4
<1>7. ASSUME NEW i \in 1 .. Len(s) PROVE t[i] <= s[i]
  <2>0. i \in 1 .. Len(t)
    BY <1>1, <1>2
  <2>1. CASE i < k
    BY <1>2, <1>4, <2>0, <2>1
  <2>2. CASE i = k
    BY <1>1, <1>2, <2>2
  <2>3. CASE i > k
    <3>1. t[i] = s[i - 1] /\ i - 1 \in 1 .. Len(s) /\ i - 1 < i
      BY <1>2, <1>3, <2>0, <2>3
    <3> QED
      BY <1>2, <3>1 DEF Sorted
  <2> QED
    BY <1>1, <1>2, <2>1, <2>2, <2>3
<1> QED
  BY <1>1, <1>2, <1>5, <1>6, <1>7 DEF Sorted, t

-----------------------------------------------------------------------------
(* A probe that moves on leaves the others where they are.                 *)
ProbeState == [pc : {"none", "pop", "wait", "insert", "append"}, contact : Node \cup {NoContact}]

LEMMA ProbeMoves ==
    ASSUME TypeOK, NEW c \in Cycle, NEW i \in Slot, NEW p \in ProbeState, ProbeAt(c, i, p)
    PROVE  /\ probe' \in [Cycle -> [Slot -> ProbeState]]
           /\ probe'[c][i] = p
           /\ \A d \in Cycle, j \in Slot : d # c \/ j # i => probe'[d][j] = probe[d][j]
BY DEF TypeOK, ProbeAt, ProbeState

(* The search starts in order.                                             *)
LEMMA InitInv == Init => IInv
<1> SUFFICES ASSUME Init PROVE IInv
  OBVIOUS
<1>1. GetClosest \subseteq Node
  BY ConstantsAssumption DEF GetClosest
<1>2. /\ findValueResult \in BOOLEAN /\ notGettingCloser \in BOOLEAN
      /\ stopped \in BOOLEAN /\ shared \in BOOLEAN
  BY Zenon DEF Init
<1>3. FALSE \in BOOLEAN /\ TRUE \in BOOLEAN
  OBVIOUS
<1>4. /\ Idle \in [pc : {"idle", "start", "run", "report"}, big : BOOLEAN,
                   closest : Node \cup {NoContact}, foundCloser : BOOLEAN]
      /\ NewCycle(FALSE) \in [pc : {"idle", "start", "run", "report"}, big : BOOLEAN,
                   closest : Node \cup {NoContact}, foundCloser : BOOLEAN]
      /\ ~ Idle.foundCloser /\ ~ NewCycle(FALSE).foundCloser
  BY DEF Idle, NewCycle
<1>5. TypeOK
  <2>1. cycle \in [Cycle -> [pc : {"idle", "start", "run", "report"}, big : BOOLEAN,
                             closest : Node \cup {NoContact}, foundCloser : BOOLEAN]]
    BY <1>4 DEF Init
  <2>2. probe \in [Cycle -> [Slot -> [pc : {"none", "pop", "wait", "insert", "append"},
                                      contact : Node \cup {NoContact}]]]
    BY DEF Init, NoProbe
  <2>3. result \in Seq(Node) /\ Len(result) <= BucketSize /\ activeContacts \in Seq(Node)
    BY ConstantsAssumption DEF Init
  <2> QED
    BY <1>1, <1>2, <2>1, <2>2, <2>3 DEF Init, TypeOK
<1>6. Seen /\ Apart /\ Sorted(activeContacts)
  BY DEF Init, Seen, Apart, Sorted, Busy, NoProbe
<1>7. CyclesInOrder
  BY <1>4 DEF Init, CyclesInOrder, Probed
<1>8. ResultInOrder
  BY DEF Init, ResultInOrder, Sorted
<1> QED
  BY <1>5, <1>6, <1>7, <1>8 DEF IInv

-----------------------------------------------------------------------------
CycleState == [pc : {"idle", "start", "run", "report"}, big : BOOLEAN,
               closest : Node \cup {NoContact}, foundCloser : BOOLEAN]

LEMMA NewCycles ==
    ASSUME NEW big \in BOOLEAN
    PROVE  /\ Idle \in CycleState /\ Idle.pc = "idle" /\ ~ Idle.foundCloser
           /\ NewCycle(big) \in CycleState /\ NewCycle(big).pc = "start"
           /\ ~ NewCycle(big).foundCloser
BY DEF Idle, NewCycle, CycleState

(* Steps of Find and of a cycle: the lists and the probes' contacts stay.  *)
LEMMA FindInv ==
    ASSUME IInv, FindReturns \/ ParentStops
    PROVE  IInv'
<1> USE DEF IInv
<1>1. CASE FindReturns
  <2>1. UNCHANGED <<lists, activeContacts, search, cycle, probe>> /\ find' = "returned"
    BY <1>1 DEF FindReturns
  <2>2. Seen' /\ Apart' /\ Sorted(activeContacts)' /\ CyclesInOrder'
    BY <2>1 DEF lists, search, Seen, Apart, Sorted, CyclesInOrder, Busy, Contacted, Probed
  <2>3. shared' \in BOOLEAN
    BY <1>1, Zenon DEF FindReturns
  <2>4. CASE findValueResult
    <3>1. result' = <<>> /\ shared' = FALSE
      BY <1>1, <2>4 DEF FindReturns
    <3>2. TypeOK'
      BY <2>1, <2>3, <3>1, ConstantsAssumption DEF TypeOK, lists, search
    <3>3. ResultInOrder'
      BY <2>1, <3>1 DEF ResultInOrder, Sorted
    <3> QED
      BY <2>2, <3>2, <3>3
  <2>5. CASE ~ findValueResult
    <3> DEFINE m == Min({Len(activeContacts), BucketSize})
    <3>1. activeContacts \in Seq(Node) /\ Len(activeContacts) \in Nat
      BY DEF TypeOK
    <3>2. m \in 0 .. Len(activeContacts) /\ m <= BucketSize
      <4>1. {Len(activeContacts), BucketSize} \subseteq Nat
        BY <3>1, ConstantsAssumption
      <4> QED
        BY <3>1, <4>1, MinIs, ConstantsAssumption
    <3>3. result' = SubSeq(activeContacts, 1, m)
      BY <1>1, <2>5 DEF FindReturns, Kept
    <3> HIDE DEF m
    <3>4. /\ result' \in Seq(Node) /\ Len(result') = m
          /\ \A i \in 1 .. m : result'[i] = activeContacts[i]
      BY <3>1, <3>2, <3>3, SubSeqProperties, ListOfNodes
    <3>5. TypeOK'
      BY <2>1, <2>3, <3>2, <3>4 DEF TypeOK, lists, search
    <3>6. Sorted(result')
      BY <3>1, <3>2, <3>4 DEF Sorted
    <3>7. ResultInOrder'
      BY <2>1, <3>2, <3>4, <3>6 DEF ResultInOrder, Sorted
    <3> QED
      BY <2>2, <3>5, <3>7
  <2> QED
    BY <2>4, <2>5
<1>2. CASE ParentStops
  <2>1. stopped' \in BOOLEAN
    BY <1>2, Zenon DEF ParentStops
  <2>2. TypeOK'
    BY <1>2, <2>1 DEF ParentStops, TypeOK, lists, answer
  <2> QED
    BY <1>2, <2>2 DEF ParentStops, lists, answer, Seen, Apart, Sorted, CyclesInOrder, ResultInOrder,
                      Busy, Contacted, Probed
<1> QED
  BY <1>1, <1>2

LEMMA CycleInv ==
    ASSUME IInv, NEW c \in Cycle, TimerCycle(c) \/ CycleStep(c)
    PROVE  IInv'
<1> USE DEF IInv
<1>0. cycle[c] \in CycleState
  BY DEF TypeOK, CycleState
<1>1. CASE TimerCycle(c)
  <2>1. cycle' \in [Cycle -> CycleState] /\ cycle'[c] = NewCycle(FALSE)
        /\ \A d \in Cycle : d # c => cycle'[d] = cycle[d]
    BY <1>1, NewCycles DEF TimerCycle, TypeOK, CycleState
  <2>2. UNCHANGED <<lists, activeContacts, search, probe, answer>> /\ Probed(c)
    BY <1>1 DEF TimerCycle, CyclesInOrder
  <2>3. CyclesInOrder'
    BY <2>1, <2>2, NewCycles DEF CyclesInOrder, Probed
  <2>4. TypeOK'
    BY <2>1, <2>2 DEF TypeOK, CycleState, lists, search, answer
  <2> QED
    BY <2>2, <2>3, <2>4 DEF lists, answer, Seen, Apart, Sorted, ResultInOrder, Busy, Contacted
<1>2. CASE CycleStarts(c)
  <2>1. /\ cycle' = [cycle EXCEPT ![c].pc = "run", ![c].closest = closestContact]
        /\ cycle[c].pc = "start"
        /\ UNCHANGED <<lists, activeContacts, search, answer>>
    BY <1>2 DEF CycleStarts
  <2>2. /\ probe' \in [Cycle -> [Slot -> ProbeState]]
        /\ \A i \in Slot : probe'[c][i].pc \in {"pop", "none"}
        /\ \A d \in Cycle : d # c => probe'[d] = probe[d]
    BY <1>2 DEF CycleStarts, TypeOK, ProbeState, NewProbe, NoProbe
  <2>3. /\ cycle' \in [Cycle -> CycleState] /\ cycle'[c].pc = "run"
        /\ cycle'[c].foundCloser = cycle[c].foundCloser
        /\ \A d \in Cycle : d # c => cycle'[d] = cycle[d]
    <3> DEFINE there == [cycle[c] EXCEPT !.pc = "run", !.closest = closestContact]
    <3>1. cycle \in [Cycle -> CycleState] /\ closestContact \in Node \cup {NoContact}
      BY DEF TypeOK, CycleState
    <3>2. /\ there \in CycleState /\ there.pc = "run"
          /\ there.foundCloser = cycle[c].foundCloser
      BY <3>1 DEF CycleState
    <3>3. cycle' = [cycle EXCEPT ![c] = there]
      BY <2>1
    <3> HIDE DEF there
    <3> QED
      BY <3>1, <3>2, <3>3
  <2>4. TypeOK'
    BY <2>1, <2>2, <2>3 DEF TypeOK, CycleState, ProbeState, lists, search, answer
  <2>5. CyclesInOrder'
    BY <2>1, <2>2, <2>3 DEF CyclesInOrder, Probed
  <2>6. \A d \in Cycle, i \in Slot :
            probe'[d][i].pc \in {"wait", "insert", "append"} => probe'[d][i] = probe[d][i]
    BY <2>2
  <2>7. Seen' /\ Apart'
    BY <2>1, <2>6 DEF Seen, Apart, Busy, Contacted, lists
  <2> QED
    BY <2>1, <2>4, <2>5, <2>7 DEF Sorted, ResultInOrder, answer
<1>3. CASE CycleChecks(c)
  <2>1. /\ UNCHANGED <<lists, activeContacts, findValueResult, closestContact,
                       notGettingCloser, probe, answer>>
        /\ Probed(c)
    BY <1>3 DEF CycleChecks
  <2>2. stopped' \in BOOLEAN
    <3>1. CASE stopped' = TRUE
      BY <3>1, Zenon
    <3>2. CASE stopped' = stopped
      BY <3>2, Zenon DEF TypeOK
    <3> QED
      BY <1>3, <3>1, <3>2 DEF CycleChecks
  <2>3. /\ cycle' \in [Cycle -> CycleState]
        /\ cycle'[c] = Idle \/ (cycle'[c].pc = "report" /\ cycle'[c].foundCloser = cycle[c].foundCloser
                                /\ cycle'[c].closest = cycle[c].closest)
        /\ \A d \in Cycle : d # c => cycle'[d] = cycle[d]
    <3>1. CASE cycle' = [cycle EXCEPT ![c] = Idle]
      BY <3>1, NewCycles DEF TypeOK, CycleState
    <3>2. CASE cycle' = [cycle EXCEPT ![c].pc = "report"]
      <4> DEFINE there == [cycle[c] EXCEPT !.pc = "report"]
      <4>1. cycle \in [Cycle -> CycleState]
        BY DEF TypeOK, CycleState
      <4>2. /\ there \in CycleState /\ there.pc = "report"
            /\ there.foundCloser = cycle[c].foundCloser /\ there.closest = cycle[c].closest
        BY <4>1 DEF CycleState
      <4>3. cycle' = [cycle EXCEPT ![c] = there]
        BY <3>2
      <4> HIDE DEF there
      <4> QED
        BY <4>1, <4>2, <4>3
    <3> QED
      BY <1>3, <3>1, <3>2 DEF CycleChecks
  <2>4. TypeOK'
    BY <2>1, <2>2, <2>3 DEF TypeOK, CycleState, lists, answer
  <2>5. ASSUME NEW d \in Cycle
        PROVE  /\ cycle'[d].pc # "run" => Probed(d)'
               /\ cycle'[d].pc \in {"idle", "start"} => ~ cycle'[d].foundCloser
               /\ cycle'[d].foundCloser => cycle'[d].closest # NoContact
    <3>1. CASE d # c
      BY <2>1, <2>3, <3>1 DEF CyclesInOrder, Probed
    <3>2. CASE d = c /\ cycle'[c] = Idle
      BY <2>1, <3>2, NewCycles DEF Probed
    <3>3. CASE d = c /\ cycle'[c] # Idle
      BY <2>1, <2>3, <3>3 DEF CyclesInOrder, Probed
    <3> QED
      BY <3>1, <3>2, <3>3
  <2>6. CyclesInOrder'
    BY <2>5 DEF CyclesInOrder
  <2> QED
    BY <2>1, <2>4, <2>6 DEF lists, answer, Seen, Apart, Sorted, ResultInOrder, Busy, Contacted
<1>4. CASE CycleReports(c)
  <2>1. /\ UNCHANGED <<lists, activeContacts, findValueResult, stopped, probe, answer>>
        /\ cycle[c].pc = "report"
    BY <1>4 DEF CycleReports
  <2>2. notGettingCloser' \in BOOLEAN
    BY <1>4, Zenon DEF CycleReports
  <2>3. /\ cycle' \in [Cycle -> CycleState]
        /\ cycle'[c].pc \in {"idle", "start"} /\ ~ cycle'[c].foundCloser
        /\ \A d \in Cycle : d # c => cycle'[d] = cycle[d]
    <3>1. PICK x \in {NewCycle(FALSE), NewCycle(TRUE), Idle} : cycle' = [cycle EXCEPT ![c] = x]
      BY <1>4 DEF CycleReports
    <3>2. x \in CycleState /\ x.pc \in {"idle", "start"} /\ ~ x.foundCloser
      BY NewCycles
    <3> QED
      BY <3>1, <3>2 DEF TypeOK, CycleState
  <2>4. closestContact' \in Node \cup {NoContact}
    BY <1>4, <1>0 DEF CycleReports, Improved, TypeOK, CycleState
  <2>5. TypeOK'
    BY <2>1, <2>2, <2>3, <2>4 DEF TypeOK, CycleState, lists, answer
  <2>6. CyclesInOrder'
    BY <2>1, <2>3 DEF CyclesInOrder, Probed
  <2> QED
    BY <2>1, <2>5, <2>6 DEF lists, answer, Seen, Apart, Sorted, ResultInOrder, Busy, Contacted
<1> QED
  BY <1>1, <1>2, <1>3, <1>4 DEF CycleStep

-----------------------------------------------------------------------------
(* Steps of a probe.  The four that move it on without touching the        *)
(* active contacts, or that end it, keep contacts apart because none of    *)
(* them makes it hold another contact.                                     *)
LEMMA ProbeEnds ==
    ASSUME IInv, NEW c \in Cycle, NEW i \in Slot, NEW p \in ProbeState,
           ProbeAt(c, i, p), probe[c][i].pc # "none",
           \/ p.pc = "none"
           \/ probe[c][i].pc = "wait" /\ p = [probe[c][i] EXCEPT !.pc = "insert"],
           UNCHANGED <<lists, activeContacts, cycle>>
    PROVE  /\ probe' \in [Cycle -> [Slot -> ProbeState]]
           /\ Seen' /\ Apart'
           /\ p = NoProbe \/ p.pc # "none" => CyclesInOrder'
<1> USE DEF IInv
<1>1. /\ probe' \in [Cycle -> [Slot -> ProbeState]]
      /\ probe'[c][i] = p
      /\ \A d \in Cycle, j \in Slot : d # c \/ j # i => probe'[d][j] = probe[d][j]
  BY ProbeMoves
<1>2. \A d \in Cycle, j \in Slot :
          /\ Busy(d, j)' => Busy(d, j) /\ Contacted(d, j)' = Contacted(d, j)
          /\ probe'[d][j].pc = "append" => probe'[d][j] = probe[d][j]
  BY <1>1 DEF Busy, Contacted, ProbeState, TypeOK
<1>3. Seen'
  BY <1>2 DEF Seen, Busy, Contacted, lists
<1>4. Apart'
  BY <1>2 DEF Apart, lists
<1>5. cycle[c].pc = "run"
  BY DEF CyclesInOrder, Probed, NoProbe
<1>6. ASSUME p = NoProbe \/ p.pc # "none" PROVE CyclesInOrder'
  BY <1>1, <1>5 DEF CyclesInOrder, Probed
<1> QED
  BY <1>1, <1>3, <1>4, <1>6

LEMMA NoProbeState == NoProbe \in ProbeState /\ NoProbe.pc = "none"
BY DEF NoProbe, ProbeState

LEMMA AnswerInv ==
    ASSUME IInv, NEW c \in Cycle, NEW i \in Slot,
           Answered(c, i) \/ GotValue(c, i) \/ Unanswered(c, i)
    PROVE  IInv'
<1> USE DEF IInv
<1>0. probe[c][i] \in ProbeState
  BY DEF TypeOK, ProbeState
<1>1. CASE Answered(c, i)
  <2> DEFINE p == [probe[c][i] EXCEPT !.pc = "insert"]
  <2>1. p \in ProbeState /\ p.pc = "insert" /\ probe[c][i].pc = "wait" /\ ProbeAt(c, i, p)
        /\ UNCHANGED <<lists, activeContacts, search, cycle, answer>>
    BY <1>0, <1>1 DEF Answered, ProbeState
  <2>2. /\ probe' \in [Cycle -> [Slot -> ProbeState]]
        /\ Seen' /\ Apart' /\ CyclesInOrder'
    BY <2>1, ProbeEnds
  <2>3. TypeOK'
    BY <2>1, <2>2 DEF TypeOK, ProbeState, lists, search, answer
  <2> QED
    BY <2>1, <2>2, <2>3 DEF answer, ResultInOrder, Sorted
<1>2. CASE Unanswered(c, i)
  <2>1. ProbeAt(c, i, NoProbe) /\ probe[c][i].pc # "none"
        /\ UNCHANGED <<lists, activeContacts, search, cycle, answer>>
    BY <1>2 DEF Unanswered
  <2>2. /\ probe' \in [Cycle -> [Slot -> ProbeState]]
        /\ Seen' /\ Apart' /\ CyclesInOrder'
    BY <2>1, NoProbeState, ProbeEnds
  <2>3. TypeOK'
    BY <2>1, <2>2 DEF TypeOK, ProbeState, lists, search, answer
  <2> QED
    BY <2>1, <2>2, <2>3 DEF answer, ResultInOrder, Sorted
<1>3. CASE GotValue(c, i)
  <2>1. ProbeAt(c, i, NoProbe) /\ probe[c][i].pc # "none"
        /\ UNCHANGED <<lists, activeContacts, closestContact, notGettingCloser, cycle, answer>>
    BY <1>3 DEF GotValue
  <2>2. findValueResult' \in BOOLEAN /\ stopped' \in BOOLEAN
    BY <1>3, Zenon DEF GotValue
  <2>3. /\ probe' \in [Cycle -> [Slot -> ProbeState]]
        /\ Seen' /\ Apart' /\ CyclesInOrder'
    BY <2>1, NoProbeState, ProbeEnds
  <2>4. TypeOK'
    BY <2>1, <2>2, <2>3 DEF TypeOK, ProbeState, lists, answer
  <2> QED
    BY <2>1, <2>3, <2>4 DEF answer, ResultInOrder, Sorted
<1> QED
  BY <1>1, <1>2, <1>3

(* Popping the closest contact takes it out of the shortlist, so no other  *)
(* probe can take it.                                                      *)
LEMMA PopInv ==
    ASSUME IInv, NEW c \in Cycle, NEW i \in Slot, Pop(c, i)
    PROVE  IInv'
<1> USE DEF IInv
<1> DEFINE first == closest(shortlist)
           p == IF first # NoContact /\ Askable(first)
                THEN [pc |-> "wait", contact |-> first] ELSE NoProbe
<1>1. /\ first # NoContact => first \in shortlist
      /\ first \in Node \cup {NoContact}
  BY ClosestIs DEF TypeOK
<1>2. /\ probe[c][i].pc = "pop" /\ shortlist' = shortlist \ {first} /\ ProbeAt(c, i, p)
      /\ UNCHANGED <<shortlistAdded, activeContacts, search, cycle, answer>>
  BY DEF Pop
<1> HIDE DEF first
<1>3. /\ p \in ProbeState
      /\ p.pc = "none" \/ (p.pc = "wait" /\ p.contact = first /\ first \in shortlist /\ first # Self)
  BY <1>1, NoProbeState DEF ProbeState, Askable
<1>4. p = NoProbe \/ p.pc # "none"
  OBVIOUS
<1> HIDE DEF p
<1>5. /\ probe' \in [Cycle -> [Slot -> ProbeState]]
      /\ probe'[c][i] = p
      /\ \A d \in Cycle, j \in Slot : d # c \/ j # i => probe'[d][j] = probe[d][j]
  BY <1>2, <1>3, ProbeMoves
<1>6. TypeOK'
  BY <1>2, <1>5 DEF TypeOK, ProbeState, search, answer
<1>7. ASSUME NEW d \in Cycle, NEW j \in Slot, probe'[d][j].pc \in {"wait", "insert", "append"}
      PROVE  \/ probe'[d][j] = probe[d][j] /\ (d # c \/ j # i)
             \/ d = c /\ j = i /\ Contacted(d, j)' = first /\ first \in shortlist /\ first # Self
  BY <1>3, <1>5, <1>7 DEF Contacted
<1>8. Seen'
  BY <1>2, <1>7 DEF Seen, Contacted, TypeOK
<1>9. Apart'
  <2>1. ASSUME NEW d \in Cycle, NEW e \in Cycle, NEW j \in Slot, NEW k \in Slot,
               Busy(d, j)', Busy(e, k)', Contacted(d, j)' = Contacted(e, k)'
        PROVE  d = e /\ j = k
    BY <1>7, <2>1 DEF Apart, Busy, Contacted
  <2>2. ASSUME NEW d \in Cycle, NEW j \in Slot, Busy(d, j)'
        PROVE  /\ Contacted(d, j)' \notin shortlist'
               /\ \A k \in 1 .. Len(activeContacts) : activeContacts[k] # Contacted(d, j)'
    BY <1>2, <1>7, <2>2 DEF Apart, Busy, Contacted
  <2> QED
    BY <1>2, <2>1, <2>2 DEF Apart
<1>10. CyclesInOrder'
  <2>1. cycle[c].pc = "run"
    BY <1>2 DEF CyclesInOrder, Probed, NoProbe
  <2> QED
    BY <1>2, <1>5, <2>1 DEF CyclesInOrder, Probed
<1> QED
  BY <1>2, <1>6, <1>8, <1>9, <1>10 DEF answer, ResultInOrder, Sorted

(* The contact that answered is new to the active contacts, and goes to    *)
(* its place.                                                              *)
LEMMA InsertIs ==
    ASSUME IInv, NEW c \in Cycle, NEW i \in Slot, Insert(c, i)
    PROVE  /\ Contacted(c, i) \in shortlistAdded /\ Contacted(c, i) # Self
           /\ activeContacts \in Seq(Node) /\ Len(activeContacts) \in Nat
           /\ activeContacts' \in Seq(Node)
           /\ Len(activeContacts') = Len(activeContacts) + 1
           /\ Sorted(activeContacts')
           /\ \A k \in 1 .. Len(activeContacts') :
                  \/ activeContacts'[k] = Contacted(c, i)
                  \/ \E j \in 1 .. Len(activeContacts) : activeContacts'[k] = activeContacts[j]
           /\ \A k \in 1 .. Len(activeContacts) : activeContacts'[k] <= activeContacts[k]
<1> DEFINE n == Contacted(c, i)
<1>1. Busy(c, i) /\ activeContacts' = Inserted(activeContacts, n)
  BY DEF Insert, Busy, Contacted
<1>2. n \in shortlistAdded /\ n # Self
  BY <1>1 DEF IInv, Seen, Busy
<1>3. /\ n \in Node /\ activeContacts \in Seq(Node) /\ Sorted(activeContacts)
      /\ \A k \in 1 .. Len(activeContacts) : activeContacts[k] # n
  BY <1>1, <1>2 DEF IInv, TypeOK, Apart
<1> HIDE DEF n
<1> QED
  BY <1>1, <1>2, <1>3, InsertedSorted DEF n

(* A result that shares the array keeps its length and its order, and none *)
(* of its entries gets farther away.                                       *)
LEMMA InsertResult ==
    ASSUME IInv, NEW c \in Cycle, NEW i \in Slot, Insert(c, i)
    PROVE  /\ result' \in Seq(Node) /\ Len(result') = Len(result)
           /\ Sorted(result')
           /\ \A k \in 1 .. Len(result) : result'[k] <= result[k]
           /\ ResultInOrder'
<1> USE DEF IInv
<1>1. /\ result \in Seq(Node) /\ Len(result) \in Nat
      /\ \A k \in 1 .. Len(result) : result[k] \in Nat
      /\ Sorted(result)
  BY ListOfNodes DEF TypeOK, ResultInOrder
<1>2. find' = find
  BY DEF Insert
<1>3. CASE shared /\ ~ Grows(activeContacts)
  <2>1. /\ result' = SubSeq(activeContacts', 1, Len(result)) /\ shared' = TRUE
        /\ Len(result) <= Len(activeContacts)
        /\ \A k \in 1 .. Len(result) : result[k] = activeContacts[k]
    BY <1>3 DEF Insert, ResultInOrder
  <2>2. /\ activeContacts' \in Seq(Node) /\ Len(activeContacts) \in Nat
        /\ Len(activeContacts') = Len(activeContacts) + 1
        /\ Sorted(activeContacts')
        /\ \A k \in 1 .. Len(activeContacts) : activeContacts'[k] <= activeContacts[k]
    BY InsertIs
  <2>3. \A k \in 1 .. Len(result) : activeContacts'[k] \in Node
    BY <1>1, <2>1, <2>2
  <2>4. /\ result' \in Seq(Node) /\ Len(result') = Len(result)
        /\ \A k \in 1 .. Len(result) : result'[k] = activeContacts'[k]
    BY <1>1, <2>1, <2>3, SubSeqProperties
  <2>5. Sorted(result')
    BY <1>1, <2>1, <2>2, <2>4 DEF Sorted
  <2>6. \A k \in 1 .. Len(result) : result'[k] <= result[k]
    BY <1>1, <2>1, <2>2, <2>4
  <2>7. find' = "returned"
    BY <1>2, <1>3 DEF ResultInOrder
  <2>8. ResultInOrder'
    BY <1>1, <2>1, <2>2, <2>4, <2>5, <2>7 DEF ResultInOrder, Sorted
  <2> QED
    BY <2>4, <2>5, <2>6, <2>8
<1>4. CASE ~ (shared /\ ~ Grows(activeContacts))
  <2>1. result' = result /\ shared' = FALSE
    BY <1>4 DEF Insert
  <2> QED
    BY <1>1, <1>2, <2>1 DEF ResultInOrder, Sorted
<1> QED
  BY <1>3, <1>4

LEMMA InsertInv ==
    ASSUME IInv, NEW c \in Cycle, NEW i \in Slot, Insert(c, i)
    PROVE  IInv'
<1> USE DEF IInv
<1> DEFINE p == [probe[c][i] EXCEPT !.pc = "append"]
           n == Contacted(c, i)
<1>1. /\ p \in ProbeState /\ p.pc = "append" /\ p.contact = n
      /\ Busy(c, i) /\ ProbeAt(c, i, p)
      /\ UNCHANGED <<lists, search, cycle, find>>
  <2>1. probe[c][i] \in ProbeState
    BY DEF TypeOK, ProbeState
  <2> QED
    BY <2>1 DEF Insert, ProbeState, Contacted, Busy
<1> HIDE DEF p
<1>2. /\ probe' \in [Cycle -> [Slot -> ProbeState]]
      /\ probe'[c][i] = p
      /\ \A d \in Cycle, j \in Slot : d # c \/ j # i => probe'[d][j] = probe[d][j]
  BY <1>1, ProbeMoves
<1>3. /\ n \in shortlistAdded /\ n # Self
      /\ activeContacts' \in Seq(Node) /\ Sorted(activeContacts')
      /\ \A k \in 1 .. Len(activeContacts') :
             \/ activeContacts'[k] = n
             \/ \E j \in 1 .. Len(activeContacts) : activeContacts'[k] = activeContacts[j]
  BY InsertIs
<1>4. n \notin shortlist
  BY <1>1 DEF Apart
<1> HIDE DEF n
<1>5. shared' \in BOOLEAN
  BY Zenon DEF Insert
<1>6. TypeOK'
  BY <1>1, <1>2, <1>3, <1>5, InsertResult DEF TypeOK, ProbeState, lists, search
<1>7. ASSUME NEW d \in Cycle, NEW j \in Slot, Busy(d, j)'
      PROVE  Busy(d, j) /\ Contacted(d, j)' = Contacted(d, j) /\ Contacted(d, j) # n
  <2>1. d # c \/ j # i
    BY <1>1, <1>2, <1>7 DEF Busy
  <2>2. Busy(d, j) /\ Contacted(d, j)' = Contacted(d, j)
    BY <1>2, <1>7, <2>1 DEF Busy, Contacted
  <2> QED
    BY <1>1, <2>1, <2>2 DEF Apart, n
<1>8. Seen'
  <2>1. ASSUME NEW d \in Cycle, NEW j \in Slot, probe'[d][j].pc \in {"wait", "insert", "append"}
        PROVE  Contacted(d, j)' \in shortlistAdded /\ Contacted(d, j)' # Self
    BY <1>1, <1>2, <1>3, <2>1 DEF Seen, Contacted
  <2>2. \A k \in 1 .. Len(activeContacts') : activeContacts'[k] \in shortlistAdded
    BY <1>3 DEF Seen
  <2> QED
    BY <1>1, <2>1, <2>2 DEF Seen, lists
<1>9. Apart'
  <2>1. \A k \in 1 .. Len(activeContacts') :
            activeContacts'[k] \notin shortlist /\ activeContacts'[k] # Self
    BY <1>3, <1>4 DEF Apart
  <2>2. ASSUME NEW d \in Cycle, NEW j \in Slot, Busy(d, j)',
               NEW k \in 1 .. Len(activeContacts')
        PROVE  activeContacts'[k] # Contacted(d, j)'
    BY <1>3, <1>7, <2>2 DEF Apart
  <2> QED
    BY <1>1, <1>7, <2>1, <2>2 DEF Apart, lists
<1>10. CyclesInOrder'
  <2>1. cycle[c].pc = "run"
    BY <1>1 DEF CyclesInOrder, Probed, NoProbe, Busy
  <2> QED
    BY <1>1, <1>2, <2>1 DEF CyclesInOrder, Probed
<1> QED
  BY <1>3, <1>6, <1>8, <1>9, <1>10, InsertResult

(* What an answer adds to the shortlist was never there before, so it is   *)
(* neither being asked nor among the active contacts.                      *)
LEMMA AppendNewInv ==
    ASSUME IInv, NEW c \in Cycle, NEW i \in Slot, AppendNew(c, i)
    PROVE  IInv'
<1> USE DEF IInv
<1> DEFINE contacts == Knows[Contacted(c, i)]
           best == closest(contacts)
<1>1. /\ probe[c][i].pc = "append" /\ ProbeAt(c, i, NoProbe)
      /\ shortlist' = shortlist \cup (contacts \ shortlistAdded)
      /\ shortlistAdded' = shortlistAdded \cup contacts
      /\ UNCHANGED <<activeContacts, search, answer>>
  BY DEF AppendNew, New, Added, Contacted
<1>2. contacts \subseteq Node
  BY <1>1, ConstantsAssumption DEF Seen, TypeOK
<1>3. best \in Node \cup {NoContact}
  BY <1>2, ClosestIs
<1>4. \/ cycle' = cycle
      \/ best # NoContact /\ cycle' = [cycle EXCEPT ![c].closest = best, ![c].foundCloser = TRUE]
  BY DEF AppendNew, Contacted
<1> HIDE DEF contacts, best
<1>5. /\ probe' \in [Cycle -> [Slot -> ProbeState]]
      /\ probe'[c][i] = NoProbe
      /\ \A d \in Cycle, j \in Slot : d # c \/ j # i => probe'[d][j] = probe[d][j]
  BY <1>1, NoProbeState, ProbeMoves
<1>6. cycle[c].pc = "run"
  BY <1>1 DEF CyclesInOrder, Probed, NoProbe
<1>7. /\ cycle' \in [Cycle -> CycleState] /\ cycle'[c].pc = "run"
      /\ cycle'[c].foundCloser => cycle'[c].closest # NoContact
      /\ \A d \in Cycle : d # c => cycle'[d] = cycle[d]
  <2>1. CASE cycle' = cycle
    BY <1>6, <2>1 DEF CyclesInOrder, TypeOK, CycleState
  <2>2. CASE best # NoContact /\ cycle' = [cycle EXCEPT ![c].closest = best, ![c].foundCloser = TRUE]
    <3>1. cycle[c] \in CycleState /\ TRUE \in BOOLEAN
      BY DEF TypeOK, CycleState
    <3>2. [cycle[c] EXCEPT !.closest = best, !.foundCloser = TRUE] \in CycleState
      BY <1>3, <3>1 DEF CycleState
    <3>3. cycle' = [cycle EXCEPT ![c] = [cycle[c] EXCEPT !.closest = best, !.foundCloser = TRUE]]
      BY <2>2
    <3> QED
      BY <1>6, <2>2, <3>1, <3>2, <3>3 DEF TypeOK, CycleState
  <2> QED
    BY <1>4, <2>1, <2>2
<1>8. TypeOK'
  BY <1>1, <1>2, <1>5, <1>7 DEF TypeOK, ProbeState, CycleState, search, answer
<1>9. ASSUME NEW d \in Cycle, NEW j \in Slot, probe'[d][j].pc \in {"wait", "insert", "append"}
      PROVE  probe'[d][j] = probe[d][j]
  BY <1>5, <1>9, NoProbeState
<1>10. Seen'
  BY <1>1, <1>9 DEF Seen, Contacted
<1>11. Apart'
  <2>1. ASSUME NEW d \in Cycle, NEW j \in Slot, Busy(d, j)'
        PROVE  Busy(d, j) /\ Contacted(d, j)' = Contacted(d, j) /\ Contacted(d, j) \in shortlistAdded
    BY <1>9, <2>1 DEF Busy, Contacted, Seen
  <2>2. \A k \in 1 .. Len(activeContacts) :
            activeContacts[k] \in shortlistAdded /\ activeContacts[k] \notin shortlist'
    BY <1>1 DEF Seen, Apart
  <2> QED
    BY <1>1, <2>1, <2>2 DEF Apart
<1>12. CyclesInOrder'
  BY <1>5, <1>7 DEF CyclesInOrder, Probed
<1> QED
  BY <1>1, <1>8, <1>10, <1>11, <1>12 DEF answer, ResultInOrder, Sorted

(* Every step keeps the invariant.                                         *)
LEMMA StepInv == IInv /\ [Next]_vars => IInv'
<1> SUFFICES ASSUME IInv, [Next]_vars PROVE IInv'
  OBVIOUS
<1>1. CASE UNCHANGED vars
  BY <1>1 DEF vars, lists, search, answer, IInv, TypeOK, Seen, Apart, Sorted, CyclesInOrder,
              ResultInOrder, Busy, Contacted, Probed
<1> QED
  BY <1>1, FindInv, CycleInv, PopInv, AnswerInv, InsertInv, AppendNewInv DEF Next, ProbeStep

-----------------------------------------------------------------------------
(* Nobody is asked twice: a contact waits in the shortlist, is asked by    *)
(* one probe, or is in its place among those that answered.                *)
THEOREM NobodyAskedTwice == Spec => []AskedOnce
<1>1. IInv => AskedOnce
  <2> SUFFICES ASSUME IInv PROVE AskedOnce
    OBVIOUS
  <2> USE DEF IInv
  <2>1. DOMAIN activeContacts = 1 .. Len(activeContacts)
    BY DEF TypeOK
  <2>2. \A p \in Asking : p[1] \in Cycle /\ p[2] \in Slot /\ Busy(p[1], p[2]) /\ p = <<p[1], p[2]>>
    BY DEF Asking, Busy
  <2>3. \A p, q \in Asking : p # q => probe[p[1]][p[2]].contact # probe[q[1]][q[2]].contact
    BY <2>2 DEF Apart, Contacted
  <2>4. \A p \in Asking :
            /\ probe[p[1]][p[2]].contact \notin shortlist
            /\ \A i \in DOMAIN activeContacts : activeContacts[i] # probe[p[1]][p[2]].contact
    BY <2>1, <2>2 DEF Apart, Contacted
  <2> QED
    BY <2>1, <2>3, <2>4 DEF AskedOnce, Apart, Sorted
<1> QED
  BY InitInv, StepInv, <1>1, PTL DEF Spec

(* The closest contact never gets farther away, although cycles that       *)
(* overlap compare their finds with an old value of it.                    *)
THEOREM ClosestOnlyImproves == Spec => ClosestImproves
<1> DEFINE Act == closestContact # NoContact =>
                      closestContact' <= closestContact /\ closestContact' # NoContact
<1>1. IInv /\ [Next]_vars => [Act]_vars
  <2> SUFFICES ASSUME IInv, [Next]_vars, closestContact # NoContact
               PROVE  closestContact' <= closestContact /\ closestContact' # NoContact
    OBVIOUS
  <2>1. closestContact \in Node /\ closestContact \in Nat
    BY ConstantsAssumption DEF IInv, TypeOK
  <2>2. CASE closestContact' = closestContact
    BY <2>1, <2>2
  <2>3. ASSUME NEW c \in Cycle, CycleReports(c)
        PROVE  closestContact' <= closestContact /\ closestContact' # NoContact
    <3>1. CASE closestContact' = closestContact
      BY <2>1, <3>1
    <3>2. CASE closestContact' # closestContact
      <4>1. /\ cycle[c].foundCloser /\ closestContact' = cycle[c].closest
            /\ Closer(cycle[c].closest, closestContact)
        BY <2>3, <3>2 DEF CycleReports, Improved
      <4>2. cycle[c].closest # NoContact /\ cycle[c].closest \in Node
        BY <4>1 DEF IInv, CyclesInOrder, TypeOK
      <4>3. cycle[c].closest \in Nat
        BY <4>2, ConstantsAssumption
      <4> QED
        BY <2>1, <4>1, <4>2, <4>3 DEF Closer
    <3> QED
      BY <3>1, <3>2
  <2>4. CASE UNCHANGED vars
    BY <2>2, <2>4 DEF vars, search
  <2>5. CASE FindReturns \/ ParentStops
    BY <2>2, <2>5 DEF FindReturns, ParentStops, search
  <2>6. ASSUME NEW c \in Cycle, TimerCycle(c) \/ CycleStarts(c) \/ CycleChecks(c)
        PROVE  closestContact' = closestContact
    BY <2>6 DEF TimerCycle, CycleStarts, CycleChecks, search
  <2>7. ASSUME NEW c \in Cycle, NEW i \in Slot, ProbeStep(c, i)
        PROVE  closestContact' = closestContact
    BY <2>7 DEF ProbeStep, Pop, Answered, GotValue, Unanswered, Insert, AppendNew, search
  <2> QED
    BY <2>2, <2>3, <2>4, <2>5, <2>6, <2>7 DEF Next, CycleStep
<1> QED
  BY InitInv, StepInv, <1>1, PTL DEF Spec, ClosestImproves

(* What Find returned keeps its length, stays sorted and only gets closer, *)
(* although late probes insert into the array it was taken from.           *)
THEOREM ResultOnlyImproves == Spec => ResultImproves
<1> DEFINE Act == find = "returned" =>
                      /\ Len(result') = Len(result)
                      /\ \A i \in DOMAIN result : result'[i] <= result[i]
                      /\ \A i \in 1 .. Len(result) - 1 : result'[i] < result'[i + 1]
<1>1. IInv /\ [Next]_vars => [Act]_vars
  <2> SUFFICES ASSUME IInv, [Next]_vars, find = "returned"
               PROVE  /\ Len(result') = Len(result)
                      /\ \A i \in DOMAIN result : result'[i] <= result[i]
                      /\ \A i \in 1 .. Len(result) - 1 : result'[i] < result'[i + 1]
    OBVIOUS
  <2>1. /\ result \in Seq(Node) /\ Len(result) \in Nat
        /\ \A i \in 1 .. Len(result) : result[i] \in Nat
    BY ListOfNodes DEF IInv, TypeOK
  <2>2. /\ Len(result') = Len(result) /\ Sorted(result')
        /\ \A i \in 1 .. Len(result) : result'[i] <= result[i]
    <3>1. CASE result' = result
      BY <2>1, <3>1 DEF IInv, ResultInOrder, Sorted
    <3>2. ASSUME NEW c \in Cycle, NEW i \in Slot, Insert(c, i)
          PROVE  /\ Len(result') = Len(result) /\ Sorted(result')
                 /\ \A k \in 1 .. Len(result) : result'[k] <= result[k]
      BY <3>2, InsertResult
    <3>3. CASE UNCHANGED vars
      BY <3>1, <3>3 DEF vars, answer
    <3>4. CASE FindReturns \/ ParentStops
      BY <3>1, <3>4 DEF FindReturns, ParentStops, answer
    <3>5. ASSUME NEW c \in Cycle, TimerCycle(c) \/ CycleStep(c)
          PROVE  result' = result
      BY <3>5 DEF TimerCycle, CycleStep, CycleStarts, CycleChecks, CycleReports, answer
    <3>6. ASSUME NEW c \in Cycle, NEW i \in Slot, ProbeStep(c, i), ~ Insert(c, i)
          PROVE  result' = result
      BY <3>6 DEF ProbeStep, Pop, Answered, GotValue, Unanswered, AppendNew, answer
    <3> QED
      BY <3>1, <3>2, <3>3, <3>4, <3>5, <3>6 DEF Next
  <2>3. DOMAIN result = 1 .. Len(result)
    BY <2>1
  <2>4. \A i \in 1 .. Len(result) - 1 : result'[i] < result'[i + 1]
    BY <2>1, <2>2 DEF Sorted
  <2> QED
    BY <2>2, <2>3, <2>4
<1> QED
  BY InitInv, StepInv, <1>1, PTL DEF Spec, ResultImproves
=============================================================================
