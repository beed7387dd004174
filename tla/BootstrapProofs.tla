-------------------------- MODULE BootstrapProofs ---------------------------
(***************************************************************************)
(* Proofs about the bootstrap node, for any number of nodes, addresses,    *)
(* overlapping goroutines and changes of address.                          *)
(*                                                                         *)
(* ListMatchesMap compares sizes.  What is inductive is that list and map  *)
(* have the same ids (SameIDs) and the list has none of them twice.  That  *)
(* whoever is listed has answered depends on what a goroutine knows        *)
(* between the answer to its ping and its upsert (GoodAnswered).           *)
(***************************************************************************)
EXTENDS Bootstrap, SequenceTheorems, FiniteSetTheorems, TLAPS

(* The list and the map have the same ids.                                 *)
SameIDs ==
    /\ \A i \in DOMAIN nodeIDs : nodeIDs[i] \in DOMAIN peers
    /\ \A id \in DOMAIN peers : \E i \in DOMAIN nodeIDs : nodeIDs[i] = id

(* A goroutine that is about to upsert has had an answer.                  *)
GoodAnswered ==
    \A s \in Slot : job[s].pc = "good" => [id |-> job[s].id, addr |-> job[s].addr] \in answered

JobType ==
    {NoJob} \cup [pc : {"first", "second", "ping", "sent", "good", "bad"}, id : ID, addr : Addr]

(* TypeOK without the length of the list, which follows.                   *)
Types ==
    /\ home \in [ID -> Addr]
    /\ moves \in 0 .. MaxMoves
    /\ DOMAIN peers \subseteq ID
    /\ peers \in [DOMAIN peers -> [addr : Addr, idle : BOOLEAN]]
    /\ nodeIDs \in Seq(ID)
    /\ job \in [Slot -> JobType]
    /\ answered \subseteq Contact
    /\ stopped \in BOOLEAN

(* What upsert and remove keep.                                            *)
ListInv == SameIDs /\ IsInjective(nodeIDs)

(* The inductive invariant.                                                *)
IInv == Types /\ ListInv /\ ListedAnswered /\ GoodAnswered

-----------------------------------------------------------------------------
(* An injective list is no longer than its set of elements, and a set all  *)
(* of whose members are listed is no larger than the list.                 *)
LEMMA Sizes ==
    ASSUME NEW s \in Seq(ID), NEW D \in SUBSET ID
    PROVE  /\ IsInjective(s) => Len(s) <= Cardinality(ID)
           /\ (\A i \in DOMAIN s : s[i] \in D) /\ (\A d \in D : \E i \in DOMAIN s : s[i] = d)
                => Cardinality(D) <= Len(s)
<1>1. Len(s) \in Nat /\ DOMAIN s = 1 .. Len(s) /\ s \in [1 .. Len(s) -> ID]
  BY LenProperties
<1>2. IsFiniteSet(1 .. Len(s)) /\ Cardinality(1 .. Len(s)) = Len(s)
  BY <1>1, FS_Interval
<1>3. ASSUME IsInjective(s) PROVE Len(s) <= Cardinality(ID)
  <2>1. s \in Injection(1 .. Len(s), ID)
    BY <1>1, <1>3 DEF Injection, IsInjective
  <2> QED
    BY <1>2, <2>1, FS_Injection, ConstantsAssumption
<1>4. ASSUME \A i \in DOMAIN s : s[i] \in D, \A d \in D : \E i \in DOMAIN s : s[i] = d
      PROVE  Cardinality(D) <= Len(s)
  <2>1. s \in Surjection(1 .. Len(s), D)
    BY <1>1, <1>4 DEF Surjection
  <2> QED
    BY <1>2, <2>1, FS_Surjection
<1> QED
  BY <1>3, <1>4

(* Taking an id out of a list that has it once.                            *)
LEMMA WithoutProperties ==
    ASSUME NEW s \in Seq(ID), IsInjective(s), NEW k \in DOMAIN s
    PROVE  /\ Without(s, s[k]) \in Seq(ID)
           /\ IsInjective(Without(s, s[k]))
           /\ \A i \in DOMAIN Without(s, s[k]) :
                 Without(s, s[k])[i] # s[k] /\ \E j \in DOMAIN s : Without(s, s[k])[i] = s[j]
           /\ \A j \in DOMAIN s : s[j] # s[k] =>
                 \E i \in DOMAIN Without(s, s[k]) : Without(s, s[k])[i] = s[j]
<1> DEFINE l == SubSeq(s, 1, k - 1)
           r == SubSeq(s, k + 1, Len(s))
           w == l \o r
<1>1. Len(s) \in Nat /\ DOMAIN s = 1 .. Len(s) /\ k \in 1 .. Len(s)
  BY LenProperties
<1>2. Without(s, s[k]) = w
  <2>1. {i \in DOMAIN s : s[i] = s[k]} = {k}
    BY DEF IsInjective
  <2>2. (CHOOSE i \in {k} : \A j \in {k} : i <= j) = k
    BY <1>1
  <2> QED
    BY <2>1, <2>2 DEF Without, RemoveAt
<1>3. l \in Seq(ID) /\ Len(l) = k - 1 /\ \A j \in 1 .. k - 1 : l[j] = s[j]
  BY <1>1, SubSeqProperties, ElementOfSeq, Z3
<1>4. r \in Seq(ID) /\ Len(r) = Len(s) - k /\ \A j \in 1 .. Len(s) - k : r[j] = s[k + j]
  BY <1>1, SubSeqProperties, ElementOfSeq, Z3
<1> HIDE DEF l, r
<1>5. w \in Seq(ID) /\ Len(w) = Len(s) - 1 /\ DOMAIN w = 1 .. Len(s) - 1
  <2>1. w \in Seq(ID) /\ Len(w) = Len(l) + Len(r)
    BY <1>3, <1>4, ConcatProperties
  <2> HIDE DEF w
  <2>2. Len(w) = Len(s) - 1
    BY <1>1, <1>3, <1>4, <2>1
  <2> QED
    BY <2>1, <2>2, LenProperties
<1>6. \A j \in 1 .. Len(s) - 1 : w[j] = IF j < k THEN s[j] ELSE s[j + 1]
  <2> SUFFICES ASSUME NEW j \in 1 .. Len(s) - 1
               PROVE  w[j] = IF j < k THEN s[j] ELSE s[j + 1]
    OBVIOUS
  <2>1. w[j] = IF j <= Len(l) THEN l[j] ELSE r[j - Len(l)]
    BY <1>1, <1>3, <1>4, ConcatProperties
  <2>2. CASE j < k
    BY <1>1, <1>3, <2>1, <2>2
  <2>3. CASE ~ (j < k)
    <3>1. j - (k - 1) \in 1 .. Len(s) - k /\ k + (j - (k - 1)) = j + 1 /\ ~ (j <= k - 1)
      BY <1>1, <2>3
    <3>2. w[j] = r[j - (k - 1)]
      BY <1>3, <2>1, <3>1
    <3> QED
      BY <1>4, <2>3, <3>1, <3>2
  <2> QED
    BY <2>2, <2>3
<1> HIDE DEF w
<1>7. IsInjective(w)
  <2> SUFFICES ASSUME NEW a \in 1 .. Len(s) - 1, NEW b \in 1 .. Len(s) - 1, w[a] = w[b]
               PROVE  a = b
    BY <1>5 DEF IsInjective
  <2> DEFINE at(j) == IF j < k THEN j ELSE j + 1
  <2>1. at(a) \in DOMAIN s /\ at(b) \in DOMAIN s /\ (at(a) = at(b) => a = b)
    BY <1>1
  <2>2. w[a] = s[at(a)] /\ w[b] = s[at(b)]
    BY <1>6
  <2> QED
    BY <2>1, <2>2 DEF IsInjective
<1>8. \A i \in DOMAIN w : w[i] # s[k] /\ \E j \in DOMAIN s : w[i] = s[j]
  BY <1>1, <1>5, <1>6 DEF IsInjective
<1>9. ASSUME NEW j \in DOMAIN s, s[j] # s[k] PROVE \E i \in DOMAIN w : w[i] = s[j]
  <2>1. CASE j < k
    BY <1>1, <1>5, <1>6, <2>1
  <2>2. CASE j > k
    <3>1. j - 1 \in 1 .. Len(s) - 1 /\ ~ (j - 1 < k) /\ (j - 1) + 1 = j
      BY <1>1, <2>2
    <3> QED
      BY <1>5, <1>6, <3>1
  <2> QED
    BY <1>1, <1>9, <2>1, <2>2
<1> QED
  BY <1>2, <1>5, <1>7, <1>8, <1>9

(* upsert of a contact that has answered.                                  *)
LEMMA UpsertInv ==
    ASSUME IInv, NEW c, c.id \in ID, c.addr \in Addr, upsert(c),
           answered \subseteq answered', [id |-> c.id, addr |-> c.addr] \in answered'
    PROVE  /\ DOMAIN peers' \subseteq ID /\ peers' \in [DOMAIN peers' -> [addr : Addr, idle : BOOLEAN]]
           /\ nodeIDs' \in Seq(ID)
           /\ ListInv' /\ ListedAnswered'
<1> USE DEF IInv, Types
<1>1. CASE Listed(c.id)
  <2>1. peers' = [peers EXCEPT ![c.id].idle = FALSE] /\ nodeIDs' = nodeIDs /\ c.id \in DOMAIN peers
    BY <1>1 DEF upsert, Listed
  <2>2. DOMAIN peers' = DOMAIN peers
    BY <2>1
  <2>3. peers' \in [DOMAIN peers -> [addr : Addr, idle : BOOLEAN]]
        /\ \A id \in DOMAIN peers : peers'[id].addr = peers[id].addr
    BY <2>1
  <2>4. ListInv'
    BY <2>1, <2>2 DEF ListInv, SameIDs
  <2>5. ListedAnswered'
    BY <2>2, <2>3 DEF ListedAnswered
  <2> QED
    BY <2>1, <2>2, <2>3, <2>4, <2>5
<1>2. CASE ~ Listed(c.id)
  <2> DEFINE D == DOMAIN peers \cup {c.id}
  <2>1. /\ peers' = [id \in D |-> IF id = c.id THEN [addr |-> c.addr, idle |-> FALSE] ELSE peers[id]]
        /\ nodeIDs' = Append(nodeIDs, c.id) /\ c.id \notin DOMAIN peers
    BY <1>2 DEF upsert, Listed
  <2>2. DOMAIN peers' = D /\ D \subseteq ID
    BY <2>1
  <2>3. peers' \in [D -> [addr : Addr, idle : BOOLEAN]]
    BY <2>1
  <2>4. /\ nodeIDs' \in Seq(ID) /\ Len(nodeIDs') = Len(nodeIDs) + 1
        /\ DOMAIN nodeIDs' = 1 .. Len(nodeIDs) + 1
        /\ nodeIDs'[Len(nodeIDs) + 1] = c.id
        /\ \A i \in 1 .. Len(nodeIDs) : nodeIDs'[i] = nodeIDs[i]
        /\ Len(nodeIDs) \in Nat /\ DOMAIN nodeIDs = 1 .. Len(nodeIDs)
    BY <2>1, AppendProperties, LenProperties
  <2>5. ListInv'
    <3>1. SameIDs'
      <4>1. ASSUME NEW i \in DOMAIN nodeIDs' PROVE nodeIDs'[i] \in DOMAIN peers'
        BY <2>2, <2>4 DEF ListInv, SameIDs
      <4>2. ASSUME NEW id \in DOMAIN peers' PROVE \E i \in DOMAIN nodeIDs' : nodeIDs'[i] = id
        <5>1. CASE id = c.id
          BY <2>4, <5>1
        <5>2. CASE id # c.id
          <6>1. PICK i \in DOMAIN nodeIDs : nodeIDs[i] = id
            BY <2>2, <5>2 DEF ListInv, SameIDs
          <6> QED
            BY <2>4, <6>1
        <5> QED
          BY <5>1, <5>2
      <4> QED
        BY <4>1, <4>2 DEF SameIDs
    <3>2. IsInjective(nodeIDs')
      BY <2>1, <2>4 DEF ListInv, SameIDs, IsInjective
    <3> QED
      BY <3>1, <3>2 DEF ListInv
  <2>6. ListedAnswered'
    BY <2>1, <2>2 DEF ListedAnswered
  <2> QED
    BY <2>2, <2>3, <2>4, <2>5, <2>6
<1> QED
  BY <1>1, <1>2

(* remove.                                                                 *)
LEMMA RemoveInv ==
    ASSUME IInv, NEW c, remove(c), answered' = answered
    PROVE  /\ DOMAIN peers' \subseteq ID /\ peers' \in [DOMAIN peers' -> [addr : Addr, idle : BOOLEAN]]
           /\ nodeIDs' \in Seq(ID)
           /\ ListInv' /\ ListedAnswered'
<1> USE DEF IInv, Types
<1>1. CASE Listed(c.id)
  <2>1. /\ peers' = [id \in DOMAIN peers \ {c.id} |-> peers[id]]
        /\ nodeIDs' = Without(nodeIDs, c.id)
    BY <1>1 DEF remove
  <2>2. PICK k \in DOMAIN nodeIDs : nodeIDs[k] = c.id
    BY <1>1 DEF ListInv, SameIDs, Listed
  <2>3. DOMAIN peers' = DOMAIN peers \ {c.id}
    BY <2>1
  <2>4. peers' \in [DOMAIN peers \ {c.id} -> [addr : Addr, idle : BOOLEAN]]
    BY <2>1
  <2>5. /\ nodeIDs' \in Seq(ID) /\ IsInjective(nodeIDs')
        /\ \A i \in DOMAIN nodeIDs' :
              nodeIDs'[i] # c.id /\ \E j \in DOMAIN nodeIDs : nodeIDs'[i] = nodeIDs[j]
        /\ \A j \in DOMAIN nodeIDs : nodeIDs[j] # c.id =>
              \E i \in DOMAIN nodeIDs' : nodeIDs'[i] = nodeIDs[j]
    BY <2>1, <2>2, WithoutProperties DEF ListInv
  <2>6. ListInv'
    BY <2>3, <2>5 DEF ListInv, SameIDs
  <2>7. ListedAnswered'
    BY <2>1, <2>3 DEF ListedAnswered
  <2> QED
    BY <2>3, <2>4, <2>5, <2>6, <2>7
<1>2. CASE ~ Listed(c.id)
  BY <1>2 DEF remove, ListInv, SameIDs, ListedAnswered
<1> QED
  BY <1>1, <1>2

(* A step that leaves list and map alone.                                  *)
LEMMA ListKept ==
    ASSUME IInv, UNCHANGED <<peers, nodeIDs>>,
           home' \in [ID -> Addr], moves' \in 0 .. MaxMoves, stopped' \in BOOLEAN,
           job' \in [Slot -> JobType],
           answered \subseteq answered', answered' \subseteq Contact,
           GoodAnswered'
    PROVE  IInv'
  BY DEF IInv, Types, ListInv, SameIDs, ListedAnswered

-----------------------------------------------------------------------------
LEMMA InitInv == Init => IInv
<1> SUFFICES ASSUME Init PROVE IInv
  OBVIOUS
<1>1. peers = <<>> /\ nodeIDs = <<>> /\ DOMAIN peers = {} /\ DOMAIN nodeIDs = {}
  BY DEF Init
<1>2. Types
  <2>1. peers \in [DOMAIN peers -> [addr : Addr, idle : BOOLEAN]]
    BY <1>1
  <2>2. nodeIDs \in Seq(ID)
    BY <1>1
  <2>3. moves \in 0 .. MaxMoves
    BY ConstantsAssumption DEF Init
  <2> QED
    BY <1>1, <2>1, <2>2, <2>3 DEF Init, Types, JobType
<1>3. ListInv /\ ListedAnswered
  BY <1>1 DEF ListInv, SameIDs, IsInjective, ListedAnswered
<1>4. GoodAnswered
  BY DEF Init, GoodAnswered, NoJob
<1> QED
  BY <1>2, <1>3, <1>4 DEF IInv

(* What a running goroutine is.                                            *)
LEMMA Running ==
    ASSUME IInv, NEW s \in Slot, job[s].pc # "none"
    PROVE  /\ job[s] \in [pc : {"first", "second", "ping", "sent", "good", "bad"}, id : ID, addr : Addr]
           /\ job[s].id \in ID /\ job[s].addr \in Addr
  BY DEF IInv, Types, JobType, NoJob

(* A goroutine goes on or ends; only one whose node answered is good.      *)
LEMMA JobKept ==
    ASSUME IInv, NEW s \in Slot,
           \/ End(s)
           \/ \E p \in {"first", "second", "ping", "sent", "bad"}, c \in Contact :
                 job' = [job EXCEPT ![s] = Job(p, c)]
           \/ \E c \in Contact : /\ job' = [job EXCEPT ![s] = Job("good", c)]
                                 /\ c \in answered',
           answered \subseteq answered'
    PROVE  job' \in [Slot -> JobType] /\ GoodAnswered'
<1>1. CASE End(s)
  BY <1>1 DEF IInv, Types, JobType, End, NoJob, GoodAnswered
<1>2. ASSUME NEW p \in {"first", "second", "ping", "sent", "bad"}, NEW c \in Contact,
             job' = [job EXCEPT ![s] = Job(p, c)]
      PROVE  job' \in [Slot -> JobType] /\ GoodAnswered'
  BY <1>2 DEF IInv, Types, JobType, Job, Contact, GoodAnswered
<1>3. ASSUME NEW c \in Contact, job' = [job EXCEPT ![s] = Job("good", c)], c \in answered'
      PROVE  job' \in [Slot -> JobType] /\ GoodAnswered'
  <2>1. job' \in [Slot -> JobType]
    BY <1>3 DEF IInv, Types, JobType, Job, Contact
  <2>2. [id |-> c.id, addr |-> c.addr] = c
    BY DEF Contact
  <2> QED
    BY <1>3, <2>1, <2>2 DEF IInv, Types, Job, GoodAnswered
<1> QED
  BY <1>1, <1>2, <1>3

(* Each step of a goroutine.                                               *)
LEMMA JobInv ==
    ASSUME IInv, NEW s \in Slot, JobStep(s)
    PROVE  IInv'
<1> DEFINE c == [id |-> job[s].id, addr |-> job[s].addr]
<1>1. job[s].pc # "none" /\ c \in Contact /\ c.id = job[s].id /\ c.addr = job[s].addr
  <2>1. job[s].pc # "none"
    BY DEF JobStep, LookUp, Ping, Answers, TimesOut, PingStops, PingEnds
  <2> QED
    BY <2>1, Running DEF Contact
<1>2. \A p : Job(p, job[s]) = Job(p, c)
  BY DEF Job
<1> HIDE DEF c
<1>3. home' = home /\ moves' = moves /\ stopped' = stopped
  BY DEF JobStep, LookUp, Ping, Answers, TimesOut, PingStops, PingEnds
<1>4. ASSUME LookUp(s) \/ Ping(s) \/ TimesOut(s) \/ PingStops(s) PROVE IInv'
  <2>1. UNCHANGED <<peers, nodeIDs, answered>>
    BY <1>4 DEF LookUp, Ping, TimesOut, PingStops
  <2>2. \/ End(s)
        \/ \E p \in {"first", "second", "ping", "sent", "bad"} : job' = [job EXCEPT ![s] = Job(p, c)]
    BY <1>2, <1>4 DEF LookUp, Ping, TimesOut, PingStops, GoTo
  <2>3. job' \in [Slot -> JobType] /\ GoodAnswered'
    BY <1>1, <2>1, <2>2, JobKept
  <2> QED
    BY <1>3, <2>1, <2>3, ListKept DEF IInv, Types
<1>5. ASSUME Answers(s) PROVE IInv'
  <2>1. answered' = answered \cup {c} /\ UNCHANGED <<peers, nodeIDs>>
    BY <1>5 DEF Answers, IsAt, c
  <2>2. job' = [job EXCEPT ![s] = Job("good", c)]
    BY <1>2, <1>5 DEF Answers, GoTo
  <2>3. job' \in [Slot -> JobType] /\ GoodAnswered'
    BY <1>1, <2>1, <2>2, JobKept
  <2> QED
    BY <1>1, <1>3, <2>1, <2>3, ListKept DEF IInv, Types
<1>6. ASSUME PingEnds(s) PROVE IInv'
  <2>1. End(s) /\ answered' = answered
    BY <1>6 DEF PingEnds
  <2>2. job' \in [Slot -> JobType] /\ GoodAnswered'
    BY <2>1, JobKept
  <2>3. /\ DOMAIN peers' \subseteq ID /\ peers' \in [DOMAIN peers' -> [addr : Addr, idle : BOOLEAN]]
        /\ nodeIDs' \in Seq(ID)
        /\ ListInv' /\ ListedAnswered'
    <3>1. CASE job[s].pc = "good"
      <4>1. upsert(job[s]) /\ [id |-> job[s].id, addr |-> job[s].addr] \in answered'
        BY <1>6, <2>1, <3>1 DEF PingEnds, IInv, GoodAnswered
      <4> QED
        BY <1>1, <2>1, <4>1, Running, UpsertInv
    <3>2. CASE job[s].pc # "good"
      BY <1>6, <2>1, <3>2, RemoveInv DEF PingEnds
    <3> QED
      BY <3>1, <3>2
  <2> QED
    BY <1>3, <2>1, <2>2, <2>3 DEF IInv, Types
<1> QED
  BY <1>4, <1>5, <1>6 DEF JobStep

(* A request of another node starts a goroutine.                           *)
LEMMA RequestInv ==
    ASSUME IInv, NEW s \in Slot, NEW id \in ID, Request(s, id)
    PROVE  IInv'
<1>1. [id |-> id, addr |-> home[id]] \in Contact
  BY DEF IInv, Types, Contact
<1>2. job' \in [Slot -> JobType] /\ GoodAnswered'
  BY <1>1, JobKept DEF Request
<1> QED
  BY <1>2, ListKept DEF Request, IInv, Types

(* check starts one for every peer that is due.                            *)
LEMMA CheckInv == ASSUME IInv, Check PROVE IInv'
<1>1. PICK f \in [Due -> {s \in Slot : job[s] = NoJob}] :
        job' = [s \in Slot |->
                 IF \E id \in Due : f[id] = s
                 THEN LET id == CHOOSE i \in Due : f[i] = s
                      IN  Job("ping", [id |-> id, addr |-> peers[id].addr])
                 ELSE job[s]]
  BY DEF Check
<1>2. \A id \in Due : [id |-> id, addr |-> peers[id].addr] \in Contact
  BY DEF Due, Contact, IInv, Types
<1>3. ASSUME NEW s \in Slot
      PROVE  job'[s] = job[s] \/ \E c \in Contact : job'[s] = Job("ping", c)
  <2>1. CASE \E id \in Due : f[id] = s
    <3> DEFINE i == CHOOSE id \in Due : f[id] = s
    <3>1. i \in Due
      BY <2>1
    <3>2. job'[s] = Job("ping", [id |-> i, addr |-> peers[i].addr])
      BY <1>1, <2>1
    <3> QED
      BY <1>2, <3>1, <3>2
  <2>2. CASE ~ \E id \in Due : f[id] = s
    BY <1>1, <2>2
  <2> QED
    BY <2>1, <2>2
<1>4. DOMAIN job' = Slot /\ job' = [s \in Slot |-> job'[s]]
  BY <1>1
<1>5. ASSUME NEW s \in Slot
      PROVE  job'[s] \in JobType
  <2>1. job[s] \in JobType
    BY DEF IInv, Types
  <2>2. \A c \in Contact : Job("ping", c) \in JobType
    BY DEF JobType, Job, Contact
  <2> QED
    BY <1>3, <2>1, <2>2
<1>6. GoodAnswered'
  <2>1. answered' = answered
    BY DEF Check
  <2>2. \A c : Job("ping", c).pc = "ping"
    BY DEF Job
  <2> SUFFICES ASSUME NEW s \in Slot, job'[s].pc = "good"
               PROVE  [id |-> job'[s].id, addr |-> job'[s].addr] \in answered'
    BY DEF GoodAnswered
  <2>3. job'[s] = job[s]
    BY <1>3, <2>2
  <2> QED
    BY <2>1, <2>3 DEF IInv, GoodAnswered
<1>7. job' \in [Slot -> JobType]
  BY <1>4, <1>5
<1> QED
  BY <1>6, <1>7, ListKept DEF Check, IInv, Types

(* A contact is added by hand.                                             *)
LEMMA AddInv == ASSUME IInv, NEW c \in Contact, Add(c) PROVE IInv'
<1>1. upsert(c) /\ answered' = answered \cup {c} /\ UNCHANGED <<home, moves, job, stopped>>
  BY DEF Add
<1>2. c.id \in ID /\ c.addr \in Addr /\ [id |-> c.id, addr |-> c.addr] = c
  BY DEF Contact
<1>3. /\ DOMAIN peers' \subseteq ID /\ peers' \in [DOMAIN peers' -> [addr : Addr, idle : BOOLEAN]]
      /\ nodeIDs' \in Seq(ID)
      /\ ListInv' /\ ListedAnswered'
  BY <1>1, <1>2, UpsertInv
<1> QED
  BY <1>1, <1>3 DEF IInv, Types, GoodAnswered

(* Time passes: a peer becomes idle.                                       *)
LEMMA IdleInv == ASSUME IInv, NEW id \in ID, Idle(id) PROVE IInv'
<1> USE DEF IInv, Types
<1>1. /\ peers' = [peers EXCEPT ![id].idle = TRUE] /\ id \in DOMAIN peers
      /\ UNCHANGED <<home, moves, nodeIDs, job, answered, stopped>>
  BY DEF Idle, Listed
<1>2. DOMAIN peers' = DOMAIN peers
  BY <1>1
<1>3. /\ peers' \in [DOMAIN peers -> [addr : Addr, idle : BOOLEAN]]
      /\ \A i \in DOMAIN peers : peers'[i].addr = peers[i].addr
  BY <1>1
<1>4. ListInv' /\ ListedAnswered'
  BY <1>1, <1>2, <1>3 DEF ListInv, SameIDs, ListedAnswered
<1> QED
  BY <1>1, <1>2, <1>3, <1>4 DEF GoodAnswered

(* A node moves, the bootstrap node is stopped, or nothing happens.        *)
LEMMA RestInv ==
    ASSUME IInv, Stop \/ UNCHANGED vars \/ \E id \in ID, a \in Addr : Move(id, a)
    PROVE  IInv'
<1>1. UNCHANGED <<peers, nodeIDs, job, answered>>
  BY DEF Stop, vars, Move
<1>2. home' \in [ID -> Addr] /\ moves' \in 0 .. MaxMoves /\ stopped' \in BOOLEAN
  <2>1. ASSUME NEW id \in ID, NEW a \in Addr, Move(id, a)
        PROVE  home' \in [ID -> Addr] /\ moves' \in 0 .. MaxMoves /\ stopped' \in BOOLEAN
    BY <2>1, ConstantsAssumption DEF Move, IInv, Types
  <2>2. CASE Stop \/ UNCHANGED vars
    BY <2>2 DEF Stop, vars, IInv, Types
  <2> QED
    BY <2>1, <2>2
<1>3. GoodAnswered'
  BY <1>1 DEF IInv, GoodAnswered
<1> QED
  BY <1>1, <1>2, <1>3, ListKept DEF IInv, Types

LEMMA StepInv == IInv /\ [Next]_vars => IInv'
  BY JobInv, RequestInv, CheckInv, AddInv, IdleInv, RestInv DEF Next

(* The invariant implies the properties.                                   *)
LEMMA Consequences == IInv => TypeOK /\ ListMatchesMap
<1> SUFFICES ASSUME IInv PROVE TypeOK /\ ListMatchesMap
  OBVIOUS
<1>1. Len(nodeIDs) <= Cardinality(ID) /\ Cardinality(DOMAIN peers) <= Len(nodeIDs)
  BY Sizes DEF IInv, Types, ListInv, SameIDs
<1> QED
  BY <1>1 DEF IInv, Types, JobType, ListInv, SameIDs, TypeOK, ListMatchesMap, Gettable, Listed

-----------------------------------------------------------------------------
(* The invariant holds in every state of every run of the bootstrap node.  *)
THEOREM Invariance == Spec => []IInv
  BY InitInv, StepInv, PTL DEF Spec

(* The state has its shape; in particular the list is no longer than there *)
(* are nodes.                                                              *)
THEOREM TypeCorrect == Spec => []TypeOK
  BY Invariance, Consequences, PTL

(* b.nodeIDs and b.peers agree, however many pings of a node overlap: get  *)
(* finds a peer at each place it looks up.                                 *)
THEOREM ListIsMap == Spec => []ListMatchesMap
  BY Invariance, Consequences, PTL

(* Whoever is given to others has answered at the address given.           *)
THEOREM OnlyAnswering == Spec => []ListedAnswered
  BY Invariance, PTL DEF IInv
=============================================================================
