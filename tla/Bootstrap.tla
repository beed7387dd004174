------------------------------ MODULE Bootstrap -----------------------------
(***************************************************************************)
(* The bootstrap node (dht/bootstrap.go): a node that keeps a list of the  *)
(* nodes that answer its pings, and gives some of them to whoever asks.    *)
(* Requests of unknown nodes and checks of idle ones start goroutines that *)
(* ping and then change the list.                                          *)
(*                                                                         *)
(* Pings and answers may be lost or late, and a node may change its        *)
(* address.  The sending of a ping is SendAsync, of module Node; the       *)
(* node's own requests never get here.                                     *)
(***************************************************************************)
EXTENDS Integers, Sequences, SequencesExt, FiniteSets

CONSTANTS
    ID,             \* the ids of other nodes
    Addr,           \* UDP addresses
    Slot,           \* bound: goroutines that run at once
    MaxMoves        \* bound: changes of address

ASSUME ConstantsAssumption ==
    /\ IsFiniteSet(ID)
    /\ Addr # {}
    /\ MaxMoves \in Nat

VARIABLES
    home,           \* where each node really is
    moves,          \* changes of address so far
    peers,          \* b.peers: the address and whether it is due to be pinged
    nodeIDs,        \* b.nodeIDs
    job,            \* the goroutines
    answered,       \* history: contacts that answered a ping
    stopped         \* b.grp.Ch() is closed

vars == <<home, moves, peers, nodeIDs, job, answered, stopped>>

-----------------------------------------------------------------------------
Contact == [id : ID, addr : Addr]
NoJob   == [pc |-> "none"]
Job(pc, c) == [pc |-> pc, id |-> c.id, addr |-> c.addr]

Listed(id) == id \in DOMAIN peers

(* job[s] goes on at pc, or ends.                                          *)
GoTo(s, pc) == job' = [job EXCEPT ![s] = Job(pc, job[s])]
End(s)      == job' = [job EXCEPT ![s] = NoJob]

Init ==
    /\ home \in [ID -> Addr]
    /\ moves = 0
    /\ peers = <<>>
    /\ nodeIDs = <<>>
    /\ job = [s \in Slot |-> NoJob]
    /\ answered = {}
    /\ stopped = FALSE

-----------------------------------------------------------------------------
(* The list.                                                               *)

(* A known peer is touched and keeps its address.                          *)
upsert(c) ==
    IF Listed(c.id)
    THEN peers' = [peers EXCEPT ![c.id].idle = FALSE] /\ UNCHANGED nodeIDs
    ELSE /\ peers' = [id \in DOMAIN peers \cup {c.id} |->
                        IF id = c.id THEN [addr |-> c.addr, idle |-> FALSE] ELSE peers[id]]
         /\ nodeIDs' = Append(nodeIDs, c.id)

(* A slip of remove: the id stays.                                         *)
WithoutNothing(s, id) == s

(* s without the first occurrence of id.                                   *)
Without(s, id) ==
    LET at == {i \in DOMAIN s : s[i] = id}
    IN  IF at = {} THEN s ELSE RemoveAt(s, CHOOSE i \in at : \A j \in at : i <= j)

remove(c) ==
    IF Listed(c.id)
    THEN /\ peers' = [id \in DOMAIN peers \ {c.id} |-> peers[id]]
         /\ nodeIDs' = Without(nodeIDs, c.id)
    ELSE UNCHANGED <<peers, nodeIDs>>

(* get: limit is the smaller of both numbers; each place of the shuffled   *)
(* list is looked up in the map.                                           *)
Gettable == /\ Cardinality(DOMAIN peers) <= Len(nodeIDs)
            /\ \A i \in DOMAIN nodeIDs : Listed(nodeIDs[i])

(* Add, by hand; bound: of a contact that never answered, and once.        *)
Add(c) ==
    /\ c \notin answered
    /\ upsert(c)
    /\ answered' = answered \cup {c}
    /\ UNCHANGED <<home, moves, job, stopped>>

-----------------------------------------------------------------------------
(* handleRequest's goroutine, and ping.                                    *)

(* A request comes from where its sender is.                               *)
Request(s, id) ==
    /\ job[s] = NoJob
    /\ job' = [job EXCEPT ![s] = Job("first", [id |-> id, addr |-> home[id]])]
    /\ UNCHANGED <<home, moves, peers, nodeIDs, answered, stopped>>

(* A known sender is not pinged: looked up at once, and again after        *)
(* initialPingInterval.                                                    *)
LookUp(s) ==
    /\ job[s].pc \in {"first", "second"}
    /\ IF Listed(job[s].id) THEN End(s)
       ELSE GoTo(s, IF job[s].pc = "first" THEN "second" ELSE "ping")
    /\ UNCHANGED <<home, moves, peers, nodeIDs, answered, stopped>>

(* A slip of check: nobody is due.                                         *)
DueNever == {}

Due == {id \in DOMAIN peers : peers[id].idle}

(* check: every peer that was not active lately is pinged.                 *)
Check ==
    /\ Due # {}
    /\ \E f \in [Due -> {s \in Slot : job[s] = NoJob}] :
        /\ \A i, j \in Due : f[i] = f[j] => i = j
        /\ job' = [s \in Slot |->
                    IF \E id \in Due : f[id] = s
                    THEN LET id == CHOOSE i \in Due : f[i] = s
                         IN  Job("ping", [id |-> id, addr |-> peers[id].addr])
                    ELSE job[s]]
    /\ UNCHANGED <<home, moves, peers, nodeIDs, answered, stopped>>

Ping(s) ==
    /\ job[s].pc = "ping"
    /\ GoTo(s, "sent")
    /\ UNCHANGED <<home, moves, peers, nodeIDs, answered, stopped>>

(* A slip of txFind: an answer counts whatever address it comes from.      *)
IsAtAnywhere(c) == TRUE

(* The node is where the ping goes.                                        *)
IsAt(c) == home[c.id] = c.addr

Answers(s) ==
    /\ job[s].pc = "sent" /\ IsAt(job[s])
    /\ answered' = answered \cup {[id |-> job[s].id, addr |-> home[job[s].id]]}
    /\ GoTo(s, "good")
    /\ UNCHANGED <<home, moves, peers, nodeIDs, stopped>>

TimesOut(s) ==
    /\ job[s].pc = "sent"
    /\ GoTo(s, "bad")
    /\ UNCHANGED <<home, moves, peers, nodeIDs, answered, stopped>>

PingStops(s) ==
    /\ job[s].pc = "sent" /\ stopped
    /\ End(s)
    /\ UNCHANGED <<home, moves, peers, nodeIDs, answered, stopped>>

(* "if the node responds, it is added to the list. otherwise, it is        *)
(* removed"                                                                *)
PingEnds(s) ==
    /\ job[s].pc \in {"good", "bad"}
    /\ IF job[s].pc = "good" THEN upsert(job[s]) ELSE remove(job[s])
    /\ End(s)
    /\ UNCHANGED <<home, moves, answered, stopped>>

-----------------------------------------------------------------------------
(* checkInterval passes without a touch.                                   *)
Idle(id) ==
    /\ Listed(id) /\ ~ peers[id].idle
    /\ peers' = [peers EXCEPT ![id].idle = TRUE]
    /\ UNCHANGED <<home, moves, nodeIDs, job, answered, stopped>>

Move(id, a) ==
    /\ moves < MaxMoves /\ home[id] # a
    /\ home' = [home EXCEPT ![id] = a]
    /\ moves' = moves + 1
    /\ UNCHANGED <<peers, nodeIDs, job, answered, stopped>>

Stop ==
    /\ ~ stopped
    /\ stopped' = TRUE
    /\ UNCHANGED <<home, moves, peers, nodeIDs, job, answered>>

JobStep(s) == LookUp(s) \/ Ping(s) \/ Answers(s) \/ TimesOut(s) \/ PingStops(s) \/ PingEnds(s)

Next ==
    \/ Check \/ Stop
    \/ \E c \in Contact : Add(c)
    \/ \E s \in Slot : JobStep(s) \/ \E id \in ID : Request(s, id)
    \/ \E id \in ID : Idle(id) \/ \E a \in Addr : Move(id, a)

(* Goroutines run and timers fire; nodes keep sending requests, and a node *)
(* that is pinged again and again where it is answers again and again.     *)
Fairness ==
    /\ SF_vars(Check)
    /\ \A s \in Slot : WF_vars(JobStep(s))
    /\ \A id \in ID :
        /\ WF_vars(Idle(id))
        /\ SF_vars(\E s \in Slot : Request(s, id))
        /\ SF_vars(\E s \in Slot : job[s] # NoJob /\ job[s].id = id /\ Answers(s))

Spec == Init /\ [][Next]_vars /\ Fairness

-----------------------------------------------------------------------------
(* Properties.                                                             *)

(* Shape of the state.                                                     *)
TypeOK ==
    /\ home \in [ID -> Addr]
    /\ moves \in 0 .. MaxMoves
    /\ DOMAIN peers \subseteq ID
    /\ peers \in [DOMAIN peers -> [addr : Addr, idle : BOOLEAN]]
    /\ nodeIDs \in Seq(ID) /\ Len(nodeIDs) <= Cardinality(ID)
    /\ job \in [Slot -> {NoJob} \cup
                    [pc : {"first", "second", "ping", "sent", "good", "bad"}, id : ID, addr : Addr]]
    /\ answered \subseteq Contact
    /\ stopped \in BOOLEAN

(* The list for random choice and the map agree, though pings of one node  *)
(* may overlap, succeed and fail in any order: get never runs out of the   *)
(* list and never finds an id without a peer.                              *)
ListMatchesMap ==
    /\ Gettable
    /\ IsInjective(nodeIDs)

(* Whoever is given to others has answered a ping at the very address that *)
(* is given, or was added by hand.                                         *)
ListedAnswered == \A id \in DOMAIN peers : [id |-> id, addr |-> peers[id].addr] \in answered

(* A node that changes its address is listed there in the end: the old     *)
(* entry hides the new address only until its ping fails.                  *)
AddressHeals ==
    \A id \in ID : []<>(stopped \/ (Listed(id) /\ peers[id].addr = home[id]))
=============================================================================
