---------------------------- MODULE ContactFinder ---------------------------
(***************************************************************************)
(* The iterative search of the DHT (dht/node_finder.go): FindContacts runs *)
(* cycles of concurrent probes, each of which asks the closest node that   *)
(* was not asked yet.  Cycles start further cycles, a timer starts more of *)
(* them, and the stop group of the search ends it.                         *)
(*                                                                         *)
(* Data abstractions: a node is known by its distance from the target,     *)
(* which no two nodes share; so the closest of some nodes is their         *)
(* minimum, and the sorted shortlist is a set whose minimum comes first.   *)
(* What a node answers is a constant; that it answers is not.              *)
(***************************************************************************)
EXTENDS Integers, Sequences, FiniteSets, FiniteSetsExt

CONSTANTS
    Node,           \* nodes, as distances from the target
    Self,           \* this node, cf.node.id
    Table,          \* the nodes in its routing table
    Knows,          \* Knows[n]: the contacts n answers with
    Holders,        \* the nodes that answer findValue with the value
    FindValue,      \* cf.findValue
    Alpha,          \* alpha: probes of a cycle
    BucketSize,     \* bucketSize: probes of a big cycle, contacts of a result
    Cycle           \* bound: cycles that run at once

ASSUME ConstantsAssumption ==
    /\ Node \subseteq Nat /\ IsFiniteSet(Node)
    /\ Self \in Node
    /\ Table \subseteq Node \ {Self}
    /\ Knows \in [Node -> SUBSET Node]
    /\ Holders \subseteq Node
    /\ FindValue \in BOOLEAN
    /\ BucketSize \in Nat \ {0}
    /\ Alpha \in 1 .. BucketSize

VARIABLES
    shortlist,          \* contacts to ask
    shortlistAdded,     \* contacts that are or were in the shortlist
    activeContacts,     \* contacts that answered, by distance
    findValueResult,    \* whether the value was found
    closestContact,     \* the closest contact heard of
    notGettingCloser,   \* a big cycle ran without improvement
    stopped,            \* cf.grp.Ch() is closed
    cycle,              \* the running cycles
    probe,              \* their probes
    find,               \* Find: "loop", "returned", or "failed"
    result,             \* the contacts it returned
    shared              \* result and activeContacts share an array

lists  == <<shortlist, shortlistAdded>>
search == <<findValueResult, closestContact, notGettingCloser, stopped>>
answer == <<find, result, shared>>
vars   == <<lists, activeContacts, search, cycle, probe, answer>>

-----------------------------------------------------------------------------
NoContact == -1                         \* a nil *Contact

Slot == 1 .. BucketSize

Idle     == [pc |-> "idle", big |-> FALSE, closest |-> NoContact, foundCloser |-> FALSE]
NewCycle(big) == [Idle EXCEPT !.pc = "start", !.big = big]
NoProbe  == [pc |-> "none", contact |-> NoContact]
NewProbe == [pc |-> "pop", contact |-> NoContact]

Closer(c, d) == d = NoContact \/ c < d

(* closest                                                                 *)
closest(contacts) == IF contacts = {} THEN NoContact ELSE Min(contacts)

Kept(contacts) == SubSeq(contacts, 1, Min({Len(contacts), BucketSize}))

(* The closest of the routing table: rt.GetClosest(cf.target, alpha).      *)
GetClosest == {n \in Table : Cardinality({m \in Table : m < n}) < Alpha}

(* Find starts: the shortlist is filled, or there is nobody to ask.        *)
Init ==
    /\ shortlist = GetClosest
    /\ shortlistAdded = GetClosest
    /\ activeContacts = <<>>
    /\ findValueResult = FALSE
    /\ closestContact = NoContact
    /\ notGettingCloser = FALSE
    /\ stopped = FALSE
    /\ \E first \in Cycle :
        cycle = [c \in Cycle |-> IF c = first /\ GetClosest # {} THEN NewCycle(FALSE) ELSE Idle]
    /\ probe = [c \in Cycle |-> [i \in Slot |-> NoProbe]]
    /\ find = IF GetClosest = {} THEN "failed" ELSE "loop"
    /\ result = <<>>
    /\ shared = FALSE

-----------------------------------------------------------------------------
(* Find, after the start.                                                  *)

(* case <-time.After(timeout): one more cycle.                             *)
TimerCycle(c) ==
    /\ find = "loop"
    /\ cycle[c].pc = "idle"
    /\ cycle' = [cycle EXCEPT ![c] = NewCycle(FALSE)]
    /\ UNCHANGED <<lists, activeContacts, search, probe, answer>>

(* case <-cf.grp.Ch(): Find takes what was found.  cf.Stop() waits for the *)
(* goroutines of cf.grp, of which there are none, and Find returns.        *)
FindReturns ==
    /\ find = "loop" /\ stopped
    /\ find' = "returned"
    /\ result' = IF findValueResult THEN <<>> ELSE Kept(activeContacts)
    /\ shared' = (~ findValueResult /\ activeContacts # <<>>)
    /\ UNCHANGED <<lists, activeContacts, search, cycle, probe>>

(* The parent group is stopped: the DHT or the node shuts down.            *)
ParentStops ==
    /\ ~ stopped
    /\ stopped' = TRUE
    /\ UNCHANGED <<lists, activeContacts, findValueResult, closestContact,
                   notGettingCloser, cycle, probe, answer>>

-----------------------------------------------------------------------------
(* cycle                                                                   *)

(* It reads the closest contact and starts its probes.                     *)
CycleStarts(c) ==
    /\ cycle[c].pc = "start"
    /\ cycle' = [cycle EXCEPT ![c].pc = "run", ![c].closest = closestContact]
    /\ LET limit == IF cycle[c].big THEN BucketSize ELSE Alpha
       IN  probe' = [probe EXCEPT ![c] = [i \in Slot |-> IF i <= limit THEN NewProbe ELSE NoProbe]]
    /\ UNCHANGED <<lists, activeContacts, search, answer>>

Probed(c) == \A i \in Slot : probe[c][i] = NoProbe

isSearchFinished ==
    \/ findValueResult
    \/ stopped
    \/ notGettingCloser
    \/ Len(activeContacts) >= BucketSize

(* All its probes are back: is the search finished?                        *)
CycleChecks(c) ==
    /\ cycle[c].pc = "run" /\ Probed(c)
    /\ IF isSearchFinished
       THEN stopped' = TRUE /\ cycle' = [cycle EXCEPT ![c] = Idle]
       ELSE cycle' = [cycle EXCEPT ![c].pc = "report"] /\ UNCHANGED stopped
    /\ UNCHANGED <<lists, activeContacts, findValueResult, closestContact,
                   notGettingCloser, probe, answer>>

(* A slip of cycle: no second look at closestContact under the lock.       *)
ImprovedUnchecked(c) == cycle[c].closest

(* "have to check again after locking in case other probes found a closer  *)
(* one in the meantime"                                                    *)
Improved(c) ==
    IF Closer(cycle[c].closest, closestContact) THEN cycle[c].closest ELSE closestContact

(* A slip of cycle: a big cycle without improvement is forgotten.          *)
GaveUpNever(c) == FALSE

(* "big cycle ran and there was no improvement, so we're done"             *)
GaveUp(c) == ~ cycle[c].foundCloser /\ cycle[c].big

(* After an improvement another cycle starts, without one a big cycle, and *)
(* after a big cycle without one none.                                     *)
CycleReports(c) ==
    /\ cycle[c].pc = "report"
    /\ closestContact' = IF cycle[c].foundCloser THEN Improved(c) ELSE closestContact
    /\ notGettingCloser' = (notGettingCloser \/ GaveUp(c))
    /\ cycle' = [cycle EXCEPT ![c] = IF cycle[c].foundCloser THEN NewCycle(FALSE)
                                     ELSE IF ~ cycle[c].big THEN NewCycle(TRUE)
                                     ELSE Idle]
    /\ UNCHANGED <<lists, activeContacts, findValueResult, stopped, probe, answer>>

-----------------------------------------------------------------------------
(* probe                                                                   *)

ProbeAt(c, i, p) == probe' = [probe EXCEPT ![c][i] = p]

Askable(n) == n # Self

(* popFromShortlist: the closest contact is asked, unless it is this node; *)
(* without one the probe is over.                                          *)
Pop(c, i) ==
    LET first == closest(shortlist) IN
    /\ probe[c][i].pc = "pop"
    /\ shortlist' = shortlist \ {first}
    /\ ProbeAt(c, i, IF first # NoContact /\ Askable(first)
                     THEN [pc |-> "wait", contact |-> first] ELSE NoProbe)
    /\ UNCHANGED <<shortlistAdded, activeContacts, search, cycle, answer>>

HasValue(n) == FindValue /\ n \in Holders

(* The node answers with contacts.                                         *)
Answered(c, i) ==
    /\ probe[c][i].pc = "wait" /\ ~ HasValue(probe[c][i].contact)
    /\ ProbeAt(c, i, [probe[c][i] EXCEPT !.pc = "insert"])
    /\ UNCHANGED <<lists, activeContacts, search, cycle, answer>>

(* It answers with the value: the search stops.                            *)
GotValue(c, i) ==
    /\ probe[c][i].pc = "wait" /\ HasValue(probe[c][i].contact)
    /\ findValueResult' = TRUE
    /\ stopped' = TRUE
    /\ ProbeAt(c, i, NoProbe)
    /\ UNCHANGED <<lists, activeContacts, closestContact, notGettingCloser, cycle, answer>>

(* The request times out, or the search is stopped.                        *)
Unanswered(c, i) ==
    /\ probe[c][i].pc = "wait"
    /\ ProbeAt(c, i, NoProbe)
    /\ UNCHANGED <<lists, activeContacts, search, cycle, answer>>

(* A slip of insertIntoActiveList: the contact goes before the first       *)
(* contact that is closer.                                                 *)
InsertedReversed(s, n) ==
    LET at == Min({i \in DOMAIN s : s[i] < n} \cup {Len(s) + 1})
    IN  SubSeq(s, 1, at - 1) \o <<n>> \o SubSeq(s, at, Len(s))

(* The list with n before the first contact that is farther away.          *)
Inserted(s, n) ==
    LET at == Min({i \in DOMAIN s : n < s[i]} \cup {Len(s) + 1})
    IN  SubSeq(s, 1, at - 1) \o <<n>> \o SubSeq(s, at, Len(s))

(* append makes a new array: the old one has room for 1, 2, 4, ...         *)
Grows(s) == s = <<>> \/ \E k \in 0 .. Len(s) : Len(s) = 2 ^ k

(* insertIntoActiveList: in place if the array has room, where a result    *)
(* that was returned may be, too.                                          *)
Insert(c, i) ==
    LET new == Inserted(activeContacts, probe[c][i].contact) IN
    /\ probe[c][i].pc = "insert"
    /\ activeContacts' = new
    /\ result' = IF shared /\ ~ Grows(activeContacts) THEN SubSeq(new, 1, Len(result)) ELSE result
    /\ shared' = (shared /\ ~ Grows(activeContacts))
    /\ ProbeAt(c, i, [probe[c][i] EXCEPT !.pc = "append"])
    /\ UNCHANGED <<lists, search, cycle, find>>

(* A slip of appendNewToShortlist: only the shortlist itself is looked at. *)
NewInShortlist(contacts) == contacts \ shortlist

New(contacts)   == contacts \ shortlistAdded
Added(contacts) == shortlistAdded \cup contacts

(* appendNewToShortlist, and the closest of the answer goes to the cycle.  *)
AppendNew(c, i) ==
    LET contacts == Knows[probe[c][i].contact]
        best     == closest(contacts)
    IN
    /\ probe[c][i].pc = "append"
    /\ shortlist' = shortlist \cup New(contacts)
    /\ shortlistAdded' = Added(contacts)
    /\ cycle' = IF best # NoContact /\ Closer(best, cycle[c].closest)
                THEN [cycle EXCEPT ![c].closest = best, ![c].foundCloser = TRUE]
                ELSE cycle
    /\ ProbeAt(c, i, NoProbe)
    /\ UNCHANGED <<activeContacts, search, answer>>

-----------------------------------------------------------------------------
ProbeStep(c, i) ==
    \/ Pop(c, i) \/ Answered(c, i) \/ GotValue(c, i) \/ Unanswered(c, i)
    \/ Insert(c, i) \/ AppendNew(c, i)

CycleStep(c) == CycleStarts(c) \/ CycleChecks(c) \/ CycleReports(c)

Next ==
    \/ FindReturns \/ ParentStops
    \/ \E c \in Cycle :
        \/ TimerCycle(c) \/ CycleStep(c)
        \/ \E i \in Slot : ProbeStep(c, i)

(* Goroutines run, the timer fires, and every request ends (CallsEnd of    *)
(* module Node).  Nobody has to answer, and nobody has to shut down.       *)
Fairness ==
    /\ WF_vars(FindReturns)
    /\ WF_vars(\E c \in Cycle : TimerCycle(c))
    /\ \A c \in Cycle : WF_vars(CycleStep(c)) /\ \A i \in Slot : WF_vars(ProbeStep(c, i))

Spec == Init /\ [][Next]_vars /\ Fairness

-----------------------------------------------------------------------------
(* Properties.                                                             *)

(* Shape of the state.                                                     *)
TypeOK ==
    /\ shortlist \subseteq shortlistAdded
    /\ shortlistAdded \subseteq Node
    /\ activeContacts \in Seq(Node)
    /\ findValueResult \in BOOLEAN
    /\ closestContact \in Node \cup {NoContact}
    /\ notGettingCloser \in BOOLEAN
    /\ stopped \in BOOLEAN
    /\ cycle \in [Cycle -> [pc : {"idle", "start", "run", "report"}, big : BOOLEAN,
                            closest : Node \cup {NoContact}, foundCloser : BOOLEAN]]
    /\ probe \in [Cycle -> [Slot -> [pc : {"none", "pop", "wait", "insert", "append"},
                                     contact : Node \cup {NoContact}]]]
    /\ find \in {"loop", "returned", "failed"}
    /\ result \in Seq(Node) /\ Len(result) <= BucketSize
    /\ shared \in BOOLEAN

(* The probes that hold a contact which is not in the active list yet.     *)
Asking == {p \in Cycle \X Slot : probe[p[1]][p[2]].pc \in {"wait", "insert"}}

(* Nobody is asked twice, although probes of several cycles take contacts  *)
(* from one shortlist and put the same contacts into it: a contact waits   *)
(* in the shortlist, is asked by one probe, or has answered, and then is   *)
(* in its place among the active contacts.  Find returns the first         *)
(* bucketSize of these: they are sorted whatever order the answers come    *)
(* in, and the node itself, on which announce and join rely, is not there. *)
AskedOnce ==
    /\ TypeOK
    /\ \A p, q \in Asking : p # q => probe[p[1]][p[2]].contact # probe[q[1]][q[2]].contact
    /\ \A p \in Asking : LET n == probe[p[1]][p[2]].contact
                         IN  n \notin shortlist /\ \A i \in DOMAIN activeContacts : activeContacts[i] # n
    /\ \A i \in DOMAIN activeContacts : activeContacts[i] \notin shortlist
    /\ \A i, j \in DOMAIN activeContacts : i < j => activeContacts[i] < activeContacts[j]
    /\ \A i \in DOMAIN activeContacts : activeContacts[i] # Self

(* The closest contact never gets farther away, although cycles that       *)
(* overlap compare their finds with an old value of it.                    *)
ClosestImproves ==
    [][closestContact # NoContact => closestContact' <= closestContact /\ closestContact' # NoContact]_vars

(* Find returns, even if nobody ever answers: the cycles run out of        *)
(* contacts or find enough of them, and someone sees that and stops.  No   *)
(* goroutine is left behind: the cycles that are still under way end, too. *)
SearchEnds == <>(find # "loop" /\ \A c \in Cycle : cycle[c] = Idle /\ Probed(c))

(* A search may return while its last probes are under way, and they may   *)
(* still insert into the array it returned: then the caller's slice keeps  *)
(* its length, stays sorted and no entry gets farther from the target.     *)
ResultImproves ==
    [][find = "returned" =>
          /\ Len(result') = Len(result)
          /\ \A i \in DOMAIN result : result'[i] <= result[i]
          /\ \A i \in 1 .. Len(result) - 1 : result'[i] < result'[i + 1]]_vars
=============================================================================
