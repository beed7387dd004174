-------------------------------- MODULE Node --------------------------------
(***************************************************************************)
(* A DHT node on the wire (dht/node.go): the goroutines of SendAsync that  *)
(* wait for answers, the packet reader and the packet handler that pass    *)
(* answers to them, the grooming goroutine, and the shutdown of them all.  *)
(*                                                                         *)
(* Any packet can be read at any time, any number of times, or never: lost,*)
(* late and repeated answers, answers from another address or under        *)
(* another id than the one asked, this node's own included, and what is no *)
(* message at all.  A panic ends the process, and every step with it.      *)
(*                                                                         *)
(* Data abstractions: messages keep their type, the call they answer and   *)
(* their sender; a message id is random and 20 bytes long, so a call       *)
(* stands for its own id.  The routing table is module RoutingTable; what  *)
(* matters here is which ids it is asked about.                            *)
(***************************************************************************)
EXTENDS Integers, FiniteSets

CONSTANTS
    Call,           \* calls of SendAsync
    NodeID,         \* the ids nodes can have
    SelfID,         \* n.id
    Addr,           \* UDP addresses
    Requests,       \* for each call, the contacts SendAsync may be called with,
                    \* and its options
    Senders,        \* the ids and addresses that packets come with
    UdpRetry        \* udpRetry: how often a request is sent

Contact == [id : NodeID, addr : Addr]
Request == [id : NodeID, addr : Addr, skipIDCheck : BOOLEAN]

NoCall == "no call"

ASSUME ConstantsAssumption ==
    /\ SelfID \in NodeID
    /\ Addr # {}
    /\ Requests \in [Call -> (SUBSET Request) \ {{}}]
    /\ Senders \subseteq Contact
    /\ Call \cap {NoCall} = {}
    /\ UdpRetry \in Nat \ {0}

VARIABLES
    pc,             \* where the goroutine of each call is
    target,         \* tx.contact and tx.skipIDCheck
    tries,          \* i, the times the request was sent
    transactions,   \* the keys of n.transactions
    asked,          \* calls whose request left the node
    result,         \* what was sent on the call's channel
    reader,         \* the goroutine that reads packets
    handler,        \* the goroutine that handles them
    groomer,        \* the goroutine that refreshes the routing table
    closer,         \* the goroutine that closes the connection: "wait",
                    \* "marked" (connClosed is set) or "closed"
    shutdown        \* "no", "waiting" in StopAndWait, or "down"

calls == <<pc, target, tries, transactions, asked, result>>
procs == <<reader, handler, groomer, closer>>
vars  == <<calls, procs, shutdown>>

-----------------------------------------------------------------------------
Packet ==
    [type : {"request", "response", "error", "invalid", "short"},
     tx : Call \cup {NoCall}, from : Senders]

NoPacket == [type |-> "none", tx |-> NoCall, from |-> [id |-> SelfID, addr |-> CHOOSE a \in Addr : TRUE]]

Stopped    == shutdown # "no"            \* n.grp.Ch() is closed
ConnClosed == closer \in {"marked", "closed"}
Panicked   == handler.pc = "panicked"    \* and the process is gone

(* What can arrive: anything, from anyone.  Only the message id of a call, *)
(* 20 random bytes, is not known before its request has left; and only     *)
(* responses are looked up under it.                                       *)
CanArrive(p) ==
    /\ p.tx = NoCall \/ (p.type = "response" /\ p.tx \in asked)
    /\ p.type \in {"invalid", "short"} => p.from.id = SelfID    \* never looked at

Init ==
    /\ pc = [t \in Call |-> "idle"]
    /\ target = [t \in Call |-> CHOOSE r \in Requests[t] : TRUE]
    /\ tries = [t \in Call |-> 0]
    /\ transactions = {}
    /\ asked = {}
    /\ result = [t \in Call |-> NoPacket]
    /\ reader = "read"
    /\ handler = [pc |-> "select", pkt |-> NoPacket]
    /\ groomer = "run"
    /\ closer = "wait"
    /\ shutdown = "no"

-----------------------------------------------------------------------------
(* SendAsync.                                                              *)

SelfQuery(r) == r.id = SelfID

(* A query to the node's own id ends at once; any other is registered      *)
(* under its message id (txInsert), before anyone can know that id.        *)
SendAsync(t, r) ==
    /\ pc[t] = "idle"
    /\ IF SelfQuery(r)
       THEN pc' = [pc EXCEPT ![t] = "done"] /\ UNCHANGED <<target, transactions>>
       ELSE /\ pc' = [pc EXCEPT ![t] = "send"]
            /\ target' = [target EXCEPT ![t] = r]
            /\ transactions' = transactions \cup {t}
    /\ UNCHANGED <<tries, asked, result, procs, shutdown>>

(* The request is written to the connection.  On a closed connection       *)
(* sendMessage returns no error either, and nothing is sent.               *)
SendMessage(t) ==
    /\ pc[t] = "send"
    /\ pc' = [pc EXCEPT ![t] = "sent"]
    /\ asked' = IF closer = "closed" THEN asked ELSE asked \cup {t}
    /\ UNCHANGED <<target, tries, transactions, result, procs, shutdown>>

(* The loop is left, and i with it.                                        *)
Leave(t, step) ==
    /\ pc' = [pc EXCEPT ![t] = step]
    /\ tries' = [tries EXCEPT ![t] = 0]

(* i++                                                                     *)
NextTry(t) ==
    IF tries[t] + 1 < UdpRetry
    THEN /\ pc' = [pc EXCEPT ![t] = "send"]
         /\ tries' = [tries EXCEPT ![t] = @ + 1]
    ELSE Leave(t, "fail")

(* sendMessage returns an error: continue.                                 *)
SendError(t) ==
    /\ pc[t] = "send"
    /\ NextTry(t)
    /\ UNCHANGED <<target, transactions, asked, result, procs, shutdown>>

(* The goroutine gets to its select, which is when it listens on tx.res.   *)
Listen(t) ==
    /\ pc[t] = "sent"
    /\ pc' = [pc EXCEPT ![t] = "select"]
    /\ UNCHANGED <<target, tries, transactions, asked, result, procs, shutdown>>

(* A slip of SendAsync: the select has no timeout.                         *)
TimeoutNever(t) == FALSE

(* case <-time.After(udpTimeout)                                           *)
Timeout(t) ==
    /\ pc[t] = "select"
    /\ NextTry(t)
    /\ UNCHANGED <<target, transactions, asked, result, procs, shutdown>>

(* case <-n.grp.Ch()                                                       *)
CallStopped(t) ==
    /\ pc[t] = "select" /\ Stopped
    /\ Leave(t, "delete")
    /\ UNCHANGED <<target, transactions, asked, result, procs, shutdown>>

(* n.rt.Fail(tx.contact): one more failure of a contact that is listed.    *)
FailTarget(t) ==
    /\ pc[t] = "fail"
    /\ pc' = [pc EXCEPT ![t] = "delete"]
    /\ UNCHANGED <<target, tries, transactions, asked, result, procs, shutdown>>

(* A slip of SendAsync: the deferred calls in the other order.             *)
ChannelFirst(t) ==
    /\ pc[t] = "delete"
    /\ pc' = [pc EXCEPT ![t] = "done"]
    /\ UNCHANGED <<target, tries, transactions, asked, result, procs, shutdown>>

(* The deferred calls: txDelete, ...                                       *)
txDelete(t) ==
    /\ pc[t] = "delete"
    /\ transactions' = transactions \ {t}
    /\ pc' = [pc EXCEPT ![t] = "close"]
    /\ UNCHANGED <<target, tries, asked, result, procs, shutdown>>

(* ... then close(ch).                                                     *)
CloseChannel(t) ==
    /\ pc[t] = "close"
    /\ pc' = [pc EXCEPT ![t] = "done"]
    /\ UNCHANGED <<target, tries, transactions, asked, result, procs, shutdown>>

-----------------------------------------------------------------------------
(* The reader.                                                             *)

(* ReadFromUDP returns a packet.  Which one is left open until the handler *)
(* takes it: nothing looks at it before.                                   *)
Read ==
    /\ reader = "read" /\ closer # "closed"
    /\ reader' = "offer"
    /\ UNCHANGED <<calls, handler, groomer, closer, shutdown>>

(* ReadFromUDP fails once the connection is being closed.                  *)
ReadError ==
    /\ reader = "read" /\ ConnClosed
    /\ reader' = "done"
    /\ UNCHANGED <<calls, handler, groomer, closer, shutdown>>

(* A slip of the reader: it offers the packet without a select.            *)
ReaderStopsNever == FALSE

(* "needs select here because packet consumer can quit"                    *)
ReaderStops ==
    /\ reader = "offer" /\ Stopped
    /\ reader' = "done"
    /\ UNCHANGED <<calls, handler, groomer, closer, shutdown>>

-----------------------------------------------------------------------------
(* The handler.                                                            *)

HandlerStops ==
    /\ handler.pc = "select" /\ Stopped
    /\ handler' = [pc |-> "done", pkt |-> NoPacket]
    /\ UNCHANGED <<calls, reader, groomer, closer, shutdown>>

(* What the handler goes on with; once a response is delivered, only type  *)
(* and sender of a message matter.                                         *)
Goes(step, p) ==
    handler' = [pc |-> step, pkt |-> CASE step = "deliver" -> p
                                       [] step = "select"  -> NoPacket
                                       [] OTHER -> [p EXCEPT !.tx = NoCall]]

(* handlePacket: not a message; handleRequest: no such method, or no arg.  *)
HandleInvalid(p) == p.type = "invalid" /\ Goes("select", p)

(* handlePacket: pkt.data[0:5], or pkt.data[5], of a packet of fewer bytes.*)
HandleShort(p) == p.type = "short" /\ Goes("panicked", p)

(* A slip of handleRequest: requests of the node itself are served.        *)
SelfRequestNever(p) == FALSE

SelfRequest(p) == p.from.id = SelfID

(* handleRequest: a request of the node itself is ignored; otherwise it is *)
(* served (module Storage) and the sender freshened.                       *)
HandleRequest(p) == p.type = "request" /\ Goes(IF SelfRequest(p) THEN "select" ELSE "fresh", p)

(* A slip of txFind: the id of the contact is never compared.              *)
EqualsAddrOnly(t, c) == target[t].addr = c.addr

(* t.contact.Equals(c, !t.skipIDCheck)                                     *)
Equals(t, c) == target[t].addr = c.addr /\ (target[t].skipIDCheck \/ target[t].id = c.id)

(* handleResponse: txFind.                                                 *)
FindTransaction(p) ==
    /\ p.type = "response"
    /\ Goes(IF p.tx \in transactions /\ Equals(p.tx, p.from) THEN "deliver" ELSE "update", p)

(* handleError: the error is not passed to the call it answers.            *)
HandleError(p) == p.type = "error" /\ Goes("fresh", p)

(* packets <- packet, received by the handler: handlePacket.               *)
HandlePacket ==
    /\ reader = "offer" /\ handler.pc = "select"
    /\ reader' = "read"
    /\ \E p \in Packet :
        /\ CanArrive(p)
        /\ \/ HandleInvalid(p) \/ HandleShort(p) \/ HandleRequest(p)
           \/ FindTransaction(p) \/ HandleError(p)
    /\ UNCHANGED <<calls, groomer, closer, shutdown>>

(* case tx.res <- response, and ch <- &res by its receiver; default: the   *)
(* response is dropped if nobody listens at this moment.                   *)
Deliver ==
    LET t == handler.pkt.tx IN
    /\ handler.pc = "deliver"
    /\ IF pc[t] = "select"
       THEN /\ result' = [result EXCEPT ![t] = handler.pkt]
            /\ Leave(t, "delete")
       ELSE UNCHANGED <<result, pc, tries>>
    /\ Goes("update", handler.pkt)
    /\ UNCHANGED <<target, transactions, asked, reader, groomer, closer, shutdown>>

(* n.rt.Update, n.rt.Fresh, and back to the select.  bucketFor panics on   *)
(* the node's own id, which answers are not checked for.                   *)
TouchTable ==
    /\ handler.pc \in {"update", "fresh"}
    /\ Goes(IF handler.pkt.from.id = SelfID THEN "panicked" ELSE "select", handler.pkt)
    /\ UNCHANGED <<calls, reader, groomer, closer, shutdown>>

-----------------------------------------------------------------------------
(* startRoutingTableGrooming returns: a refresh that is under way ends     *)
(* first, its searches run under a child of n.grp.                         *)
GroomStops ==
    /\ groomer = "run" /\ Stopped
    /\ groomer' = "done"
    /\ UNCHANGED <<calls, reader, handler, closer, shutdown>>

(* Connect's first goroutine: stop the tokens and set connClosed, then     *)
(* close the connection.                                                   *)
MarkClosed ==
    /\ closer = "wait" /\ Stopped
    /\ closer' = "marked"
    /\ UNCHANGED <<calls, reader, handler, groomer, shutdown>>

CloseConn ==
    /\ closer = "marked"
    /\ closer' = "closed"
    /\ UNCHANGED <<calls, reader, handler, groomer, shutdown>>

(* Shutdown: n.grp.StopAndWait().                                          *)
Stop ==
    /\ shutdown = "no"
    /\ shutdown' = "waiting"
    /\ UNCHANGED <<calls, procs>>

ShutdownReturns ==
    /\ shutdown = "waiting"
    /\ reader = "done" /\ handler.pc = "done" /\ groomer = "done"
    /\ shutdown' = "down"
    /\ UNCHANGED <<calls, procs>>

-----------------------------------------------------------------------------
CallStep(t) ==
    \/ SendMessage(t) \/ SendError(t) \/ Listen(t)
    \/ Timeout(t) \/ CallStopped(t) \/ FailTarget(t) \/ txDelete(t) \/ CloseChannel(t)

ReaderStep == HandlePacket \/ ReaderStops \/ (closer = "closed" /\ ReadError)

Step ==
    \/ \E t \in Call : (\E r \in Requests[t] : SendAsync(t, r)) \/ CallStep(t)
    \/ Read \/ ReadError \/ ReaderStops
    \/ HandlePacket \/ Deliver \/ TouchTable \/ HandlerStops
    \/ GroomStops \/ MarkClosed \/ CloseConn
    \/ Stop \/ ShutdownReturns

Next == ~ Panicked /\ Step

(* Goroutines that can run do, and timers fire, as long as the process is  *)
(* there.  Nothing is assumed of the network, the callers or whoever shuts *)
(* the node down.                                                          *)
Fairness ==
    /\ \A t \in Call : WF_vars(~ Panicked /\ CallStep(t))
    /\ WF_vars(~ Panicked /\ ReaderStep)
    /\ WF_vars(HandlerStops) /\ WF_vars(Deliver \/ TouchTable)
    /\ WF_vars(~ Panicked /\ GroomStops)
    /\ WF_vars(~ Panicked /\ MarkClosed) /\ WF_vars(~ Panicked /\ CloseConn)
    /\ WF_vars(ShutdownReturns)

Spec == Init /\ [][Next]_vars /\ Fairness

-----------------------------------------------------------------------------
(* Properties.                                                             *)

(* Shape of the state.                                                     *)
TypeOK ==
    /\ pc \in [Call -> {"idle", "send", "sent", "select", "fail", "delete", "close", "done"}]
    /\ target \in [Call -> Request]
    /\ tries \in [Call -> 0 .. UdpRetry - 1]
    /\ transactions \subseteq Call
    /\ asked \subseteq Call
    /\ result \in [Call -> Packet \cup {NoPacket}]
    /\ reader \in {"read", "offer", "done"}
    /\ handler \in [pc : {"select", "deliver", "update", "fresh", "panicked", "done"},
                    pkt : Packet \cup {NoPacket}]
    /\ groomer \in {"run", "done"}
    /\ closer \in {"wait", "marked", "closed"}
    /\ shutdown \in {"no", "waiting", "down"}

(* Send returns only an answer to the request it sent, from the address it *)
(* sent it to and, unless it asked not to check, from the node it meant:   *)
(* late, repeated and stray answers, from wherever they come, reach nobody *)
(* else.                                                                   *)
ResponseMatches ==
    \A t \in Call : result[t] # NoPacket =>
        /\ result[t].type = "response" /\ result[t].tx = t
        /\ result[t].from.addr = target[t].addr
        /\ target[t].skipIDCheck \/ result[t].from.id = target[t].id

(* bucketFor panics when asked about the node's own id.  The node does not *)
(* come to that by itself: not when it reaches itself through one of its   *)
(* seed addresses, not by a query to its own id, not by a failed call.     *)
(* What is left, and not checked for, are an answer that comes with its id *)
(* and a packet too short to be a message.                                 *)
OwnIDGuarded ==
    /\ Panicked => \/ handler.pkt.type = "short"
                   \/ handler.pkt.type \in {"response", "error"} /\ handler.pkt.from.id = SelfID
    /\ \A t \in Call : pc[t] = "fail" => target[t].id # SelfID

(* n.transactions holds exactly the calls between txInsert and txDelete:   *)
(* when the caller sees its channel closed the call is forgotten, and a    *)
(* call that waits can be found.                                           *)
TransactionsMatch ==
    transactions = {t \in Call : pc[t] \in {"send", "sent", "select", "fail", "delete"}}

(* "The response channel is closed when the transaction is completed or    *)
(* times out": whatever the network does, short of a panic, every call     *)
(* ends.                                                                   *)
CallsEnd == \A t \in Call : pc[t] = "send" ~> pc[t] = "done" \/ Panicked

(* Shutdown returns: nobody is left reading a connection that nothing      *)
(* closes, offering a packet that nobody takes, or handing a response to a *)
(* call that has stopped listening; unless the process panics first.       *)
ShutdownEnds == shutdown = "waiting" ~> shutdown = "down" \/ Panicked
=============================================================================
