----------------------------- MODULE NodeProofs -----------------------------
(***************************************************************************)
(* Proofs about the node's calls, for any number of calls, nodes, retries  *)
(* and packets; about the life of the DHT that owns the node, for any      *)
(* seeds and any number of RPC calls under way; and about the tokens of a  *)
(* storing node, for any announcing nodes and hashes, any rotation         *)
(* interval and any number of restarts.                                    *)
(*                                                                         *)
(* That a call returns only an answer to itself depends on what the        *)
(* handler remembers between finding the transaction and delivering the    *)
(* response (Delivering), and on a call having no answer before it begins  *)
(* (Fresh).  That only an answer with the node's own id, or a packet too   *)
(* short, makes it panic depends on what the handler touches the routing   *)
(* table for (Touching) and on who is called (OnlyOthers).                 *)
(*                                                                         *)
(* That the DHT closes the node last depends on what Start has launched by *)
(* the time Shutdown is called (LateShutdown), on the RPC calls lasting no *)
(* longer than the goroutine the group counts (ServerCovers), and on       *)
(* nothing being launched twice (StartedOnce).                             *)
(*                                                                         *)
(* That a token is good for a whole interval after it was made does not    *)
(* follow from its own state alone: one made with what is now the previous *)
(* secret is rotated out when the ticker fires next, so its age and the    *)
(* time left until then must add up to the interval (Lasting).             *)
(***************************************************************************)
EXTENDS Node, Dht, Storage, FunctionTheorems, FiniteSetTheorems, TLAPS

(* The response in the handler's hands answers the call it is meant for,   *)
(* and comes from where that call was sent.                                *)
Delivering ==
    handler.pc = "deliver" =>
        /\ handler.pkt \in Packet
        /\ handler.pkt.type = "response" /\ handler.pkt.tx \in Call
        /\ Equals(handler.pkt.tx, handler.pkt.from)
        /\ pc[handler.pkt.tx] # "idle"

(* The routing table is updated for a response, and freshened for a        *)
(* request of another node or for an error.                                *)
Touching ==
    /\ handler.pc = "update" => handler.pkt \in Packet /\ handler.pkt.type = "response"
    /\ handler.pc = "fresh" =>
          /\ handler.pkt \in Packet /\ handler.pkt.type \in {"request", "error"}
          /\ handler.pkt.type = "request" => handler.pkt.from.id # SelfID

(* A call that is under way is not a call to this node.                    *)
OnlyOthers ==
    \A t \in Call : pc[t] \in {"send", "sent", "select", "fail"} => target[t].id # SelfID

(* A call that has not begun has no answer.                                *)
Fresh == \A t \in Call : pc[t] = "idle" => result[t] = NoPacket

(* The inductive invariant.                                                *)
IInv ==
    /\ TypeOK
    /\ TransactionsMatch
    /\ ResponseMatches
    /\ OwnIDGuarded
    /\ Delivering
    /\ Touching
    /\ OnlyOthers
    /\ Fresh

-----------------------------------------------------------------------------
(* What is no packet has no type that a packet has; and a packet without   *)
(* its message id is a packet still.                                       *)
LEMMA NoPacketType ==
    \A p \in Packet :
        /\ p # NoPacket /\ p.type # "none"
        /\ [p EXCEPT !.tx = NoCall] \in Packet
        /\ [p EXCEPT !.tx = NoCall].type = p.type /\ [p EXCEPT !.tx = NoCall].from = p.from
  BY DEF Packet, NoPacket

(* There is a request every call can make.                                 *)
LEMMA RequestsOf == \A t \in Call : Requests[t] # {} /\ Requests[t] \subseteq Request
<1> SUFFICES ASSUME NEW t \in Call PROVE Requests[t] # {} /\ Requests[t] \subseteq Request
  OBVIOUS
<1>1. Requests[t] \in (SUBSET Request) \ {{}}
  BY ConstantsAssumption, Zenon
<1> QED
  BY <1>1, Zenon

LEMMA InitInv == Init => IInv
<1> SUFFICES ASSUME Init PROVE IInv
  OBVIOUS
<1>1. target \in [Call -> Request]
  <2>1. \A t \in Call : (CHOOSE r \in Requests[t] : TRUE) \in Request
    <3> SUFFICES ASSUME NEW t \in Call PROVE (CHOOSE r \in Requests[t] : TRUE) \in Request
      OBVIOUS
    <3>1. Requests[t] # {} /\ Requests[t] \subseteq Request
      BY RequestsOf
    <3> QED
      BY <3>1
  <2> QED
    BY <2>1 DEF Init
<1>2. TypeOK
  BY <1>1, ConstantsAssumption DEF Init, TypeOK
<1> QED
  BY <1>2 DEF Init, IInv, TransactionsMatch, ResponseMatches, OwnIDGuarded, Panicked,
        Delivering, Touching, OnlyOthers, Fresh

(* The steps of a call.  None of them touches the handler.                 *)
LEMMA CallInv ==
    ASSUME IInv, NEW t \in Call, (\E r \in Requests[t] : SendAsync(t, r)) \/ CallStep(t)
    PROVE  IInv'
<1> USE DEF IInv, calls, procs
<1>1. PICK r \in Request : SendAsync(t, r) \/ CallStep(t)
  <2>1. Requests[t] # {} /\ Requests[t] \subseteq Request
    BY RequestsOf
  <2> QED
    BY <2>1
<1>2. /\ handler' = handler /\ result' = result
      /\ target' = target \/ (SendAsync(t, r) /\ target' = [target EXCEPT ![t] = r])
  BY <1>1 DEF SendAsync, CallStep, SendMessage, SendError, Listen, Timeout, CallStopped,
         FailTarget, txDelete, CloseChannel
<1>3. TypeOK'
  <2>1. pc' \in [Call -> {"idle", "send", "sent", "select", "fail", "delete", "close", "done"}]
    BY <1>1 DEF TypeOK, SendAsync, CallStep, SendMessage, SendError, Listen, Timeout, CallStopped,
           FailTarget, txDelete, CloseChannel, NextTry, Leave
  <2>2. tries' \in [Call -> 0 .. UdpRetry - 1]
    BY <1>1, ConstantsAssumption DEF TypeOK, SendAsync, CallStep, SendMessage, SendError, Listen,
           Timeout, CallStopped, FailTarget, txDelete, CloseChannel, NextTry, Leave
  <2>3. target' \in [Call -> Request]
    BY <1>2 DEF TypeOK
  <2>4. transactions' \subseteq Call /\ asked' \subseteq Call
    BY <1>1 DEF TypeOK, SendAsync, CallStep, SendMessage, SendError, Listen, Timeout, CallStopped,
           FailTarget, txDelete, CloseChannel
  <2>5. <<reader, groomer, closer, shutdown>>' = <<reader, groomer, closer, shutdown>>
    BY <1>1 DEF SendAsync, CallStep, SendMessage, SendError, Listen, Timeout, CallStopped,
           FailTarget, txDelete, CloseChannel
  <2> QED
    BY <1>2, <2>1, <2>2, <2>3, <2>4, <2>5 DEF TypeOK
<1>4. TransactionsMatch'
  BY <1>1 DEF TypeOK, TransactionsMatch, SendAsync, CallStep, SendMessage, SendError, Listen, Timeout,
         CallStopped, FailTarget, txDelete, CloseChannel, NextTry, Leave
<1>5. OnlyOthers'
  BY <1>1 DEF TypeOK, OnlyOthers, SendAsync, SelfQuery, CallStep, SendMessage, SendError, Listen,
         Timeout, CallStopped, FailTarget, txDelete, CloseChannel, NextTry, Leave
<1>6. Fresh'
  BY <1>1, <1>2 DEF TypeOK, Fresh, SendAsync, CallStep, SendMessage, SendError, Listen,
         Timeout, CallStopped, FailTarget, txDelete, CloseChannel, NextTry, Leave
<1>7. \A c \in Call : pc[c] # "idle" => pc'[c] # "idle" /\ target'[c] = target[c]
  BY <1>1, <1>2 DEF TypeOK, SendAsync, CallStep, SendMessage, SendError, Listen,
         Timeout, CallStopped, FailTarget, txDelete, CloseChannel, NextTry, Leave
<1>8. ResponseMatches'
  BY <1>2, <1>7 DEF ResponseMatches, Fresh
<1>9. Delivering' /\ Touching'
  BY <1>2, <1>7 DEF Delivering, Touching, Equals
<1>10. OwnIDGuarded'
  BY <1>2, <1>5 DEF OwnIDGuarded, OnlyOthers, Panicked
<1> QED
  BY <1>3, <1>4, <1>5, <1>6, <1>8, <1>9, <1>10

-----------------------------------------------------------------------------
(* A step that changes nothing but the reader and the handler keeps the    *)
(* invariant if what the handler holds afterwards is in order.             *)
LEMMA HandlerKeeps ==
    ASSUME IInv, UNCHANGED <<calls, groomer, closer, shutdown>>,
           reader' \in {"read", "offer", "done"},
           handler' \in [pc : {"select", "deliver", "update", "fresh", "panicked", "done"},
                         pkt : Packet \cup {NoPacket}],
           Delivering', Touching',
           Panicked' => \/ handler'.pkt.type = "short"
                        \/ /\ handler'.pkt.type \in {"response", "error"}
                           /\ handler'.pkt.from.id = SelfID
    PROVE  IInv'
<1>1. TypeOK'
  BY DEF IInv, TypeOK, calls
<1>2. TransactionsMatch' /\ OnlyOthers' /\ ResponseMatches' /\ Fresh'
  BY DEF IInv, TransactionsMatch, OnlyOthers, ResponseMatches, Fresh, calls
<1>3. OwnIDGuarded'
  BY DEF IInv, OwnIDGuarded, calls
<1> QED
  BY <1>1, <1>2, <1>3 DEF IInv

(* The steps of the reader, and the handler's last.                        *)
LEMMA ReaderInv ==
    ASSUME IInv, Read \/ ReadError \/ ReaderStops \/ HandlerStops
    PROVE  IInv'
<1>1. CASE Read \/ ReadError \/ ReaderStops
  <2>1. handler' = handler /\ reader' \in {"read", "offer", "done"}
        /\ UNCHANGED <<calls, groomer, closer, shutdown>>
    BY <1>1 DEF Read, ReadError, ReaderStops
  <2>2. Delivering' /\ Touching'
    BY <2>1 DEF IInv, Delivering, Touching, Equals, calls
  <2> QED
    BY <2>1, <2>2, HandlerKeeps DEF IInv, TypeOK, OwnIDGuarded, Panicked
<1>2. CASE HandlerStops
  <2>1. handler' = [pc |-> "done", pkt |-> NoPacket] /\ reader' = reader
        /\ UNCHANGED <<calls, groomer, closer, shutdown>>
    BY <1>2 DEF HandlerStops
  <2>2. Delivering' /\ Touching' /\ ~Panicked'
    BY <2>1 DEF Delivering, Touching, Panicked
  <2> QED
    BY <2>1, <2>2, HandlerKeeps DEF IInv, TypeOK
<1> QED
  BY <1>1, <1>2

(* The handler goes on with a packet.                                      *)
LEMMA GoesKeeps ==
    ASSUME IInv, UNCHANGED <<calls, groomer, closer, shutdown>>, reader' \in {"read", "offer", "done"},
           NEW p \in Packet, NEW step \in {"select", "update", "fresh", "panicked"}, Goes(step, p),
           step = "update" => p.type = "response",
           step = "fresh" => p.type \in {"request", "error"} /\ (p.type = "request" => p.from.id # SelfID),
           step = "panicked" => p.type = "short" \/ (p.type \in {"response", "error"} /\ p.from.id = SelfID)
    PROVE  IInv'
<1> DEFINE q == [p EXCEPT !.tx = NoCall]
<1>1. q \in Packet /\ q.type = p.type /\ q.from = p.from
  BY NoPacketType
<1>2. handler' = [pc |-> step, pkt |-> IF step = "select" THEN NoPacket ELSE q]
  BY DEF Goes
<1> HIDE DEF q
<1>3. Delivering' /\ Touching'
  BY <1>1, <1>2 DEF Delivering, Touching
<1>4. Panicked' => handler'.pkt = q /\ step = "panicked"
  BY <1>2 DEF Panicked
<1>5. handler' \in [pc : {"select", "deliver", "update", "fresh", "panicked", "done"},
                    pkt : Packet \cup {NoPacket}]
  BY <1>1, <1>2
<1> QED
  BY <1>1, <1>3, <1>4, <1>5, HandlerKeeps

(* A packet is taken from the reader and handled.                          *)
LEMMA HandlePacketInv == ASSUME IInv, HandlePacket PROVE IInv'
<1>1. PICK p \in Packet :
        \/ HandleInvalid(p) \/ HandleShort(p) \/ HandleRequest(p)
        \/ FindTransaction(p) \/ HandleError(p)
  BY DEF HandlePacket
<1>2. reader' = "read" /\ UNCHANGED <<calls, groomer, closer, shutdown>>
  BY DEF HandlePacket
<1>3. CASE HandleInvalid(p) \/ HandleShort(p) \/ HandleError(p)
  BY <1>2, <1>3, GoesKeeps DEF HandleInvalid, HandleShort, HandleError
<1>4. CASE HandleRequest(p)
  BY <1>2, <1>4, GoesKeeps DEF HandleRequest, SelfRequest
<1>5. CASE FindTransaction(p) /\ p.tx \in transactions /\ Equals(p.tx, p.from)
  <2>1. handler' = [pc |-> "deliver", pkt |-> p] /\ p.type = "response"
    BY <1>5 DEF FindTransaction, Goes
  <2>2. p.tx \in Call /\ pc[p.tx] # "idle"
    BY <1>5 DEF IInv, TransactionsMatch
  <2>3. Delivering' /\ Touching' /\ ~Panicked'
    BY <1>2, <1>5, <2>1, <2>2 DEF Delivering, Touching, Panicked, Equals, calls
  <2> QED
    BY <1>2, <2>1, <2>3, HandlerKeeps
<1>6. CASE FindTransaction(p) /\ ~(p.tx \in transactions /\ Equals(p.tx, p.from))
  BY <1>2, <1>6, GoesKeeps DEF FindTransaction
<1> QED
  BY <1>1, <1>3, <1>4, <1>5, <1>6

(* A response is delivered: the call it answers, if it listens, ends.      *)
LEMMA DeliverInv == ASSUME IInv, Deliver PROVE IInv'
<1> DEFINE p == handler.pkt
           t == handler.pkt.tx
           q == [p EXCEPT !.tx = NoCall]
<1>1. p \in Packet /\ t \in Call /\ p.type = "response" /\ Equals(t, p.from) /\ p.tx = t
  BY DEF Deliver, IInv, Delivering
<1>2. UNCHANGED <<target, transactions, asked, reader, groomer, closer, shutdown>>
  BY DEF Deliver
<1>3. handler' = [pc |-> "update", pkt |-> q] /\ q \in Packet /\ q.type = "response"
  BY <1>1, NoPacketType DEF Deliver, Goes
<1>4. \/ pc[t] # "select" /\ pc' = pc /\ tries' = tries /\ result' = result
      \/ /\ pc[t] = "select"
         /\ pc' = [pc EXCEPT ![t] = "delete"]
         /\ tries' = [tries EXCEPT ![t] = 0]
         /\ result' = [result EXCEPT ![t] = p]
  BY DEF Deliver, Leave
<1> HIDE DEF p, t, q
<1>5. TypeOK'
  <2>1. pc' \in [Call -> {"idle", "send", "sent", "select", "fail", "delete", "close", "done"}]
        /\ result' \in [Call -> Packet \cup {NoPacket}]
    BY <1>1, <1>4 DEF IInv, TypeOK
  <2>2. tries' \in [Call -> 0 .. UdpRetry - 1]
    BY <1>1, <1>4, ConstantsAssumption DEF IInv, TypeOK
  <2> QED
    BY <1>1, <1>2, <1>3, <2>1, <2>2 DEF IInv, TypeOK
<1>6. TransactionsMatch' /\ OnlyOthers' /\ Fresh'
  BY <1>1, <1>2, <1>4 DEF IInv, TypeOK, TransactionsMatch, OnlyOthers, Fresh
<1>7. ResponseMatches'
  BY <1>1, <1>2, <1>4 DEF IInv, TypeOK, ResponseMatches, Equals
<1>8. OwnIDGuarded'
  BY <1>1, <1>2, <1>3, <1>4 DEF IInv, TypeOK, OwnIDGuarded, Panicked
<1>9. Delivering' /\ Touching'
  BY <1>3 DEF Delivering, Touching
<1> QED
  BY <1>5, <1>6, <1>7, <1>8, <1>9 DEF IInv

(* The handler updates or freshens the sender, and panics if that is this  *)
(* node itself.                                                            *)
LEMMA TouchTableInv == ASSUME IInv, TouchTable PROVE IInv'
<1>1. UNCHANGED <<calls, reader, groomer, closer, shutdown>>
  BY DEF TouchTable
<1>2. handler.pkt \in Packet
  BY DEF TouchTable, IInv, Touching
<1>3. CASE handler.pkt.from.id = SelfID
  <2>1. handler.pkt.type \in {"response", "error"}
    BY <1>3 DEF TouchTable, IInv, Touching
  <2>2. Goes("panicked", handler.pkt)
    BY <1>3 DEF TouchTable
  <2> QED
    BY <1>1, <1>2, <1>3, <2>1, <2>2, GoesKeeps DEF IInv, TypeOK
<1>4. CASE handler.pkt.from.id # SelfID
  BY <1>1, <1>2, <1>4, GoesKeeps DEF TouchTable, IInv, TypeOK
<1> QED
  BY <1>3, <1>4

(* The other goroutines, Shutdown, and steps of somebody else.             *)
LEMMA RestInv ==
    ASSUME IInv,
           \/ GroomStops \/ MarkClosed \/ CloseConn
           \/ Stop \/ ShutdownReturns \/ UNCHANGED vars
    PROVE  IInv'
<1>1. /\ UNCHANGED <<calls, reader, handler>>
      /\ groomer' \in {"run", "done"}
      /\ closer' \in {"wait", "marked", "closed"}
      /\ shutdown' \in {"no", "waiting", "down"}
  BY DEF IInv, TypeOK, GroomStops, MarkClosed, CloseConn, Stop, ShutdownReturns, vars, procs
<1>2. TypeOK'
  BY <1>1 DEF IInv, TypeOK, calls
<1>3. TransactionsMatch' /\ OnlyOthers' /\ ResponseMatches' /\ Fresh'
  BY <1>1 DEF IInv, TransactionsMatch, OnlyOthers, ResponseMatches, Fresh, calls
<1>4. OwnIDGuarded' /\ Delivering' /\ Touching'
  BY <1>1 DEF IInv, OwnIDGuarded, Panicked, Delivering, Touching, Equals, calls
<1> QED
  BY <1>2, <1>3, <1>4 DEF IInv

LEMMA StepInv == IInv /\ [Next]_vars => IInv'
  BY CallInv, ReaderInv, HandlePacketInv, DeliverInv, TouchTableInv, RestInv DEF Next, Step

-----------------------------------------------------------------------------
(* The invariant holds in every state of every run of the node.            *)
THEOREM Invariance == Spec => []IInv
  BY InitInv, StepInv, PTL DEF Spec

(* The state has its shape; in particular no request is sent more than     *)
(* udpRetry times.                                                         *)
THEOREM TypeCorrect == Spec => []TypeOK
  BY Invariance, PTL DEF IInv

(* A call of SendAsync returns only an answer to itself, from the address  *)
(* it asked, however many calls are under way and whatever packets arrive, *)
(* from wherever they come.                                                *)
THEOREM AnswersMatch == Spec => []ResponseMatches
  BY Invariance, PTL DEF IInv

(* n.transactions holds the calls between txInsert and txDelete.           *)
THEOREM TransactionsExact == Spec => []TransactionsMatch
  BY Invariance, PTL DEF IInv

(* The node panics over its own id only if an answer comes with that id:   *)
(* neither its own requests nor its own failed calls bring it to that.     *)
THEOREM OwnIdIsGuarded == Spec => []OwnIDGuarded
  BY Invariance, PTL DEF IInv

-----------------------------------------------------------------------------
(* The life of the DHT.                                                    *)

(* dht.grp's counter is at least the number of goroutines it was told of.  *)
CountCovers == count >= Counted

(* The announcer is launched after the join and the server after it; the   *)
(* limiter by the announcer.                                               *)
StartedOnce ==
    /\ start \notin {"serve", "returned"} => announcer = "none"
    /\ start # "returned" => server = "none"
    /\ announcer \in {"none", "started"} => limiter = "none" /\ announcing = 0

(* The calls live within the goroutine of runRPCServer.                    *)
ServerCovers ==
    server \notin {"running", "closing"} => \A c \in Calls : call[c] = NoRpc

(* A Shutdown that came after Start finds everything started, and once it  *)
(* has waited nothing runs.                                                *)
LateShutdown ==
    /\ dhtCloser = "idle" => ~early
    /\ dhtCloser # "idle" /\ ~early => start = "returned"
    /\ dhtCloser \in {"node", "returned"} /\ ~early => Quiet
    /\ node = "closed" => dhtCloser = "returned"

(* The inductive invariant.                                                *)
LifeInv == DhtTypeOK /\ CountCovers /\ StartedOnce /\ ServerCovers /\ LateShutdown

-----------------------------------------------------------------------------
(* A new DHT satisfies the invariant.                                      *)
LEMMA LifeInit == DhtInit => LifeInv
<1> SUFFICES ASSUME DhtInit PROVE LifeInv
  OBVIOUS
<1>1. DhtTypeOK
  <2>1. responded \in BOOLEAN /\ joined \in BOOLEAN /\ stopped \in BOOLEAN /\ early \in BOOLEAN
    BY Zenon DEF DhtInit
  <2> QED
    BY <2>1, DhtAssumption DEF DhtInit, DhtTypeOK, Methods, NoRpc
<1>2. CountCovers
  BY DEF DhtInit, CountCovers, Counted
<1>3. StartedOnce /\ ServerCovers /\ LateShutdown
  BY DEF DhtInit, StartedOnce, ServerCovers, LateShutdown, Quiet
<1> QED
  BY <1>1, <1>2, <1>3 DEF LifeInv

(* The steps of Start keep the invariant.                                  *)
LEMMA StartInv == LifeInv /\ (Starting \/ StartFails) => LifeInv'
<1> SUFFICES ASSUME LifeInv, Starting \/ StartFails PROVE LifeInv'
  OBVIOUS
<1> USE DhtAssumption DEF LifeInv, DhtTypeOK, CountCovers, Counted, StartedOnce, ServerCovers, LateShutdown,
            Quiet, userVars, closerVars, announcerVars, serverVars, grpVars
<1>1. CASE StartFails
  BY <1>1 DEF StartFails
<1>2. CASE connect
  BY <1>2 DEF connect
<1>3. CASE PingSeed
  BY <1>3 DEF PingSeed, PingAnswers
<1>4. CASE PingsDone
  BY <1>4 DEF PingsDone
<1>5. CASE SearchEnds
  BY <1>5 DEF SearchEnds
<1>6. CASE StartAnnouncer
  BY <1>6 DEF StartAnnouncer, Add
<1>7. CASE StartServer
  BY <1>7 DEF StartServer, Add
<1> QED
  BY <1>1, <1>2, <1>3, <1>4, <1>5, <1>6, <1>7 DEF Starting

(* The announcer, its limiter and its announcements keep the invariant.    *)
LEMMA RunInv == LifeInv /\ Running => LifeInv'
<1> SUFFICES ASSUME LifeInv, Running PROVE LifeInv'
  OBVIOUS
<1> USE DhtAssumption DEF LifeInv, DhtTypeOK, CountCovers, Counted, StartedOnce, ServerCovers, LateShutdown,
            Quiet, startVars, userVars, closerVars, serverVars
<1>1. CASE runAnnouncer
  BY <1>1 DEF runAnnouncer, Add
<1>2. CASE AnnouncerReturns
  BY <1>2 DEF AnnouncerReturns, GroupDone
<1>3. CASE LimiterReturns
  BY <1>3 DEF LimiterReturns, GroupDone
<1>4. CASE AnnounceHash
  BY <1>4 DEF AnnounceHash, Add
<1>5. CASE HashNotDue
  BY <1>5 DEF HashNotDue, Add, announcerVars
<1>6. CASE AnnouncementEnds
  BY <1>6 DEF AnnouncementEnds, GroupDone
<1> QED
  BY <1>1, <1>2, <1>3, <1>4, <1>5, <1>6 DEF Running

(* The RPC server keeps the invariant; its goroutine ends only when the    *)
(* calls are answered.                                                     *)
LEMMA ServeInv == LifeInv /\ (Serving \/ ListenFails) => LifeInv'
<1> SUFFICES ASSUME LifeInv, Serving \/ ListenFails PROVE LifeInv'
  OBVIOUS
<1> USE DhtAssumption DEF LifeInv, DhtTypeOK, CountCovers, Counted, StartedOnce, ServerCovers, LateShutdown,
            Quiet, startVars, userVars, closerVars, announcerVars, grpVars
<1>1. CASE runRPCServer
  BY <1>1 DEF runRPCServer
<1>2. CASE CloseServer
  BY <1>2 DEF CloseServer
<1>3. CASE ListenerReturns
  BY <1>3 DEF ListenerReturns
<1>4. CASE ServerReturns
  BY <1>4 DEF ServerReturns, GroupDone
<1>5. CASE ListenFails
  BY <1>5 DEF ListenFails
<1>6. CASE RegisterFails
  BY <1>6 DEF RegisterFails, GroupDone
<1> QED
  BY <1>1, <1>2, <1>3, <1>4, <1>5, <1>6 DEF Serving

(* RPC calls keep the invariant: they begin only while the server runs.    *)
LEMMA RpcInv ==
    ASSUME LifeInv, NEW c \in Calls,
           RpcAnswer(c) \/ \E method \in Methods : RpcCall(c, method)
    PROVE  LifeInv'
<1> USE DhtAssumption DEF LifeInv, DhtTypeOK, CountCovers, Counted, StartedOnce, ServerCovers, LateShutdown,
            Quiet, startVars, userVars, closerVars, announcerVars, grpVars
<1>1. CASE RpcAnswer(c)
  BY <1>1 DEF RpcAnswer
<1>2. ASSUME NEW method \in Methods, RpcCall(c, method) PROVE LifeInv'
  BY <1>2 DEF RpcCall
<1> QED
  BY <1>1, <1>2

(* The callers of WaitUntilJoined, Get and Shutdown keep the invariant.    *)
LEMMA UserInv ==
    ASSUME LifeInv,
           WaitUntilJoined \/ WaiterReturns \/ Get \/ GetReturns
             \/ Shutdown \/ StopAndWaitReturns \/ DhtShutdownReturns
    PROVE  LifeInv'
<1> USE DhtAssumption DEF LifeInv, DhtTypeOK, CountCovers, Counted, StartedOnce, ServerCovers, LateShutdown,
            startVars, userVars, closerVars, announcerVars, serverVars,
            grpVars
<1>1. CASE WaitUntilJoined \/ WaiterReturns
  BY <1>1 DEF WaitUntilJoined, WaiterReturns, Quiet
<1>2. CASE Get \/ GetReturns
  BY <1>2 DEF Get, GetReturns, Quiet
<1>3. CASE Shutdown
  <2>1. early' \in BOOLEAN /\ stopped' \in BOOLEAN /\ (~early' => start = "returned")
    BY <1>3, Zenon DEF Shutdown, GroupStop
  <2>2. DhtTypeOK'
    BY <1>3, <2>1 DEF Shutdown
  <2>3. CountCovers' /\ StartedOnce' /\ ServerCovers' /\ LateShutdown'
    BY <1>3, <2>1 DEF Shutdown, Quiet
  <2> QED
    BY <2>2, <2>3
<1>4. CASE StopAndWaitReturns
  <2>1. Quiet
    BY <1>4 DEF StopAndWaitReturns, Wait, Quiet
  <2> QED
    BY <1>4, <2>1 DEF StopAndWaitReturns, Quiet
<1>5. CASE DhtShutdownReturns
  BY <1>5 DEF DhtShutdownReturns, Quiet
<1> QED
  BY <1>1, <1>2, <1>3, <1>4, <1>5

(* Every step, and every step of something else, keeps the invariant.      *)
LEMMA LifeStep == LifeInv /\ [DhtNext]_dhtVars => LifeInv'
<1> SUFFICES ASSUME LifeInv, [DhtNext]_dhtVars PROVE LifeInv'
  OBVIOUS
<1>1. CASE UNCHANGED dhtVars
  BY <1>1 DEF LifeInv, DhtTypeOK, CountCovers, Counted, StartedOnce, ServerCovers, LateShutdown,
              Quiet, dhtVars, startVars, userVars, closerVars,
              announcerVars, serverVars, grpVars
<1>2. CASE DhtNext
  BY <1>2, StartInv, RunInv, ServeInv, RpcInv, UserInv DEF DhtNext
<1> QED
  BY <1>1, <1>2

-----------------------------------------------------------------------------
(* The invariant holds in every state of a DHT's life.                     *)
THEOREM LifeInvariance == DhtSpec => []LifeInv
  BY LifeInit, LifeStep, PTL DEF DhtSpec

(* dht.grp counts no less than its goroutines, and a Shutdown after Start  *)
(* closes the node only when neither the announcer and its announcements   *)
(* nor the RPC server and its calls are left, however many there are.      *)
THEOREM ClosedLast == DhtSpec => []NodeClosedLast
<1>1. LifeInv => NodeClosedLast
  BY DEF LifeInv, CountCovers, LateShutdown, NodeClosedLast
<1> QED
  BY LifeInvariance, <1>1, PTL

-----------------------------------------------------------------------------
(* Tokens.                                                                 *)

(* What is true of a token when the ticker fires in r ticks.               *)
Lasting(t, r) ==
    /\ t \in Token
    /\ t.made = "prev" => t.age + r >= Interval
    /\ t.made = "out" => t.age >= Interval

AllLasting ==
    /\ \A a \in Client : Lasting(reply[a], rotateIn) /\ Lasting(cache[a].token, rotateIn)
    /\ \A m \in flight : Lasting(m.token, rotateIn)

(* The inductive invariant.                                                *)
TokenInv == StorageTypeOK /\ IsFiniteSet(flight) /\ AllLasting

-----------------------------------------------------------------------------
(* What each event does to one token: the copy of the secret, its          *)
(* overwriting, the passing of time, a restart.                            *)
LEMMA TokenSteps ==
    ASSUME NEW r \in 0 .. Interval, NEW t, Lasting(t, r)
    PROVE  /\ r = 0 => Lasting(RotatedOut(t), 0)
           /\ Lasting(Aged(t), Interval)
           /\ r > 0 => Lasting(Older(t), r - 1)
           /\ Lasting(Forgotten(t), Interval)
<1> USE StorageAssumption DEF Lasting, Token
<1>1. r = 0 => Lasting(RotatedOut(t), 0)
  BY DEF RotatedOut
<1>2. Lasting(Aged(t), Interval)
  BY DEF Aged
<1>3. r > 0 => Lasting(Older(t), r - 1)
  BY DEF Older, Later, NoToken
<1>4. Lasting(Forgotten(t), Interval)
  BY DEF Forgotten, NoToken
<1> QED
  BY <1>1, <1>2, <1>3, <1>4

LEMMA NoTokenLasts == \A r \in 0 .. Interval : Lasting(NoToken, r)
BY StorageAssumption DEF Lasting, Token, NoToken

(* Changing every request under way makes no more of them.                 *)
LEMMA NoMore ==
    ASSUME NEW S, IsFiniteSet(S), NEW g, DOMAIN g = S
    PROVE  /\ IsFiniteSet({g[m] : m \in S})
           /\ Cardinality({g[m] : m \in S}) <= Cardinality(S)
<1> DEFINE T == {g[m] : m \in S}
           f == [m \in S |-> g[m]]
<1>1. f \in Surjection(S, T)
  BY DEF Surjection
<1> QED
  BY <1>1, FS_Surjection

(* A step that changes every token alike, given the tokens it makes.       *)
LEMMA EveryToken ==
    ASSUME TokenInv,
           NEW g \in [flight -> Store],
           flight' = {g[m] : m \in flight},
           rotateIn' \in 0 .. Interval,
           \A m \in flight : Lasting(g[m].token, rotateIn'),
           reply' \in [Client -> Token],
           cache' \in [Client -> Entry],
           \A a \in Client : Lasting(reply'[a], rotateIn') /\ Lasting(cache'[a].token, rotateIn'),
           rotating' \in BOOLEAN,
           hashes' \in [Hash -> SUBSET (Client \cup {Self, ZeroID})],
           contacts' \in [Client \cup {Self, ZeroID} -> StoredContact],
           UNCHANGED <<getting, want>>,
           restarts' \in 0 .. MaxRestarts
    PROVE  TokenInv'
<1>1. IsFiniteSet(flight') /\ Cardinality(flight') <= Cardinality(flight)
  BY NoMore DEF TokenInv
<1>2. Cardinality(flight') <= MaxFlight
  <2>1. Cardinality(flight) \in Nat /\ Cardinality(flight') \in Nat
    BY <1>1, FS_CardinalityType DEF TokenInv
  <2> QED
    BY <1>1, <2>1, StorageAssumption DEF TokenInv, StorageTypeOK
<1>3. StorageTypeOK'
  BY <1>2 DEF TokenInv, StorageTypeOK
<1>4. AllLasting'
  BY DEF AllLasting
<1> QED
  BY <1>1, <1>3, <1>4 DEF TokenInv

(* A new storing node satisfies the invariant.                             *)
LEMMA TokenInit == StorageInit => TokenInv
<1> SUFFICES ASSUME StorageInit PROVE TokenInv
  OBVIOUS
<1>1. rotating \in BOOLEAN
  BY Zenon DEF StorageInit
<1>2. StorageTypeOK
  BY <1>1, FS_EmptySet, StorageAssumption
  DEF StorageInit, StorageTypeOK, Token, NoToken, Entry, NoEntry, StoredContact, NoContact
<1>3. AllLasting
  BY NoTokenLasts, StorageAssumption DEF StorageInit, AllLasting, NoEntry
<1> QED
  BY <1>2, <1>3, FS_EmptySet DEF StorageInit, TokenInv

-----------------------------------------------------------------------------
(* The four events that reach every token.                                 *)

LEMMA RotateCopyInv == TokenInv /\ RotateCopy => TokenInv'
<1> SUFFICES ASSUME TokenInv, RotateCopy PROVE TokenInv'
  OBVIOUS
<1> DEFINE g == [m \in flight |-> [m EXCEPT !.token = RotatedOut(@)]]
<1>1. rotateIn = 0 /\ rotateIn' = 0 /\ 0 \in 0 .. Interval /\ UNCHANGED <<stored, getting, want, restarts>>
  BY StorageAssumption DEF RotateCopy
<1>2. \A t : Lasting(t, 0) => Lasting(RotatedOut(t), 0) /\ RotatedOut(t) \in Token
  BY <1>1, TokenSteps DEF Lasting
<1>3. /\ g \in [flight -> Store] /\ flight' = {g[m] : m \in flight}
      /\ \A m \in flight : Lasting(g[m].token, 0)
  <2>1. ASSUME NEW m \in flight
        PROVE  g[m] \in Store /\ g[m].token = RotatedOut(m.token) /\ Lasting(m.token, 0)
    BY <1>1, <1>2 DEF TokenInv, StorageTypeOK, Store, AllLasting
  <2>2. flight' = {g[m] : m \in flight}
    BY DEF RotateCopy, AllTokens
  <2> QED
    BY <1>2, <2>1, <2>2
<1>4. /\ reply' \in [Client -> Token] /\ cache' \in [Client -> Entry]
      /\ \A a \in Client : Lasting(reply'[a], 0) /\ Lasting(cache'[a].token, 0)
  BY <1>1, <1>2 DEF RotateCopy, AllTokens, TokenInv, StorageTypeOK, Entry, AllLasting
<1>5. rotating' \in BOOLEAN
  BY Zenon DEF RotateCopy
<1> HIDE DEF g
<1> QED
  BY <1>1, <1>3, <1>4, <1>5, EveryToken DEF TokenInv, StorageTypeOK, stored

LEMMA RotateFillInv == TokenInv /\ RotateFill => TokenInv'
<1> SUFFICES ASSUME TokenInv, RotateFill PROVE TokenInv'
  OBVIOUS
<1> DEFINE g == [m \in flight |-> [m EXCEPT !.token = Aged(@)]]
<1>1. rotateIn' = Interval /\ Interval \in 0 .. Interval /\ UNCHANGED <<stored, getting, want, restarts>>
  BY StorageAssumption DEF RotateFill
<1>2. \A t : Lasting(t, rotateIn) => Lasting(Aged(t), Interval) /\ Aged(t) \in Token
  BY TokenSteps DEF Lasting, TokenInv, StorageTypeOK
<1>3. /\ g \in [flight -> Store] /\ flight' = {g[m] : m \in flight}
      /\ \A m \in flight : Lasting(g[m].token, Interval)
  <2>1. ASSUME NEW m \in flight
        PROVE  g[m] \in Store /\ g[m].token = Aged(m.token) /\ Lasting(m.token, rotateIn)
    BY <1>2 DEF TokenInv, StorageTypeOK, Store, AllLasting
  <2>2. flight' = {g[m] : m \in flight}
    BY DEF RotateFill, AllTokens
  <2> QED
    BY <1>2, <2>1, <2>2
<1>4. /\ reply' \in [Client -> Token] /\ cache' \in [Client -> Entry]
      /\ \A a \in Client : Lasting(reply'[a], Interval) /\ Lasting(cache'[a].token, Interval)
  BY <1>2 DEF RotateFill, AllTokens, TokenInv, StorageTypeOK, Entry, AllLasting
<1>5. rotating' \in BOOLEAN
  BY Zenon DEF RotateFill
<1> HIDE DEF g
<1> QED
  BY <1>1, <1>3, <1>4, <1>5, EveryToken DEF TokenInv, StorageTypeOK, stored

LEMMA TickInv == TokenInv /\ Tick => TokenInv'
<1> SUFFICES ASSUME TokenInv, Tick PROVE TokenInv'
  OBVIOUS
<1> DEFINE g == [m \in flight |-> [m EXCEPT !.token = Older(@)]]
<1>1. rotateIn > 0 /\ rotateIn' = rotateIn - 1 /\ rotateIn' \in 0 .. Interval
      /\ UNCHANGED <<rotating, stored, getting, want, restarts>>
  BY StorageAssumption DEF Tick, TokenInv, StorageTypeOK
<1>2. \A t : Lasting(t, rotateIn) => Lasting(Older(t), rotateIn') /\ Older(t) \in Token
  BY <1>1, TokenSteps DEF Lasting, TokenInv, StorageTypeOK
<1>3. /\ g \in [flight -> Store] /\ flight' = {g[m] : m \in flight}
      /\ \A m \in flight : Lasting(g[m].token, rotateIn')
  <2>1. ASSUME NEW m \in flight
        PROVE  g[m] \in Store /\ g[m].token = Older(m.token) /\ Lasting(m.token, rotateIn)
    BY <1>2 DEF TokenInv, StorageTypeOK, Store, AllLasting
  <2>2. flight' = {g[m] : m \in flight}
    BY DEF Tick
  <2> QED
    BY <1>2, <2>1, <2>2
<1>4. /\ reply' \in [Client -> Token]
      /\ \A a \in Client : Lasting(reply'[a], rotateIn')
  BY <1>2 DEF Tick, TokenInv, StorageTypeOK, AllLasting
<1>5. /\ cache' \in [Client -> Entry]
      /\ \A a \in Client : Lasting(cache'[a].token, rotateIn')
  <2>1. \A n \in 0 .. Interval : Later(n) \in 0 .. Interval
    BY StorageAssumption DEF Later
  <2> QED
    BY <1>2, <2>1 DEF Tick, TokenInv, StorageTypeOK, Entry, AllLasting
<1> HIDE DEF g
<1> QED
  BY <1>1, <1>3, <1>4, <1>5, EveryToken DEF TokenInv, StorageTypeOK, stored

LEMMA RestartInv == TokenInv /\ Restart => TokenInv'
<1> SUFFICES ASSUME TokenInv, Restart PROVE TokenInv'
  OBVIOUS
<1> DEFINE g == [m \in flight |-> [m EXCEPT !.token = Forgotten(@)]]
<1>1. rotateIn' = Interval /\ Interval \in 0 .. Interval /\ UNCHANGED <<getting, want>>
      /\ restarts' \in 0 .. MaxRestarts
  BY StorageAssumption DEF Restart, TokenInv, StorageTypeOK
<1>2. \A t : Lasting(t, rotateIn) => Lasting(Forgotten(t), Interval) /\ Forgotten(t) \in Token
  BY TokenSteps DEF Lasting, TokenInv, StorageTypeOK
<1>3. /\ g \in [flight -> Store] /\ flight' = {g[m] : m \in flight}
      /\ \A m \in flight : Lasting(g[m].token, Interval)
  <2>1. ASSUME NEW m \in flight
        PROVE  g[m] \in Store /\ g[m].token = Forgotten(m.token) /\ Lasting(m.token, rotateIn)
    BY <1>2 DEF TokenInv, StorageTypeOK, Store, AllLasting
  <2>2. flight' = {g[m] : m \in flight}
    BY DEF Restart, AllTokens
  <2> QED
    BY <1>2, <2>1, <2>2
<1>4. /\ reply' \in [Client -> Token] /\ cache' \in [Client -> Entry]
      /\ \A a \in Client : Lasting(reply'[a], Interval) /\ Lasting(cache'[a].token, Interval)
  BY <1>2 DEF Restart, AllTokens, TokenInv, StorageTypeOK, Entry, AllLasting
<1>5. rotating' \in BOOLEAN
  BY Zenon DEF Restart
<1>6. /\ hashes' \in [Hash -> SUBSET (Client \cup {Self, ZeroID})]
      /\ contacts' \in [Client \cup {Self, ZeroID} -> StoredContact]
  BY DEF Restart, TokenInv, StorageTypeOK, StoredContact, NoContact
<1> HIDE DEF g
<1> QED
  BY <1>1, <1>3, <1>4, <1>5, <1>6, EveryToken

-----------------------------------------------------------------------------
(* Sending a store keeps the requests under way within their bound, and    *)
(* adds no token but the one it carries.                                   *)
LEMMA Sent ==
    ASSUME TokenInv, NEW a \in Client, NEW h \in Hash, NEW token,
           Lasting(token, rotateIn), Send(a, h, token)
    PROVE  /\ flight' \subseteq Store /\ IsFiniteSet(flight')
           /\ Cardinality(flight') <= MaxFlight
           /\ \A m \in flight' : Lasting(m.token, rotateIn)
<1> DEFINE x == [from |-> a, hash |-> h, token |-> token]
<1>1. x \in Store /\ Lasting(x.token, rotateIn)
  BY DEF Store, Lasting
<1>2. /\ flight' \in {flight \cup {x}, {x}}
      /\ flight' = flight \cup {x} => Cardinality(flight \cup {x}) <= MaxFlight \/ flight' = {x}
  BY DEF Send
<1>3. IsFiniteSet(flight \cup {x}) /\ IsFiniteSet({x}) /\ Cardinality({x}) = 1
  BY FS_AddElement, FS_Singleton DEF TokenInv
<1> HIDE DEF x
<1>4. Cardinality(flight') <= MaxFlight
  BY <1>2, <1>3, StorageAssumption
<1> QED
  BY <1>1, <1>2, <1>3, <1>4 DEF TokenInv, StorageTypeOK, AllLasting

(* Storing a contact keeps the shape of the contact store.                 *)
LEMMA Upserted ==
    ASSUME StorageTypeOK, NEW h \in Hash, NEW c \in StoredContact, Upsert(h, c)
    PROVE  /\ hashes' \in [Hash -> SUBSET (Client \cup {Self, ZeroID})]
           /\ contacts' \in [Client \cup {Self, ZeroID} -> StoredContact]
BY DEF StorageTypeOK, Upsert, StoredContact

(* What the storing node and the announcing nodes do keeps the invariant.  *)
LEMMA RequestsInv ==
    ASSUME TokenInv,
           \/ \E h \in Hash : SelfStore(h)
           \/ \E m \in flight : StoreArrives(m) \/ StoreLost(m)
    PROVE  TokenInv'
<1> USE DEF TokenInv
<1>1. ASSUME NEW h \in Hash, SelfStore(h) PROVE TokenInv'
  <2>1. [id |-> Self, addr |-> Self] \in StoredContact
    BY DEF StoredContact
  <2> QED
    BY <1>1, <2>1, Upserted DEF SelfStore, manager, client, StorageTypeOK, AllLasting
<1>2. ASSUME flight' \subseteq flight
      PROVE  /\ flight' \subseteq Store /\ IsFiniteSet(flight') /\ Cardinality(flight') <= MaxFlight
             /\ \A m \in flight' : Lasting(m.token, rotateIn)
  <2>1. IsFiniteSet(flight') /\ Cardinality(flight') <= Cardinality(flight)
    BY <1>2, FS_Subset
  <2>2. Cardinality(flight) \in Nat /\ Cardinality(flight') \in Nat
    BY <2>1, FS_CardinalityType
  <2> QED
    BY <1>2, <2>1, <2>2, StorageAssumption DEF StorageTypeOK, AllLasting
<1>3. ASSUME NEW m \in flight, StoreLost(m) PROVE TokenInv'
  <2>1. flight' \subseteq flight
    BY <1>3 DEF StoreLost
  <2> QED
    BY <1>2, <1>3, <2>1 DEF StoreLost, manager, stored, client, StorageTypeOK, AllLasting
<1>4. ASSUME NEW m \in flight, StoreArrives(m) PROVE TokenInv'
  <2>1. flight' \subseteq flight
    BY <1>4 DEF StoreArrives
  <2>2. [id |-> ZeroID, addr |-> m.from] \in StoredContact /\ m.hash \in Hash
    BY DEF StorageTypeOK, Store, StoredContact
  <2>3. /\ hashes' \in [Hash -> SUBSET (Client \cup {Self, ZeroID})]
        /\ contacts' \in [Client \cup {Self, ZeroID} -> StoredContact]
    BY <1>4, <2>2, Upserted DEF StoreArrives, stored, StorageTypeOK
  <2> QED
    BY <1>2, <1>4, <2>1, <2>3 DEF StoreArrives, manager, client, StorageTypeOK, AllLasting
<1> QED
  BY <1>1, <1>3, <1>4

LEMMA ClientsInv ==
    ASSUME TokenInv, NEW a \in Client,
           \/ \E h \in Hash : Announce(a, h)
           \/ \E t \in NewTokens : GiveToken(a, t)
           \/ TokenReceived(a) \/ TokenMissed(a)
    PROVE  TokenInv'
<1> USE DEF TokenInv
<1>1. ASSUME NEW h \in Hash, Announce(a, h) PROVE TokenInv'
  <2>1. CASE Usable(a)
    <3>1. /\ flight' \subseteq Store /\ IsFiniteSet(flight') /\ Cardinality(flight') <= MaxFlight
          /\ \A m \in flight' : Lasting(m.token, rotateIn)
      BY <1>1, <2>1, Sent DEF Announce, AllLasting
    <3> QED
      BY <1>1, <2>1, <3>1 DEF Announce, manager, stored, StorageTypeOK, AllLasting
  <2>2. CASE ~Usable(a)
    BY <1>1, <2>2 DEF Announce, manager, stored, StorageTypeOK, AllLasting
  <2> QED
    BY <2>1, <2>2
<1>2. ASSUME NEW t \in NewTokens, GiveToken(a, t) PROVE TokenInv'
  <2>1. Lasting(t, rotateIn)
    BY StorageAssumption DEF NewTokens, Lasting, Token
  <2> QED
    BY <1>2, <2>1 DEF GiveToken, manager, stored, StorageTypeOK, AllLasting, Lasting
<1>3. CASE TokenReceived(a)
  <2>1. Lasting(reply[a], rotateIn) /\ want[a] \in Hash
    BY DEF AllLasting, StorageTypeOK
  <2>2. /\ flight' \subseteq Store /\ IsFiniteSet(flight') /\ Cardinality(flight') <= MaxFlight
        /\ \A m \in flight' : Lasting(m.token, rotateIn)
    BY <1>3, <2>1, Sent DEF TokenReceived
  <2>3. [token |-> reply[a], received |-> 0] \in Entry /\ NoToken \in Token /\ Lasting(NoToken, rotateIn)
    BY <2>1, NoTokenLasts, StorageAssumption DEF StorageTypeOK, Entry, Lasting
  <2>4. cache' \in [Client -> Entry] /\ \A b \in Client : Lasting(cache'[b].token, rotateIn)
    BY <1>3, <2>1, <2>3 DEF TokenReceived, StorageTypeOK, AllLasting
  <2>5. reply' \in [Client -> Token] /\ \A b \in Client : Lasting(reply'[b], rotateIn)
    BY <1>3, <2>3 DEF TokenReceived, StorageTypeOK, AllLasting
  <2> QED
    BY <1>3, <2>2, <2>4, <2>5 DEF TokenReceived, manager, stored, StorageTypeOK, AllLasting
<1>4. CASE TokenMissed(a)
  <2>1. Lasting(NoToken, rotateIn) /\ NoToken \in Token /\ want[a] \in Hash
    BY NoTokenLasts DEF StorageTypeOK, Lasting
  <2>2. /\ flight' \subseteq Store /\ IsFiniteSet(flight') /\ Cardinality(flight') <= MaxFlight
        /\ \A m \in flight' : Lasting(m.token, rotateIn)
    BY <1>4, <2>1, Sent DEF TokenMissed
  <2>3. reply' \in [Client -> Token] /\ \A b \in Client : Lasting(reply'[b], rotateIn)
    BY <1>4, <2>1 DEF TokenMissed, StorageTypeOK, AllLasting
  <2> QED
    BY <1>4, <2>2, <2>3 DEF TokenMissed, manager, stored, StorageTypeOK, AllLasting
<1> QED
  BY <1>1, <1>2, <1>3, <1>4

(* Every step keeps the invariant.                                         *)
LEMMA TokenStep == TokenInv /\ [StorageNext]_storageVars => TokenInv'
<1> SUFFICES ASSUME TokenInv, [StorageNext]_storageVars PROVE TokenInv'
  OBVIOUS
<1>1. CASE UNCHANGED storageVars
  BY <1>1 DEF storageVars, manager, stored, client, TokenInv, StorageTypeOK, AllLasting
<1> QED
  BY <1>1, RotateCopyInv, RotateFillInv, TickInv, RestartInv, RequestsInv, ClientsInv DEF StorageNext

-----------------------------------------------------------------------------
(* A token is accepted for at least one rotation interval after it was     *)
(* made, wherever the rotation falls, while requests are lost, delayed or  *)
(* duplicated.                                                             *)
THEOREM TokensLast == StorageSpec => []TokenLasts
<1>1. TokenInv => TokenLasts
  BY DEF TokenInv, AllLasting, Lasting, TokenLasts, TokensAround
<1> QED
  BY TokenInit, TokenStep, <1>1, PTL DEF StorageSpec

==============================================================================
