--------------------------------- MODULE Dht ---------------------------------
(***************************************************************************)
(* The life of a DHT: dht/dht.go (Start, join, WaitUntilJoined, Get,       *)
(* Shutdown), dht/rpc.go, and the stop group that holds it together,       *)
(* extras/stop.                                                            *)
(*                                                                         *)
(* Start runs in one goroutine while others wait for the join, get values  *)
(* and shut the DHT down.  Node, ContactFinder and Announcer are modules   *)
(* of their own; here a call of the node is answered or not, a search      *)
(* ends, and of the announcer there is what it does to the stop group,     *)
(* without a notification channel.  Names that Node has too start with Dht *)
(* here: NodeProofs is about both.                                         *)
(***************************************************************************)
EXTENDS Integers, FiniteSets

CONSTANTS Seeds,            \* conf.SeedNodes
          Calls,            \* RPC calls that can be under way at a time
          MaxAnnouncing,    \* bound: announcements under way at a time
          DhtMaxLeak        \* bound: units of the group without a goroutine that are counted

ASSUME DhtAssumption == MaxAnnouncing \in Nat /\ DhtMaxLeak \in Nat

VARIABLES rpcPort,      \* conf.RPCPort > 0
          start,        \* how far Start is
          unpinged,     \* seeds join has not pinged
          responded,    \* atLeastOneNodeResponded
          node,         \* dht.node: none, up or closed
          joined,       \* dht.joined is closed
          waiter,       \* a caller of WaitUntilJoined
          stopped,      \* dht.grp's context is cancelled
          count,        \* dht.grp's counter
          announcer,    \* the goroutine of runAnnouncer
          limiter,      \* the goroutine runAnnouncer starts
          announcing,   \* the number of goroutines that announce a hash
          server,       \* the goroutine of runRPCServer
          listener,     \* the goroutine of ListenAndServe
          call,         \* what each RPC call does
          getter,       \* a caller of Get
          dhtCloser,    \* the caller of Shutdown
          early         \* Shutdown was called before Start returned

startVars == <<start, unpinged, responded, joined>>
grpVars == <<stopped, count>>
announcerVars == <<announcer, limiter, announcing>>
serverVars == <<server, listener, call>>
userVars == <<waiter, getter>>
closerVars == <<dhtCloser, early>>
dhtVars == <<rpcPort, startVars, node, grpVars, announcerVars, serverVars, userVars, closerVars>>

\* The RPC methods that wait for the node; GetRoutingTable and AddKnownNode are answered at once.
Methods == {"Ping", "FindNode", "FindValue", "IterativeFindValue"}

NoRpc == "none"

DhtTypeOK ==
    /\ rpcPort \in BOOLEAN
    /\ start \in {"none", "ping", "search", "joined", "serve", "returned", "failed"}
    /\ unpinged \subseteq Seeds
    /\ responded \in BOOLEAN /\ joined \in BOOLEAN
    /\ node \in {"none", "up", "closed"}
    /\ stopped \in BOOLEAN /\ count \in Nat
    /\ announcer \in {"none", "started", "running", "ended"}
    /\ limiter \in {"none", "running", "ended"}
    /\ announcing \in 0 .. MaxAnnouncing
    /\ server \in {"none", "started", "running", "closing", "ended"}
    /\ listener \in {"none", "running", "ended"}
    /\ call \in [Calls -> Methods \cup {NoRpc}]
    /\ waiter \in {"idle", "waiting", "returned"}
    /\ getter \in {"idle", "search", "returned"}
    /\ dhtCloser \in {"idle", "wait", "node", "returned"}
    /\ early \in BOOLEAN

----------------------------------------------------------------------------
(* The stop group.  Child groups are cancelled with their parent; a group  *)
(* made without a parent is not.                                           *)

Add(n) == count' = count + n

GroupDone == count' = count - 1

GroupStop == stopped' = TRUE

Wait == count = 0

----------------------------------------------------------------------------
(* Start.                                                                  *)

\* Listening or reading the address fails: nothing is started, and nobody is told.
StartFails ==
    /\ start = "none"
    /\ start' = "failed"
    /\ UNCHANGED <<rpcPort, unpinged, responded, joined, node, grpVars, announcerVars, serverVars,
                   userVars, closerVars>>

\* net.ListenPacket, then connect: the contact, the node with its goroutines, the token cache.
connect ==
    /\ start = "none"
    /\ node' = "up"
    /\ start' = "ping"
    /\ UNCHANGED <<rpcPort, unpinged, responded, joined, grpVars, announcerVars, serverVars, userVars,
                   closerVars>>

\* A ping that is answered in time; a closed node gets no answers.
PingAnswers == IF node = "up" THEN BOOLEAN ELSE {FALSE}

PingSeed ==
    /\ start = "ping"
    /\ \E seed \in unpinged, answer \in PingAnswers :
          /\ unpinged' = unpinged \ {seed}
          /\ responded' = (responded \/ answer)
    /\ UNCHANGED <<rpcPort, start, joined, node, grpVars, announcerVars, serverVars, userVars, closerVars>>

\* As a slip: dht.joined is closed only if a seed responded.
PingsDoneQuietly ==
    /\ start = "ping"
    /\ unpinged = {}
    /\ start' = IF responded THEN "search" ELSE "joined"
    /\ UNCHANGED <<rpcPort, unpinged, responded, joined, node, grpVars, announcerVars, serverVars,
                   userVars, closerVars>>

\* join ends here if no seed responded, and closes dht.joined all the same.
PingsDone ==
    /\ start = "ping"
    /\ unpinged = {}
    /\ start' = IF responded THEN "search" ELSE "joined"
    /\ joined' = ~responded
    /\ UNCHANGED <<rpcPort, unpinged, responded, node, grpVars, announcerVars, serverVars, userVars,
                   closerVars>>

\* FindContacts on its own id ends by itself or because the group is stopped.
SearchEnds ==
    /\ start = "search"
    /\ start' = "joined"
    /\ joined' = TRUE
    /\ UNCHANGED <<rpcPort, unpinged, responded, node, grpVars, announcerVars, serverVars, userVars,
                   closerVars>>

\* The group counts the announcer only now, when whoever waited for the join may have stopped it.
StartAnnouncer ==
    /\ start = "joined"
    /\ Add(1)
    /\ announcer' = "started"
    /\ start' = IF rpcPort THEN "serve" ELSE "returned"
    /\ UNCHANGED <<rpcPort, unpinged, responded, joined, node, stopped, limiter, announcing, serverVars,
                   userVars, closerVars>>

StartServer ==
    /\ start = "serve"
    /\ Add(1)
    /\ server' = "started"
    /\ start' = "returned"
    /\ UNCHANGED <<rpcPort, unpinged, responded, joined, node, stopped, announcerVars, listener, call,
                   userVars, closerVars>>

----------------------------------------------------------------------------
(* The announcer and its rate limiter.                                     *)

runAnnouncer ==
    /\ announcer = "started"
    /\ Add(1)
    /\ announcer' = "running"
    /\ limiter' = "running"
    /\ UNCHANGED <<rpcPort, startVars, node, stopped, announcing, serverVars, userVars, closerVars>>

\* The goroutines the group is meant to count.
Counted ==
    (IF announcer \in {"started", "running"} THEN 1 ELSE 0) + (IF limiter = "running" THEN 1 ELSE 0)
      + (IF server \in {"started", "running", "closing"} THEN 1 ELSE 0) + announcing

\* A hash is due, also when the group is stopped: select picks any case that is ready.
AnnounceHash ==
    /\ announcer = "running"
    /\ announcing < MaxAnnouncing
    /\ Add(1)
    /\ announcing' = announcing + 1
    /\ UNCHANGED <<rpcPort, startVars, node, stopped, announcer, limiter, serverVars, userVars, closerVars>>

\* A hash is not due yet: continue, without Done.  Past DhtMaxLeak such units are not counted.
HashNotDue ==
    /\ announcer = "running"
    /\ count - Counted < DhtMaxLeak
    /\ Add(1)
    /\ UNCHANGED <<rpcPort, startVars, node, stopped, announcerVars, serverVars, userVars, closerVars>>

\* announce returns: its search and its stores end by themselves or because the group is stopped.
AnnouncementEnds ==
    /\ announcing > 0
    /\ announcing' = announcing - 1
    /\ GroupDone
    /\ UNCHANGED <<rpcPort, startVars, node, stopped, announcer, limiter, serverVars, userVars, closerVars>>

AnnouncerReturns ==
    /\ announcer = "running"
    /\ stopped
    /\ announcer' = "ended"
    /\ GroupDone
    /\ UNCHANGED <<rpcPort, startVars, node, stopped, limiter, announcing, serverVars, userVars, closerVars>>

LimiterReturns ==
    /\ limiter = "running"
    /\ stopped
    /\ limiter' = "ended"
    /\ GroupDone
    /\ UNCHANGED <<rpcPort, startVars, node, stopped, announcer, announcing, serverVars, userVars, closerVars>>

----------------------------------------------------------------------------
(* The RPC server.                                                         *)

runRPCServer ==
    /\ server = "started"
    /\ server' = "running"
    /\ listener' = "running"
    /\ UNCHANGED <<rpcPort, startVars, node, grpVars, announcerVars, call, userVars, closerVars>>

\* RegisterService fails.
RegisterFails ==
    /\ server = "started"
    /\ server' = "ended"
    /\ GroupDone
    /\ UNCHANGED <<rpcPort, startVars, node, stopped, announcerVars, listener, call, userVars, closerVars>>

\* The port may be taken; the goroutine of the server does not hear of it.
ListenFails ==
    /\ listener = "running"
    /\ server = "running" /\ \A c \in Calls : call[c] = NoRpc
    /\ listener' = "ended"
    /\ UNCHANGED <<rpcPort, startVars, node, grpVars, announcerVars, server, call, userVars, closerVars>>

\* server.Shutdown takes no more calls.
CloseServer ==
    /\ server = "running"
    /\ stopped
    /\ server' = "closing"
    /\ UNCHANGED <<rpcPort, startVars, node, grpVars, announcerVars, listener, call, userVars, closerVars>>

ListenerReturns ==
    /\ listener = "running"
    /\ server \in {"closing", "ended"}
    /\ listener' = "ended"
    /\ UNCHANGED <<rpcPort, startVars, node, grpVars, announcerVars, server, call, userVars, closerVars>>

\* As a slip: server.Close, which does not wait for the calls.
ServerReturnsAtOnce ==
    /\ server = "closing"
    /\ listener = "ended"
    /\ server' = "ended"
    /\ GroupDone
    /\ UNCHANGED <<rpcPort, startVars, node, stopped, announcerVars, listener, call, userVars, closerVars>>

\* Once the calls under way have been answered, Shutdown returns; then wg.Wait for the listener,
\* but not if Shutdown returned an error.
ServerReturns ==
    /\ server = "closing"
    /\ \A c \in Calls : call[c] = NoRpc
    /\ server' = "ended"
    /\ GroupDone
    /\ UNCHANGED <<rpcPort, startVars, node, stopped, announcerVars, listener, call, userVars, closerVars>>

\* A call with arguments that can be read; others are refused at once.
RpcCall(c, method) ==
    /\ listener = "running" /\ server = "running"
    /\ call[c] = NoRpc
    /\ call' = [call EXCEPT ![c] = method]
    /\ UNCHANGED <<rpcPort, startVars, node, grpVars, announcerVars, server, listener, userVars, closerVars>>

\* Ping, FindNode and FindValue send one request; IterativeFindValue searches with a group of its
\* own, which Shutdown does not stop.
RpcAnswer(c) ==
    /\ call[c] # NoRpc
    /\ call' = [call EXCEPT ![c] = NoRpc]
    /\ UNCHANGED <<rpcPort, startVars, node, grpVars, announcerVars, server, listener, userVars, closerVars>>

----------------------------------------------------------------------------
(* Callers.                                                                *)

WaitUntilJoined ==
    /\ waiter = "idle"
    /\ waiter' = "waiting"
    /\ UNCHANGED <<rpcPort, startVars, node, grpVars, announcerVars, serverVars, getter, closerVars>>

WaiterReturns ==
    /\ waiter = "waiting"
    /\ joined
    /\ waiter' = "returned"
    /\ UNCHANGED <<rpcPort, startVars, node, grpVars, announcerVars, serverVars, getter, closerVars>>

\* Without a node Get and Shutdown panic.
Get ==
    /\ getter = "idle"
    /\ node # "none"
    /\ getter' = "search"
    /\ UNCHANGED <<rpcPort, startVars, node, grpVars, announcerVars, serverVars, waiter, closerVars>>

GetReturns ==
    /\ getter = "search"
    /\ getter' = "returned"
    /\ UNCHANGED <<rpcPort, startVars, node, grpVars, announcerVars, serverVars, waiter, closerVars>>

Shutdown ==
    /\ dhtCloser = "idle"
    /\ node # "none"
    /\ GroupStop
    /\ dhtCloser' = "wait"
    /\ early' = (start # "returned")
    /\ UNCHANGED <<rpcPort, startVars, node, count, announcerVars, serverVars, userVars>>

StopAndWaitReturns ==
    /\ dhtCloser = "wait"
    /\ Wait
    /\ dhtCloser' = "node"
    /\ UNCHANGED <<rpcPort, startVars, node, grpVars, announcerVars, serverVars, userVars, early>>

DhtShutdownReturns ==
    /\ dhtCloser = "node"
    /\ node' = "closed"
    /\ dhtCloser' = "returned"
    /\ UNCHANGED <<rpcPort, startVars, grpVars, announcerVars, serverVars, userVars, early>>

----------------------------------------------------------------------------

DhtInit ==
    /\ rpcPort \in BOOLEAN
    /\ start = "none" /\ unpinged = Seeds /\ responded = FALSE /\ joined = FALSE
    /\ node = "none"
    /\ stopped = FALSE /\ count = 0
    /\ announcer = "none" /\ limiter = "none" /\ announcing = 0
    /\ server = "none" /\ listener = "none" /\ call = [c \in Calls |-> NoRpc]
    /\ waiter = "idle" /\ getter = "idle"
    /\ dhtCloser = "idle" /\ early = FALSE

Starting == connect \/ PingSeed \/ PingsDone \/ SearchEnds \/ StartAnnouncer \/ StartServer

Running ==
    \/ runAnnouncer \/ AnnouncerReturns \/ LimiterReturns
    \/ AnnounceHash \/ HashNotDue \/ AnnouncementEnds

Serving == runRPCServer \/ RegisterFails \/ CloseServer \/ ListenerReturns \/ ServerReturns

DhtNext ==
    \/ Starting \/ StartFails
    \/ Running
    \/ Serving \/ ListenFails
    \/ \E c \in Calls : RpcAnswer(c) \/ \E method \in Methods : RpcCall(c, method)
    \/ WaitUntilJoined \/ WaiterReturns
    \/ Get \/ GetReturns
    \/ Shutdown \/ StopAndWaitReturns \/ DhtShutdownReturns

DhtSpec == DhtInit /\ [][DhtNext]_dhtVars

\* Every goroutine that can go on does; nobody has to call anything.
DhtFairness ==
    /\ WF_dhtVars(PingSeed) /\ WF_dhtVars(PingsDone) /\ WF_dhtVars(SearchEnds)
    /\ WF_dhtVars(StartAnnouncer) /\ WF_dhtVars(StartServer)
    /\ WF_dhtVars(runAnnouncer) /\ WF_dhtVars(AnnouncerReturns) /\ WF_dhtVars(LimiterReturns)
    /\ WF_dhtVars(AnnouncementEnds)
    /\ WF_dhtVars(runRPCServer) /\ WF_dhtVars(CloseServer) /\ WF_dhtVars(ListenerReturns) /\ WF_dhtVars(ServerReturns)
    /\ \A c \in Calls : WF_dhtVars(RpcAnswer(c))
    /\ WF_dhtVars(WaiterReturns) /\ WF_dhtVars(GetReturns)
    /\ WF_dhtVars(StopAndWaitReturns) /\ WF_dhtVars(DhtShutdownReturns)

FairSpec == DhtSpec /\ DhtFairness

----------------------------------------------------------------------------

\* Nothing of the DHT uses the node any more.
Quiet ==
    /\ announcer \in {"none", "ended"} /\ limiter \in {"none", "ended"} /\ announcing = 0
    /\ server \in {"none", "ended"} /\ \A c \in Calls : call[c] = NoRpc

\* dht.grp counts no less than the goroutines that run for it, in every order of Add, Done and
\* Stop, so that Shutdown closes the node only when nothing of the DHT uses it any more, the
\* announcements and the RPC calls under way included, provided that Start had returned.  Shutdown
\* during Start, or right after WaitUntilJoined, does not wait for what Start is still to start.
NodeClosedLast ==
    /\ DhtTypeOK
    /\ count >= Counted
    /\ node = "closed" /\ ~early => Quiet

\* A stopped DHT comes to rest: Start returns, and every goroutine ends, also those that Start
\* launched after the group was stopped; and Shutdown returns, unless the group counts a unit that
\* no goroutine gives back (ShutdownEnds of module Announcer).
\* And whoever waits for the join is woken once the DHT is connected, whether or not a seed
\* responds and whether or not it is shut down meanwhile.
ComesToRest ==
    /\ dhtCloser # "idle" ~>
          [](/\ start = "returned" /\ Quiet /\ listener # "running" /\ getter # "search"
             /\ dhtCloser = "returned" \/ count > Counted)
    /\ waiter = "waiting" /\ node # "none" ~> waiter = "returned"

==============================================================================
