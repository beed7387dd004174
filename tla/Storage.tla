------------------------------ MODULE Storage -------------------------------
(***************************************************************************)
(* What a DHT node stores for others, and how they get it stored: the      *)
(* store and findValue requests of dht/node.go, the contact store          *)
(* (dht/store.go), the tokens a store needs (dht/token_manager.go) and, on *)
(* the announcing side, dht.store and the token cache                      *)
(* (dht/dht_announce.go, dht/token_cache.go).                              *)
(*                                                                         *)
(* One storing node and several announcing ones.  Requests and answers may *)
(* be lost, late or (stores) duplicated.  Routing is left to other modules.*)
(*                                                                         *)
(* Data abstractions: a token is the hash of its owner's id and address    *)
(* with a secret, so it is known by the secret's state; times are counted  *)
(* in ticks up to the rotation interval, which is also the cache's         *)
(* expiration (dht.connect).                                               *)
(***************************************************************************)
EXTENDS Integers, FiniteSets

CONSTANTS
    Client,         \* announcing nodes: one id and one address each
    Self,           \* the storing node
    ZeroID,         \* bits.Bitmap{}
    Hash,           \* blob hashes
    Interval,       \* tokenSecretRotationInterval, in ticks
    MaxFlight,      \* bound: store requests under way at once
    MaxRestarts     \* bound: restarts of the storing node

ASSUME StorageAssumption ==
    /\ Self \notin Client
    /\ ZeroID \notin Client \cup {Self}
    /\ Interval \in Nat \ {0}
    /\ MaxFlight \in Nat \ {0}
    /\ MaxRestarts \in Nat

VARIABLES
    rotateIn,       \* ticks until the token manager's ticker fires
    rotating,       \* prevSecret is copied, secret is being overwritten
    hashes,         \* store.hashes
    contacts,       \* store.contacts
    getting,        \* each client: "idle", or "fetch" in tokenCache.Get
    want,           \* the hash whose store waits for a token
    reply,          \* the answer to its findValue request, under way
    cache,          \* its token for the storing node
    flight,         \* store requests under way
    restarts        \* restarts so far

manager == <<rotateIn, rotating>>
stored == <<hashes, contacts>>
client == <<getting, want, reply, cache>>
storageVars == <<manager, stored, client, flight, restarts>>

-----------------------------------------------------------------------------
(* A token is made with the current or the previous secret, with one that  *)
(* was rotated out, with bytes of two secrets, by an earlier process, or   *)
(* is "".  age: ticks since it was made.                                   *)
Token   == [made : {"cur", "prev", "out", "torn", "earlier", "none"}, age : 0 .. Interval]
NoToken == [made |-> "none", age |-> 0]

Entry   == [token : Token, received : 0 .. Interval]
NoEntry == [token |-> NoToken, received |-> Interval]

Store   == [from : Client, hash : Hash, token : Token]

StoredContact == [id : Client \cup {Self, ZeroID}, addr : Client \cup {Self}]
NoContact == [id |-> ZeroID, addr |-> Self]

(* Every token there is, changed by F.                                     *)
AllTokens(F(_)) ==
    /\ reply'  = [a \in Client |-> F(reply[a])]
    /\ cache'  = [a \in Client |-> [cache[a] EXCEPT !.token = F(@)]]
    /\ flight' = {[m EXCEPT !.token = F(@)] : m \in flight}

StorageInit ==
    /\ rotateIn = Interval
    /\ rotating = FALSE
    /\ hashes = [h \in Hash |-> {}]
    /\ contacts = [id \in Client \cup {Self, ZeroID} |-> NoContact]
    /\ getting = [a \in Client |-> "idle"]
    /\ want \in [Client -> Hash]
    /\ reply = [a \in Client |-> NoToken]
    /\ cache = [a \in Client |-> NoEntry]
    /\ flight = {}
    /\ restarts = 0

-----------------------------------------------------------------------------
(* The token manager.                                                      *)

(* A slip of rotateSecret: the secret is not copied, so only one is known. *)
RotatedOutNow(t) == IF t.made \in {"cur", "prev"} THEN [t EXCEPT !.made = "out"] ELSE t

RotatedOut(t) == IF t.made = "prev" THEN [t EXCEPT !.made = "out"] ELSE t

(* The ticker fires: copy(prevSecret, secret).                             *)
RotateCopy ==
    /\ rotateIn = 0 /\ ~ rotating
    /\ rotating' = TRUE
    /\ AllTokens(RotatedOut)
    /\ UNCHANGED <<rotateIn, stored, getting, want, restarts>>

Aged(t) == IF t.made = "cur" THEN [t EXCEPT !.made = "prev"] ELSE t

(* rand.Read(secret)                                                       *)
RotateFill ==
    /\ rotating
    /\ rotating' = FALSE
    /\ rotateIn' = Interval
    /\ AllTokens(Aged)
    /\ UNCHANGED <<stored, getting, want, restarts>>

(* tokens.Get does not take the lock: while the secret is overwritten it   *)
(* may use bytes of both.                                                  *)
NewTokens == {[made |-> "cur", age |-> 0]}
                \cup (IF rotating THEN {[made |-> "torn", age |-> 0]} ELSE {})

Verify(t) == t.made \in {"cur", "prev"}

-----------------------------------------------------------------------------
(* The contact store.                                                      *)

Upsert(h, c) ==
    /\ hashes' = [hashes EXCEPT ![h] = @ \cup {c.id}]
    /\ contacts' = [contacts EXCEPT ![c.id] = c]

StoreGet(h) == {contacts[id] : id \in hashes[h]}

(* handleRequest, storeMethod.  The contact's id is StoreArgs.NodeID,      *)
(* which dht.store leaves at zero.                                         *)
StoreArrives(m) ==
    /\ m \in flight
    /\ IF Verify(m.token)
       THEN Upsert(m.hash, [id |-> ZeroID, addr |-> m.from])
       ELSE UNCHANGED stored
    /\ flight' \in {flight, flight \ {m}}
    /\ UNCHANGED <<manager, client, restarts>>

StoreLost(m) ==
    /\ m \in flight
    /\ flight' = flight \ {m}
    /\ UNCHANGED <<manager, stored, client, restarts>>

(* The storing node announces a hash itself: dht.store, self-store.        *)
SelfStore(h) ==
    /\ Upsert(h, [id |-> Self, addr |-> Self])
    /\ UNCHANGED <<manager, client, flight, restarts>>

-----------------------------------------------------------------------------
(* The announcing side.                                                    *)

(* A slip of tokenCache.Get: a cached token is used for ever.              *)
UsableAlways(a) == cache[a] # NoEntry

Usable(a) == cache[a] # NoEntry /\ cache[a].received < Interval

(* A store request leaves; past MaxFlight the ones before it are lost.     *)
Send(a, h, token) ==
    LET m == [from |-> a, hash |-> h, token |-> token]
    IN  flight' = IF Cardinality(flight \cup {m}) <= MaxFlight THEN flight \cup {m} ELSE {m}

(* dht.store: tokenCache.Get has a token, or asks for one.                 *)
Announce(a, h) ==
    /\ getting[a] = "idle"
    /\ IF Usable(a)
       THEN Send(a, h, cache[a].token) /\ UNCHANGED <<getting, want>>
       ELSE /\ getting' = [getting EXCEPT ![a] = "fetch"]
            /\ want' = [want EXCEPT ![a] = h]
            /\ UNCHANGED flight
    /\ UNCHANGED <<manager, stored, reply, cache, restarts>>

(* handleRequest, findValueMethod.                                         *)
GiveToken(a, t) ==
    /\ getting[a] = "fetch" /\ reply[a] = NoToken
    /\ reply' = [reply EXCEPT ![a] = t]
    /\ UNCHANGED <<manager, stored, getting, want, cache, flight, restarts>>

(* The response: cache its token, and store with it.                       *)
TokenReceived(a) ==
    /\ getting[a] = "fetch" /\ reply[a] # NoToken
    /\ cache' = [cache EXCEPT ![a] = [token |-> reply[a], received |-> 0]]
    /\ Send(a, want[a], reply[a])
    /\ reply' = [reply EXCEPT ![a] = NoToken]
    /\ getting' = [getting EXCEPT ![a] = "idle"]
    /\ UNCHANGED <<manager, stored, want, restarts>>

(* No response in time, or the DHT stops: the store is sent with "".       *)
TokenMissed(a) ==
    /\ getting[a] = "fetch"
    /\ Send(a, want[a], NoToken)
    /\ reply' = [reply EXCEPT ![a] = NoToken]
    /\ getting' = [getting EXCEPT ![a] = "idle"]
    /\ UNCHANGED <<manager, stored, want, cache, restarts>>

-----------------------------------------------------------------------------
Later(n) == IF n < Interval THEN n + 1 ELSE n
Older(t) == IF t = NoToken THEN t ELSE [t EXCEPT !.age = Later(@)]

(* Time passes.                                                            *)
Tick ==
    /\ rotateIn > 0
    /\ rotateIn' = rotateIn - 1
    /\ reply'  = [a \in Client |-> Older(reply[a])]
    /\ cache'  = [a \in Client |-> [token    |-> Older(cache[a].token),
                                    received |-> Later(cache[a].received)]]
    /\ flight' = {[m EXCEPT !.token = Older(@)] : m \in flight}
    /\ UNCHANGED <<rotating, stored, getting, want, restarts>>

Forgotten(t) == IF t = NoToken THEN t ELSE [t EXCEPT !.made = "earlier"]

(* The storing node starts anew: nothing of this is on disk.               *)
Restart ==
    /\ restarts < MaxRestarts
    /\ restarts' = restarts + 1
    /\ rotateIn' = Interval
    /\ rotating' = FALSE
    /\ hashes' = [h \in Hash |-> {}]
    /\ contacts' = [id \in DOMAIN contacts |-> NoContact]
    /\ AllTokens(Forgotten)
    /\ UNCHANGED <<getting, want>>

StorageNext ==
    \/ RotateCopy \/ RotateFill \/ Tick \/ Restart
    \/ \E h \in Hash : SelfStore(h)
    \/ \E m \in flight : StoreArrives(m) \/ StoreLost(m)
    \/ \E a \in Client :
        \/ \E h \in Hash : Announce(a, h)
        \/ \E t \in NewTokens : GiveToken(a, t)
        \/ TokenReceived(a) \/ TokenMissed(a)

(* Clocks run, the token manager's goroutine runs, every hash is announced *)
(* again and again (module Announcer).  The network is lossy but fair: of  *)
(* what is sent again and again, some arrives; and the race of tokens.Get  *)
(* with a rotation is not lost every time.                                 *)
StorageFairness ==
    /\ WF_storageVars(Tick) /\ WF_storageVars(RotateCopy) /\ WF_storageVars(RotateFill)
    /\ \A a \in Client :
        /\ SF_storageVars(GiveToken(a, [made |-> "cur", age |-> 0]))
        /\ SF_storageVars(Verify(reply[a]) /\ TokenReceived(a))
        /\ WF_storageVars(TokenReceived(a) \/ TokenMissed(a))
        /\ \A h \in Hash :
            /\ SF_storageVars(Announce(a, h))
            /\ SF_storageVars(\E m \in flight : /\ m.from = a /\ m.hash = h
                                         /\ Verify(m.token) /\ StoreArrives(m))

StorageSpec == StorageInit /\ [][StorageNext]_storageVars /\ StorageFairness

-----------------------------------------------------------------------------
(* Properties.                                                             *)

(* Shape of the state.                                                     *)
StorageTypeOK ==
    /\ rotateIn \in 0 .. Interval
    /\ rotating \in BOOLEAN
    /\ hashes \in [Hash -> SUBSET (Client \cup {Self, ZeroID})]
    /\ contacts \in [Client \cup {Self, ZeroID} -> StoredContact]
    /\ getting \in [Client -> {"idle", "fetch"}]
    /\ want \in [Client -> Hash]
    /\ reply \in [Client -> Token]
    /\ cache \in [Client -> Entry]
    /\ flight \subseteq Store /\ Cardinality(flight) <= MaxFlight
    /\ restarts \in 0 .. MaxRestarts

TokensAround ==
    {reply[a] : a \in Client} \cup {cache[a].token : a \in Client} \cup {m.token : m \in flight}

(* A token, always one of a known secret, is accepted for at least one     *)
(* rotation interval after it was made, wherever the rotation falls: it is *)
(* rotated out no earlier.                                                 *)
TokenLasts == StorageTypeOK /\ \A t \in TokensAround : t.made = "out" => t.age >= Interval

(* An announced hash is listed for its announcer again and again, even     *)
(* after the storing node restarts and refuses the tokens that others have *)
(* cached.                                                                 *)
AnnouncedIsListed ==
    \A a \in Client, h \in Hash : []<>(\E c \in StoreGet(h) : c.addr = a)
=============================================================================
