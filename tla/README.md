# lbry.go: models, checks and proofs

TLA+ modules of lbry.go: of the parts that hold state and run concurrently, and
of the formats and conversions that two parties have to agree on; the TLC
configurations that check them on small instances, and theorems about them that
TLAPS checks. Paths are those of the repository, without a leading `src/`.
`PROJECT.json` maps every definition that models code to the lines it models.

## 1. Inventory

lbry.go is a library: a Kademlia DHT node, the stream and blob format of LBRY,
claim data (stakes), URLs, clients of the LBRY daemons, and helpers.

| Part | State | Operations | Interacts with |
|---|---|---|---|
| Routing table (`dht/routing_table.go`) | buckets, each a range of distances with up to 8 peers, oldest first, with their failures in a row | `Update` (with `split`), `Fresh`, `Fail`, `GetClosest`, `GetIDsForRefresh`, JSON save and load | called by the node for every packet and every call, by the search, by the refresh goroutine; one RW mutex |
| Node (`dht/node.go`) | transactions by message id, UDP connection, stop group | `Connect`, reader and handler goroutines, `SendAsync`/`Send`, `handleRequest/Response/Error`, grooming, `Shutdown` | routing table, store, token manager; every other DHT part sends through it |
| Iterative search (`dht/node_finder.go`) | shortlist, active contacts, closest contact, flags, each with its own mutex | `FindContacts`, `cycle`, `probe`, timer, cancel | node (requests), routing table (start) |
| Announcer (`dht/dht_announce.go`) | ring and map of hashes, timer, limiter, wait group | `Add`, `Remove`, `runAnnouncer`, `announce`, `store` | search, node, token cache, `DHT.Shutdown` |
| Store, tokens (`dht/store.go`, `token_manager.go`, `token_cache.go`) | hash → ids, id → contact; two secrets; tokens by node with their age | `Upsert`, `Get`, `Verify`, rotation, cached `Get` | node (requests), announcer |
| Bootstrap node (`dht/bootstrap.go`) | map of peers and list of ids | `upsert`, `remove`, `get`, `ping`, `check`, `handleRequest` | node |
| DHT (`dht/dht.go`, `rpc.go`) | stop group, joined channel, node, RPC server | `Start`, `join`, `WaitUntilJoined`, `Ping`, `Get`, `Shutdown`, the RPC methods | all of the above |
| Stop group (`extras/stop`) | context, wait group, parent | `Stop`, `StopAndWait`, `Add`, `Done`, `Child`, `Ch` | every component with goroutines |
| Streams (`stream/`) | encoder: source, sd blob, preset IVs | `Encoder.Next`, `Stream.Decode`, `SDBlob`, `NewEncoderFromSD`, `Reconstruct` | none |
| Identifiers (`dht/bits`) | none | xor, comparison, arithmetic, prefixes, text forms, ranges and their intervals | all of `dht` |
| Messages (`dht/message.go`, `contact.go`) | none | bencode forms of requests, responses, errors, compact contacts | node |
| Ordered map (`extras/orderedmap`) | keys and map under a mutex | `Get`, `Set`, `InsertAt`, `Prepend`, `Delete`, `Keys`, `Copy`, JSON | users of claims |
| Stakes (`schema/stake`, `schema/keys`) | a claim or support with its header | load, compile, sign, validate, migrate | SDK users |
| URLs, addresses (`url`, `schema/address`) | none | parse and write | SDK users |
| API helpers (`extras/api`) | CORS settings | `ServeHTTP`, `FormValues` | servers built with lbry.go |
| Clients and other helpers (`lbrycrd`, `extras/jsonrpc`, `extras/lbryinc`, `extras/util`, …) | none or an external service | thin wrappers | external services |

What is hard here is in `dht`: a dozen goroutines per node that share state
through four kinds of locks and unbuffered channels, over a network that loses,
repeats and delays; waiting for all of them at shutdown; a routing table whose
splits must not lose anybody; tokens that expire on one side while they are
cached on the other. `stream` is sequential, but the boundary cases (a chunk
that fills a blob, a read that ends with `io.EOF`, a partial sd blob) are many.
The ordered map looks sequential behind its lock, but hands out the slice it goes
on writing. The formats are pure functions; what is hard about them is that one
end's optional part is the other end's surprise.

What makes each part correct:

* *Routing table*: the buckets cover all distances exactly once; a peer is in
  the bucket of its distance, once; buckets do not overflow; good peers stay;
  splitting ends; the nearest neighbours are not turned away.
* *Node*: a call returns an answer to itself or nothing; it always ends; the
  node does not look itself up in its own table, which panics; shutdown ends, so
  nobody is blocked for ever.
* *Search*: nobody is asked twice; the result is sorted and never gets worse
  after it was returned; every search ends and leaves no goroutine.
* *Announcer*: ring and map agree; the most urgent hash is served first and
  every due hash is served; callers are not blocked for ever, as long as whoever
  asked for notifications receives them; shutdown waits for all announcements
  and ends.
* *Store and tokens*: an announced node is listed for what it announced; a
  token is accepted for a rotation interval after it was made; the pair recovers
  from a restart and from a token that expired.
* *Bootstrap node*: list and map agree; only nodes that answer are given out;
  a node that moves is found again.
* *DHT*: whoever waits for the join is woken; a shutdown at any moment ends,
  everything that was started ends, and the node is closed last.
* *Ordered map*: it is a list of pairs, whatever array its keys are in; readers
  of a slice see a list the map had; JSON keeps order and values.
* *Formats*: what one end writes the other reads as the same thing; a signature
  holds for what was signed and nothing else; a failed request is told as one.
* *Streams*: what is encoded decodes to itself; damage is found; the same file
  gives the same stream again.

## 2. Modules

Each module says in its head what data it abstracts. An operator whose name
differs from its neighbour's by a suffix (`shouldSplitOwnOnly`, `TimeoutNever`,
`InsertKeyOver`, …) and that no action uses is a slip: the neighbour as a
plausible mistake would write it. `PROJECT.json` lists, for each checked
property, a slip that TLC must find to violate it.

| Module | Code | State | Actions |
|---|---|---|---|
| `RoutingTable` | `dht/routing_table.go`, ranges of `dht/bits` | `buckets`; `upd`, the `Update` that holds the write lock | `UpdateBegin`, `SplitPeer`, `SplitNarrow`, `SplitLink`, `UpdateEnd`, `Fresh`, `Fail`, `GrowStale` (time) |
| `Announcer` | `dht/dht_announce.go`, `Start` and `Shutdown` of `dht/dht.go`, `extras/stop` | the ring, the map, ages, the channel the loop waits for, timer, wait group, callers, whether anybody receives notifications | `StartLimiter`, `Call`, `AddHash`, `RemoveHash`, `NotDue`, `AnnounceNext`, `NotifyStarted`, `AnnounceReturns`, `NotifyFinished`, `LimiterReady`, `LimiterReturns`, `AnnouncerReturns`, `Stop`, `ShutdownReturns`, `StopListening`, `Tick` |
| `Node` | `dht/node.go` | per call its place, target, tries, answer; transactions; reader, handler, groomer, closer | `SendAsync`, `SendMessage`, `SendError`, `Listen`, `Timeout`, `CallStopped`, `FailTarget`, `txDelete`, `CloseChannel`; `Read`, `ReadError`, `ReaderStops`; `HandlePacket` (`HandleInvalid`, `HandleShort`, `HandleRequest`, `FindTransaction`, `HandleError`), `Deliver`, `TouchTable`, `HandlerStops`; `GroomStops`; `MarkClosed`, `CloseConn`, `Stop`, `ShutdownReturns` |
| `Storage` | `dht/store.go`, `token_manager.go`, `token_cache.go`, the store and findValue cases of `node.go`, `dht.store` | secrets as the state of tokens made with them, store maps, caches, requests under way | `RotateCopy`, `RotateFill`, `StoreArrives`, `StoreLost`, `SelfStore`, `Announce`, `GiveToken`, `TokenReceived`, `TokenMissed`, `Tick`, `Restart` |
| `ContactFinder` | `dht/node_finder.go` | shortlist, active contacts, closest contact, cycles and their probes, the slice handed out | `TimerCycle`, `FindReturns`, `ParentStops`, `CycleStarts`, `CycleChecks`, `CycleReports`, `Pop`, `Answered`, `GotValue`, `Unanswered`, `Insert`, `AppendNew` |
| `Bootstrap` | `dht/bootstrap.go` | peers, list, ping goroutines, real addresses | `Add`, `Request`, `LookUp`, `Check`, `Ping`, `Answers`, `TimesOut`, `PingStops`, `PingEnds`, `Idle`, `Move`, `Stop` |
| `Stream` | `stream/blob.go`, `sdBlob.go`, `stream.go` | source, encoder, blobs returned, the stream being made again | `NextBlob`, `NextEOF`, `NextLast`, `NextFails`, `NextEmpty`, `Again` |
| `Dht` | `dht/dht.go`, `dht/rpc.go`, what `dht/dht_announce.go` does to the group, `extras/stop` | how far `Start` is, seeds, the joined channel, the group's context and counter, each goroutine, announcements, RPC calls, callers | `connect`, `StartFails`, `PingSeed`, `PingsDone`, `SearchEnds`, `StartAnnouncer`, `StartServer`; `runAnnouncer`, `AnnounceHash`, `HashNotDue`, `AnnouncementEnds`, `AnnouncerReturns`, `LimiterReturns`; `runRPCServer`, `RegisterFails`, `ListenFails`, `CloseServer`, `ListenerReturns`, `ServerReturns`, `RpcCall`, `RpcAnswer`; `WaitUntilJoined`, `Get`, `Shutdown` and their returns |
| `OrderedMap` | `extras/orderedmap` | the array and length of the key slice, the values, the lock, one reader | `MapSet`, `InsertKeyAt`, `Prepend`, `Delete`, `UnmarshalJSON`, `Unlock`; `ReadKeys`, `StartCopy`, `ReadCell`, `CopyValue` |
| `PairList` | what an ordered map promises | a list of pairs, keys with a value only | `AddLast`, `AddFirst`, `AddAt`, `Drop`, `Load` |

The remaining modules have no state; they define the code's functions and, at
their end, what the two sides of each may rely on. `MCCodecs` and `MCData` give
each of them every input of a bounded set.

| Module | Code | Inputs |
|---|---|---|
| `Bitmap` | `dht/bits` | bits, bytes and digits as sequences; `math/big` is arithmetic |
| `Messages` | `dht/message.go`, `dht/contact.go` | bencode values (strings, integers, lists, dictionaries) |
| `Url` | `url/url.go` | tokens: words and the characters the parser looks for |
| `Claims` | `schema/stake`, `schema/keys` | messages kept whole; a signature knows its key and digest |
| `Address` | `schema/address` | digits and bytes in small bases, small machine words |
| `Api` | `extras/api`, `extras/validator` | outcomes of handlers; fields and forms |
| `JsonText` | `MarshalJSON`, `UnmarshalJSON` and `mapToOrderedMap` of `extras/orderedmap` | texts as tokens: punctuation, blanks, numbers, quoted strings |

`MCRoutingTable`, `MCNode`, `MCContactFinder`, `MCCodecs` and `MCData` only give
constants their values for TLC (xor on bits, contacts, the answers of nodes,
inputs, documents); the other modules are run as they are. `MCNode` holds `Node`
and `Dht`, and `MCData` the formats, `Stream` and `OrderedMap`: a behaviour is of
one of them, by the variable `part`, and the others stay as they begin. `RoutingTableProofs`,
`NodeProofs` (`Node`, `Dht` and `Storage`), `BootstrapProofs`, `AnnouncerProofs`,
`ContactFinderProofs`, `OrderedMapProofs`, `CodecProofs` (`Stream` and the
formats) and `NameProofs` (addresses and URLs) hold the theorems (section 4).
Names of `Dht` and `Storage` that `Node` has as well carry a prefix (`DhtSpec`,
`StorageSpec`, `storageVars`), so that one module can extend all three.

Modules meet at interfaces. `Node` knows of the routing table only which ids it
is asked about, since it panics over the node's own; `RoutingTable` in turn allows
any order of `Update`, `Fresh` and `Fail` of other ids, so what holds there holds
under the node's calls.
`ContactFinder` and `Bootstrap` take from `Node` that every request ends, with
an answer or without (`CallsEnd`), short of a panic of the whole process.
`Announcer` takes an announcement as
something that runs and ends (`SearchEnds` and `CallsEnd`); `Storage` models
what it stores. `Dht` composes them at that level: its join takes from `Node`
that a ping ends and from `ContactFinder` that a search does; its announcer
starts announcements, leaks units of the group and returns as the loop of
`Announcer` may, with the ring left out.

`OrderedMap` implements `PairList`: `List == INSTANCE PairList WITH ...` takes
the cells up to the length, with their values, for the list, and the values
without a cell for its unlisted keys. Readers and the array are invisible there.
TLC checks this on an instance, with documents whose keys are looked for in their
texts; `ImplementsList` proves it for all, given that this search finds the keys
of the documents in their order (`KeysFound`).

Remarks on single modules:

* **RoutingTable.** Ids are numbers and the metric is a constant `Xor(_, _)`,
  of which only three facts are assumed. `Update` works under the write lock
  and is not interleaved with other operations; it is several steps because the
  recursion of `Split` is a loop: peers are dealt to two halves one at a time
  (`SplitPeer`); if one half stays empty the range is narrowed to the other
  (`SplitNarrow`), else the bucket is replaced by two (`SplitLink`).
  `GetIDsForRefresh` and `RefreshIDs` are modelled as the functions they are; no
  property is about them.
* **Announcer.** Go's `select` chooses among ready cases at random, so each
  ready case is an action. The timer's channel is a variable of its own:
  `Reset` does not empty it. The notifications are sent on an unbuffered channel
  without a case for the stop channel, so `NotifyStarted` and `NotifyFinished`
  need a receiver; the user of the channel receives until, at any moment,
  `StopListening`.
* **Node.** Any packet can be read at any time, from any sender: an answer to a
  known message id from another address or under another id, this node's own id
  included, and packets too short to be looked into. The code checks the address
  and the id of an answer itself (`Equals`). It does not check the length of a
  packet (`dht/node.go:166`), nor whether an answer comes with its own id, over
  which `bucketFor` panics; a panic ends the process and with it every step
  (`Panicked`). The message id of a call cannot be guessed before its request has
  left. A response is handled in three steps (`FindTransaction`, `Deliver`,
  `TouchTable`), as the code takes and releases the transaction lock between
  them; the deferred functions of `SendAsync` are steps in the order in which
  they run.
* **Storage.** `Get` and `Verify` read the secrets without the lock under which
  `rotateSecret` overwrites them. A token made meanwhile may be of the old, the
  new or a mixture of both secrets (`"torn"`), which no later `Verify` accepts.
* **ContactFinder.** Appending to the active list writes in place unless the
  array is full; Go's growth for this element size gives capacities 1, 2, 4, 8,
  so `Grows` tells when the slice returned by `Find` stops sharing the array.
  Reads that the code makes without the lock are taken as atomic.
* **Stream.** Encryption keeps its plaintext and IV, a hash is what it is a hash
  of, the ith byte is the number i; padding is modelled by what it does. A
  caller gives up after a failed read, as `stream.Stream` does.
* **Dht.** The group's counter and its context are variables of their own, since
  `Add` may come after `Stop`. `early` remembers whether `Shutdown` was called
  before `Start` had returned. `Get` and `Shutdown` without a node would panic
  and are not called then. The announcer counts a unit before it looks whether
  the hash is due, and keeps it if it is not (`HashNotDue`): the counter may stay
  above the number of goroutines (`Counted`), and `Shutdown` then waits for ever.
  The notification channel is nil here.
* **OrderedMap.** Go's `append` writes into the array if it has room; otherwise
  the runtime chooses a new capacity, any that is large enough. A reader shares
  the array until the map moves to another one; what it reads of a cell under a
  writer's hands is old, new or torn.
* **JsonText.** `encoding/json` gives the values of an object without the order
  of its keys; `mapToOrderedMap` looks for each key in the text, from the end, at
  a place with a whole object before it, and for the texts of nested maps and
  arrays behind it. `Places`, `ValueStr`, `Whole` and `ItemTexts` are that search,
  and `ValidJson` the library's test it is based on. The text of a document is
  that of an object, as `json.Unmarshal` passes it on: a direct call of
  `UnmarshalJSON` with blanks in front is not modelled. Objects are nested in
  objects and in arrays, one level deep.
* **Claims.** Protobuf and JSON are external: a message they wrote is one record
  that keeps the message. ECDSA accepts the numbers of the right key and digest,
  with or without leading zeros, and no others. A signature is written without
  the leading zero bytes of its numbers, so it may be too short; the validation
  of a claim of the first version panics over such a one (`ValidationPanics`).
* **Url.** A query string begins at the last question mark that has something and
  no space before it; everything from it on is cut, a space and what follows it
  included (`CleanUrl`), since the pattern has no end.
* **Address.** `Int64` of a big number is its low bits (`WordBits`), which is
  where `EncodeBase58` and `DecodeBase58` ask whether a number is zero.

## 3. Runs

| Run | Checks | Shows |
|---|---|---|
| `routing_table` | `Partition`, `PeersInRange`, `NoDuplicates`, `NeighbourhoodKept`, `GoodPeersStay`, `UpdateReturns` | Any order of updates, freshenings and failures keeps the buckets a partition with everybody in place; splits end; peers that are not bad stay and no bucket overflows; a contact that goes to its own half is turned away only by enough others. |
| `announcer` | `RingMatchesMap`, `NoOversleep`, `ShutdownWaits`, `CallsReturn`, `DueAnnounced`, `ShutdownEndsUnlessLeaked` | Adding, removing, announcing, limiting and shutting down in any order and without end, with a receiver of notifications who may stop: ring and map agree, the most urgent hash is at the head and not slept past. Callers are served unless the announcer is stuck on a notification; once additions end, due hashes are announced again; shutdown ends if nothing was leaked and no notification goes unheard. |
| `node` | `ResponseMatches`, `TransactionsMatch`, `OwnIDGuarded`, `CallsEnd`, `ShutdownEnds`; `NodeClosedLast`, `ComesToRest` | Two overlapping calls with retries among any packets, from anywhere: each gets its own answer or none; short of a panic it ends, and so does shutdown; a panic is due to a short packet or to an answer with the node's own id, not to anything the node does by itself. The DHT, as the other half: `Start` with seeds that answer or not, the announcer with its announcements and leaks, the RPC server with calls under way, callers that wait and a shutdown at any moment. The group counts no fewer than its goroutines, so a shutdown after `Start` closes the node last; everyone who waits for the join returns, every goroutine ends, also those that `Start` launches after the shutdown, and `Shutdown` returns unless a unit was leaked. |
| `storage` | `TokenLasts`, `AnnouncedIsListed` | A token is accepted for at least one rotation interval after it was made, wherever the rotations fall. The announcer counts the time it caches a token from its receipt, so a delayed one may be refused; a refused token (late, from before a restart, of a torn secret) is replaced in the end and the node listed again. |
| `contact_finder` | `AskedOnce`, `ClosestImproves`, `SearchEnds`, `ResultImproves` | Overlapping cycles share the lists correctly and keep them in order; a search ends and leaves no goroutine, whoever answers; what it returned can only improve afterwards. |
| `bootstrap` | `ListMatchesMap`, `ListedAnswered`, `AddressHeals` | Overlapping pings, answered and not, of a node that moves: the list stays sound and the new address is found. |
| `data` | `BitmapsAreNumbers`, `MessagesArrive`, `NamesStand`, `ClaimsReload`, `SignaturesBind`, `RequestsServed`, `JSONKeeps`; `RoundTrip`, `DamageDetected`, `Reconstructs`; `IsPairList`, `ReaderUndisturbed` | Every pair of identifiers and bounded messages, URLs, claims, signings, addresses, API requests and JSON documents: what is written is read as the same thing; where the code does not keep something, the property says when, or leaves it open. Every way a source can cut a file: what was encoded decodes to itself and is made again from whole and partial sd blobs; exchanged, repeated or missing blobs are refused. The ordered map implements `PairList`, and a reader of `Keys` or `Copy` is disturbed by deletions and insertions only. |

The module's type invariant is checked as a part of one of its other invariants
(`RingMatchesMap`, `TokenLasts`, `AskedOnce`, `RoundTrip`, `NodeClosedLast`); for
`RoutingTable`, `Node` and `Bootstrap` it is a theorem.

### Disagreements

Each of these runs checks one thing the repository says and is expected to be
violated. `PROJECT.json` quotes what it says.

| Run | Property | What happens |
|---|---|---|
| `update_drops_contact` | `UpdateInserts` | After a split `Update` chooses the half by the contact's id, not by its distance (`dht/routing_table.go:259`). With a node id other than 0 the contact can be refused by the wrong half and is lost. The tests use id 0. |
| `failing_peer` | `FailedRemoved` | A peer that failed too often is not removed, as `dht/routing_table.go:142` and `:282` and `dht/config.go:30` say: `FailContact` only counts (`:149`), and the peer stays listed until its bucket is full and a new contact comes. |
| `shutdown_hangs` | `ShutdownEnds` | `continue` at `dht/dht_announce.go:133` follows `grp.Add(1)` without `Done`; `Shutdown` then waits for ever. |
| `short_signature` | `SignedIsValid` | The tests assert that what was signed with any key is valid (`schema/stake/sign_test.go:81`, `:137`, `:194`). `LBRYSDKEncode` (`schema/keys/keys.go:101`) drops leading zero bytes, so about one signature in 128 is too short and the claim not valid. |
| `array_items` | `ArrayItemsOrdered` | The comment at `extras/orderedmap/ordered_map.go:197` says that any map in an array is converted. The last item stays a Go map unless a blank follows it: the loop ends it before its own closing brace (`:224`). |

Two comments are wrong where the code is right, which `data` shows
(`BitmapsAreNumbers`): `Sub` wants its argument to be no greater than the bitmap,
not greater (`dht/bits/bitmap.go:162`), and `RandInRangeP` does stay within its
range (`:365`).

### Bounds

* *Routing table*: 3-bit ids, buckets of two, one failure makes a peer bad, four
  nodes of which one has two addresses. Buckets of two are the smallest that
  split with peers on both sides and on one; three bits allow three levels of
  splits and a narrowing of two steps. The theorems remove these bounds.
* *Announcer*: two hashes make a ring with a head and a last element; two callers
  compete, without a bound on their calls; one announcement runs at a time and a
  second one waits for it; a hash is not due, due soon, or due. `MaxLeak` caps a
  counter that only has to be zero or not.
* *Node*: two calls with two tries each; packets from the node asked, from its id
  at another address, and under this node's own id. Packets are not bounded: any
  packet can be read at any time.
* *Storage*: an interval of three ticks (time within an interval is told apart),
  two requests under way, one restart, one client and hash.
* *ContactFinder*: nodes at distances 1 to 4, of which the table has two, one
  holds the value; two cycles at a time with up to three probes each. Two cycles
  are enough to interfere; a third waits for a free place.
* *Bootstrap*: one id, two addresses, three goroutines, two moves: enough for
  two pings of the old address to overlap with one of the new. Any number of
  ids, addresses and goroutines is covered by the theorems. `Add` happens once
  per contact that never answered.
* *Stream*: blocks of two bytes and blobs of two blocks, files of up to six
  bytes: two full blobs or three short ones, with padding of one byte and of a
  whole block. The theorems remove the bounds.
* *Dht*: two seeds, so that one answers and one does not; one RPC call at a time;
  up to two announcements and one leaked unit, so that announcements and leaks
  come in either order; with and without an RPC port. The theorem removes these
  bounds.
* *OrderedMap*: three keys, one that JSON escapes; capacities up to three, so
  that every operation meets a full array and one with room; a position from
  either end, in range and not; up to two writes while a reader reads
  (`MaxOverlap`), the fewest that can move the array and then change it; a
  document with a key twice, a key as a value and a nested map, and one with the
  escaped key. The theorems remove the bounds.
* *JSON documents*: up to two members, with blanks and without; keys twice, keys
  that are values or nested keys too, objects and arrays in every place, arrays of
  up to two items. A key is mistaken for another, or an item for a part of one, if
  at all, between two members or two items.
* *Formats*: identifiers of three bytes of two bits, so that carries cross bytes
  and prefixes end within one; ids and message ids of two bytes and one, peer
  ports up to the first that does not fit; URLs with every combination of
  protocol, host, channel, modifiers and stream, with hexadecimal, numeric, zero
  and invalid values, and with query strings, spaces in them included; two channels, keys and transactions and signatures whose
  numbers begin with a zero byte or not; every address of four bytes over four
  values in base 3, with words of three bits, so that the 64-bit test is met with
  numbers that do not fit; forms with missing, empty, unreadable, oversized and
  unknown parameters. The
  theorems remove these bounds.

Deadlock is not checked where the system may stop: a node or DHT after its
shutdown, a search after its end, an encoder after `io.EOF`.

### Fairness

Weak fairness stands for the Go scheduler: a goroutine that can go on does so,
and timers fire. Strong fairness is used in three modules only: `Announcer`,
`Storage` and `Bootstrap`.

* *Announcer*: a caller whose send is ready again and again is taken, and the
  stop case is chosen, because `select` picks uniformly among ready cases
  (`Served`, `AnnouncerReturns`). Nobody has to receive a notification: weak
  fairness makes a send happen only as long as somebody does.
* *Node*: weak fairness of every goroutine, as long as the process has not
  panicked.
* *Storage*: a request that is made again and again gets through in the end
  (`GiveToken`, `TokenReceived`, `StoreArrives`), and the announcer announces
  again and again (`DueAnnounced` of module `Announcer`).
* *Dht*: weak fairness of every goroutine and of the end of every ping, search
  and RPC call (`CallsEnd`, `SearchEnds`); nobody has to call `Shutdown`, `Get`
  or `WaitUntilJoined`, and `Start` need not succeed.
* *Bootstrap*: the check repeats, a running node sends requests now and then,
  and a node that is pinged at its address again and again answers.

In `Node` any packet may come from anybody, be lost, late or repeated; what is
assumed is that nobody guesses the message id of a call before its request has
left. A short packet and an answer with the node's own id end the process, and
the liveness properties end there. Nothing is assumed of who answers in
`ContactFinder`, or of callers and the moment of a shutdown anywhere.

## 4. Theorems

Eight modules hold proofs. Theorems about a component with state have the form
`Spec => []P` (or `Spec => [][A]_vars`, or `Spec => List!Spec` for the
refinement) and hold for every value of the constants. A format has two kinds of
theorem: one about its functions, for every input of a type that is stated with
it, of any length; and from it `CodecSpec => []P`, that the property which TLC
checks on the run's inputs holds for every value of the constants.

| Module | Theorem | Property |
|---|---|---|
| `RoutingTableProofs` | `Invariance` | `IInv` |
| | `TypeCorrect` | `TypeOK` |
| | `BucketsPartition` | `Partition` |
| | `PeersStayInRange` | `PeersInRange` |
| | `CapacityKept` | `Capacity` |
| | `SplitMakesRoom` | `RoomAfterSplit` |
| | `NoIdTwice` | `NoDuplicates` |
| | `GoodPeersKept` | `GoodPeersStay` |
| | `NeighboursEnter` | `NeighbourhoodKept` |
| `NodeProofs` | `Invariance` | `IInv` |
| | `TypeCorrect` | `TypeOK` |
| | `AnswersMatch` | `ResponseMatches` |
| | `TransactionsExact` | `TransactionsMatch` |
| | `OwnIdIsGuarded` | `OwnIDGuarded` |
| | `LifeInvariance` | `LifeInv` |
| | `ClosedLast` | `NodeClosedLast` |
| | `TokensLast` | `TokenLasts` |
| `BootstrapProofs` | `Invariance` | `IInv` |
| | `TypeCorrect` | `TypeOK` |
| | `ListIsMap` | `ListMatchesMap` |
| | `OnlyAnswering` | `ListedAnswered` |
| `AnnouncerProofs` | `RingSafe` | `RingMatchesMap` |
| | `NeverOversleeps` | `NoOversleep` |
| | `ShutdownIsLast` | `ShutdownWaits` |
| `ContactFinderProofs` | `NobodyAskedTwice` | `AskedOnce` |
| | `ClosestOnlyImproves` | `ClosestImproves` |
| | `ResultOnlyImproves` | `ResultImproves` |
| `OrderedMapProofs` | `MapInvariance` | `MapInv` |
| | `ImplementsList` | `IsPairList`, given `KeysFound` |
| | `ReadersKeepTheirList` | `ReaderUndisturbed` |
| `CodecProofs` | `StreamInvariance` | `StreamInv` |
| | `RoundTripHolds` | `RoundTrip` |
| | `OtherBlobsRefused` | `AnyDamageDetected` |
| | `DamageSeen` | `DamageDetected` |
| | `ReconstructsExactly` | `Reconstructs` |
| | `EveryMessageArrives` | `RequestArrives`, `ResponseArrives`, `ErrorArrives`, every message |
| | `MessagesArriveAlways` | `MessagesArrive` |
| | `EveryHelperReloads` | `Reloads`, every claim and support |
| | `EveryJSONClaimMigrates` | `Migrates`, every JSON claim |
| | `ClaimsReloadAlways` | `ClaimsReload` |
| | `EverySignatureBinds` | `Binds`, every two signings |
| | `EveryV1SignatureBinds` | `BindsV1`, every two signings of every old stream |
| | `SignaturesBindAlways` | `SignaturesBind` |
| | `EveryOriginAllowed` | `OriginAllowed`, every configuration and origin |
| | `EveryFailureTold` | `FailureTold`, every method and outcome |
| | `EveryFormTaken` | `FormTaken`, every list of fields and form |
| | `RequestsServedAlways` | `RequestsServed` |
| | `EveryArithmetic` | `ArithmeticOf`, every two bitmaps |
| | `EveryForm` | `FormsOf`, every two bitmaps |
| | `EveryRangeDivides` | `Divides`, every range and number of intervals |
| | `EveryRandomWithin` | `RandomWithin`, every two bitmaps |
| | `BitmapsAreNumbersAlways` | `BitmapsAreNumbers` |
| `NameProofs` | `EveryAddressStands` | `AddressStands`, every address and blockchain |
| | `EveryWritingStands` | `WritingStands`, every writing and blockchain |
| | `EveryUrlStands` | `UrlStands`, every URL |
| | `NamesStandAlways` | `NamesStand` |

**Routing table.** For every `MaxID`, own id, bucket size above 1, limit of
failures and set of contacts. Assumptions are `ConstantsAssumption` (types, and
that no contact has the node's own id: `bucketFor` panics over it, and by
`OwnIdIsGuarded` it is asked about it only if an answer comes with that id) and
`XorAssumption` (xor stays within ids, distances from the node differ, its own
is 0).

None of the invariants is inductive by itself. A split writes buckets from
what it has dealt to its halves, so `SplitInv` says what those are while the
loop runs: all peers of the bucket are in the narrowed range, those looked at
are in the half that covers them and nowhere else. From it follows that a
narrowing loses nobody, that both halves are non-empty when they are linked in,
hence smaller than a bucket (`RoomAfterSplit`). `Ordered` extends the order of
adjacent buckets (`Partition`) to all, which is needed to say that a distance
has one bucket only; `AllGood` collects what holds within a bucket (range,
capacity, no id twice). `IInv` is their conjunction. `NoDuplicates` over the
whole table follows from it, since equal ids have equal distances.
`GoodPeersStay` is proved per action from `IInv`: only `UpdatePeer` on a full
bucket drops a peer, the first bad one; a split keeps all.
`NeighbourhoodKept` needs one fact more (`Decided`): an `Update` that went on
without a split had no reason for one, and has none when it inserts, for it holds
the lock and a bucket that grows stale keeps its range and peers. So a contact
that is turned away is not among the closest; and the bucket that turns it away
is full, which alone makes `bucketSize` peers in the table. The latter is an
argument about cardinalities, from the theorems on finite sets.

Lemmas come in this order: removing an element and dealing elements to parts;
halves of a range; `UpdatePeer` and `FailContact` on one bucket; `bucketFor`
finds a bucket (its panic is not reached); replacing one bucket by one or two;
one lemma per action; then the theorems.

**Node.** For any number of calls, nodes, addresses, senders and retries, and for
any packet of any sender. The handler finds a transaction, releases the lock, and
only then delivers; in between the call may time out, resend or end.
`ResponseMatches` therefore needs `Delivering`: what the handler holds has passed
the comparison of address and id with the call it is meant for; and `Fresh`: a
call that has not begun has no answer. `OwnIDGuarded` needs `Touching`, what the
handler asks the routing table for (a request of the node itself is dropped by
`handleRequest` before that), and `OnlyOthers`, who is called (from `SendAsync`'s
first check). One lemma covers the steps of a call, one the reader, three the
handler, one the rest.

**Bootstrap node.** For any finite set of ids, any addresses, any number of
goroutines and moves. `ListMatchesMap` compares sizes, as `get` does; what
`upsert` and `remove` preserve is that list and map have the same ids
(`SameIDs`) and that the list is injective. The sizes follow with the theorems
on injections and surjections of finite sets. `ListedAnswered` needs
`GoodAnswered`: a goroutine between a ping's answer and its `upsert` holds a
contact that answered.

**DHT.** For any seeds, any number of RPC calls and announcements under way and of
leaked units. That the node is closed last does not follow from `CountCovers`, a
count that is never too low, alone: the listener and the calls are not counted, so
`ServerCovers` says that they live within the goroutine that is; a `Shutdown` that
found the count at zero must not see it rise again, so `LateShutdown` says that
`Start` had returned and `StartedOnce` that only `Start` and the announcer launch
goroutines. For a `Shutdown` during `Start` the claim is false, and the property
excludes it.

**Announcer.** For any hashes, callers and finite set of workers, and any
reannounce time (`ConstantsAssumption`). The ring changes in three
ways: a hash is linked in front of the head, the head is sent to the back, an
element is taken out. One lemma for each says what it does position by position;
with them the map and the ring stay the same set and the ring stays ordered by
the time of the last announcement (`OldestFirst`). That the announcer does not
oversleep needs both the order, since it looks at the head only, and `Phases`:
while it blocks on a notification it holds a head that is due, and before its
loop the ring is empty. The wait group is bounded below by the goroutines that
live, in every step that starts or ends one. That it is not exact is the finding
of `shutdown_hangs`.

**Storage.** For any announcers, hashes, interval and number of restarts. A token
made with what is now the previous secret is rotated out when the ticker fires
next, so that it lasts is not inductive; `Lasting` says that its age and the time
until the ticker fires add up to an interval at least. It has to hold of the
tokens in replies, in the announcers' caches and in requests under way, however
delayed.

**Search.** For any finite network, any alpha up to the bucket size, and any
number of cycles. `shortlistAdded` is what keeps a contact from being asked
again: every contact that was taken up is in it (`Seen`), so what an answer adds
to the shortlist is neither being asked nor among those that answered (`Apart`).
`insertIntoActiveList` keeps a list sorted and lets no entry get farther away;
`ResultImproves` follows as long as the result shares the array of the active
contacts, and `ResultInOrder` says when it does. `ClosestImproves` needs that a
cycle that found a closer contact has one (`CyclesInOrder`).

**Ordered map.** For any keys, values, positions, documents, capacities and number
of overlapping writes; `MapAssumption` says that values are scalars, ordered maps
or arrays, as the callers set them, and what a document consists of. `MapInv`
relates the slice, its array and the map, whatever the search in a document's text
gives. With it every write is shown to be one step of `PairList` under the
refinement mapping: append in place, append into a new array, the left and the
right part of an insertion or deletion within one array. For `UnmarshalJSON` this
needs the hypothesis `KeysFound`, that the search finds the keys of the documents
in the order of their last places, which is one order only (`OneOrder`); TLC checks
this of the documents of the run `data` (`JSONKeeps`). Steps of readers and of the
lock leave the list alone. `ReaderInv` says where an undisturbed reader finds
what it took (`HoldsStart`): in the array that the map has, and in the array as
it was before the writer that has the lock, or in one that the map has left; and
that what it read is the first part of it (`HasRead`). `Set` writes behind what
the reader took, `Prepend` and `UnmarshalJSON` move. `ValuesOK` says that no value
of the map is nil, so that a copy that lacks a key can be told.

**Streams.** For any block size above 1, any blob size that is a multiple of it,
files of any length and any way a source may cut them (`ConstantsAssumption`).
`StreamInv` says what the encoder has made so far. `SourceOK`: the source still
has what `SourceLen` does not count. `Made`: the blobs hold the first `srcLen`
bytes of the file, cut at some places (`CutAt`), and the infos describe these
blobs, in their order, with a last one of length 0 once the encoder has ended.
`Presets`: a stream that is made again has used the IVs of the first in their
order, and the first one, which is kept, is itself `Made`. The properties follow
from `Made` without another induction over steps: padding is undone whether it
fills a block or a part of one (`UnpadPad`), a descriptor is read as it was
written (`DescriptorReads`), only the blobs whose hashes it holds pass
(`OnlyItsBlobsDecode`), and the pieces add up to the file (`PiecesJoin`).
`FlattenSeq`, with which `Decode` joins the pieces, is recursive: that it is what
it should be is shown at the first place where it would not be. The same
argument serves for the loops of the formats. `AnyDamageDetected` says of any
blobs whatever what the run's `DamageDetected` says of exchanged, repeated and
lost ones. For `Reconstructs` two streams of one file that are cut at full blobs
are shown to be cut at the same places.

**Messages.** For ids of any length above 0 and bytes of any base from 4 to 500
(`MessagesAssumption`; 256 in the code, and a port is two bytes). A header or a
field is found by the first entry of a dictionary that has its key; each lemma
says what one field of one message is read as. Contacts in their compact form
take a fixed number of bytes, so a list is split where it was joined.

**Claims.** For any messages, any texts and bytes in them, and for signatures and
claim ids of any length, the latter even (`ClaimsAssumption`; 20 in the code:
`reverseBytes` swaps two ends until they meet and would leave a byte in the middle
0). `Wrapped` is the layout of a header, and `Unwraps` says that it is taken
apart again; `HelperType` are the claims and supports that a caller can hold.
What `Binds` has to exclude is a signature accepted by mistake: one that has lost
leading zero bytes is too short, so `loadFromBytes` takes the first bytes of the
content for its end. What it then takes for the second number does not end with
that number's last byte, and is another number. That a claim is valid for what was
signed is claimed, and proved, only of signatures with all their bytes; of the
others it is false (`short_signature`), and for a claim of the first version
validation panics over them. Neither kind is ever valid for anything else.

**API.** For any configuration, origin, outcome, list of fields with distinct
names, and form (`ApiAssumption` says that a text that is a number has an integer
for its value). The loop over the domains has the invariant `Cors`; the loop over
the fields has a closed form (`Taken`): the fields before the first bad one are
assigned and nothing else is. `FitsUncut` and `FitsUncutUnsigned` say that a
number its field has room for (`InWidth`) is not changed. What becomes of numbers
without room, of the fields of a refused form, and of `panic(nil)` is left open by
the properties.

**Identifiers.** For any number of bytes and any even number of bits in a byte,
half of which are a digit (`BitmapAssumption`; 48 and 8 in the code). The number
of a bitmap is computed from its first bit down; `ValueUpTo` is what it has come
to after each bit, and `UpperBits` says that this is the quotient of the whole
number by a power of 2. So bits and number determine each other (`BitsOfValue`,
`ValueOfBits`), `Cmp` compares numbers (`LessAt`: the first bit that differs
decides), and a suffix spans one block (`SuffixBlock`). `add` goes the other way,
from the last bit up: at each bit the numbers of what is below it add up to the
sum's and the carry times its power of 2 (`SumIs`), and `Sub` adds the complement
(`NotIs`). A bitmap cut into bytes or digits is put together again because every
place is in one piece only (`EveryPlace`, `PlaceIsOne`); `FromShortHex` puts back
the zeros that `HexSimplified` and `Text16` left out. `IntervalP` begins its
intervals one after the other, since the skew that the remainder adds is less
than `num` and each interval has at least `num` numbers (`IntervalStarts`). The
loop of `RandInRangeP` has the rest of a division for its closed form
(`ReductionExists`). `EveryNumber` and `LoopValues` stand in for the library's
induction and recursion theorems: they are about a set and a function instead of
an operator.

**Addresses.** For any base of bytes and of digits above 1, any lengths, prefixes,
checksum and width of an `int64` (`AddressAssumption`; 256, 58, 1 + 20 + 4 and 64
in the code). `NumberUpTo` and `UpperDigits` say for any base what `ValueUpTo` and
`UpperBits` say for bits, so digits and number determine each other.
`EncodeBase58` ends at the first quotient whose low bits are 0: `Length58` is the
number of digits it has written by then, and `Base58Of` has a closed form in it.
`TruncatedIs` says that this is all of the number unless the number is one of those
that `Truncated` describes, which is where `AddressStands` allows a loss.

**URLs.** For any tokens, and any choice of the words that are hexadecimal or
numbers (`UrlAssumption`: such a word is none of the characters the parser looks
for). The name of a web site may be only at the front or behind a protocol
(`HostPlaced`): elsewhere its characters are a word and a slash, and are given as
such. A group takes a part of the text exactly if the part is of its kind and what
follows begins with nothing more of it (`Takes`, `TakesIs`); so the nine parts and
what follows each of them (`Split`) are determined, and any nine parts that have
the form of a path (`Path`) are found again in the text they are joined to
(`PathTaken`). `ModifierWritten` says what `Modifier` writes of a modifier that was
parsed, `RewrittenPath` that the parts `String` writes are again a path,
`UrlWritten` collects what the two parses have to do with each other. The URL of a
web site has the same parts as its lbry URL but for the colons (`WebParts`), and no
value has one.

The formats' invariant is `CodecInv`: the run's input is one of the set it is
taken from. That these sets are within the types of the theorems is a lemma for
each of them.

Only model-checked:

* all liveness (`CallsEnd`, `SearchEnds` and the like) and `UpdateReturns`:
  TLAPS does not prove what rests on fairness;
* what the search of `mapToOrderedMap` finds in a text (`JSONKeeps`): it is an
  induction over texts.

## 5. Not modelled

* JSON save and load of the routing table (`MarshalJSON`, `UnmarshalJSON`): the
  load replaces the whole table while nothing else runs.
* `lbrycrd`, JSON-RPC (`extras/jsonrpc`), lbry.inc, Slack and Travis clients:
  stateless wrappers of external services, and their types; scripts of lbrycrd
  are byte layouts.
* `extras/null` is an adopted package of value conversions; `extras/errors`,
  `query`, `crypto` and `util` format and convert. `blobex` is generated code and
  stubs that panic. Test helpers and commands.
* Of claims: ASN.1 forms of keys, the printing of claims. Of messages: the
  syntax of bencode itself, which is a library's.
* Torn reads of slices that are read without a lock
  (`dht/routing_table.go:372`, `dht/node_finder.go:104`): memory corruption is
  below the level of these models; the reads are taken as atomic. In the ordered
  map, where such reads are the subject, they are modelled.

Observations made on the way that no run is about, or that a property states as
an exception:

* *Routing table.* The ids that are looked up to refresh a bucket are not related
  to its range (`dht/routing_table.go:374`), so a refresh need not reach the
  bucket.
* *Node.* A response that is handled before the caller reaches its `select` is
  dropped by the default case at `dht/node.go:303`. An error answer does not end
  the call it answers (`dht/node.go:435`): a node that answered with an error is
  counted as one that did not answer. Responses that belong to no call still
  update the routing table. A packet of fewer than five bytes, and an answer that
  comes with the node's own id, panic (`dht/node.go:166`, `:308`, `:314`).
* *Search.* Cycles and probes are not counted by `cf.grp`, so `Find` returns
  while they go on inserting into the array it returned
  (`dht/node_finder.go:110`); `ResultImproves` says what holds nevertheless. A
  search may end with fewer contacts than a bucket holds while its shortlist is
  not empty. A search that is cancelled returns what it has, without an error.
* *Announcer.* `Add` puts each hash at the head of the ring
  (`dht/dht_announce.go:99`), so a due hash waits as long as others keep being
  added. A user who asked for notifications and stops receiving them blocks the
  announcer, every caller of `Add` and `Remove`, and `Shutdown`
  (`dht/dht_announce.go:138`, `:152`). `dht.store` never sets `StoreArgs.NodeID`
  (`dht/dht_announce.go:205`): all announcers share the zero id in a store.
* *DHT.* `joined` is closed even if no seed responded (`dht/dht.go:111`). A
  `Start` that fails leaves waiters blocked, a second `Start` closes `joined`
  twice, and `Shutdown` or `Get` before `Start` meets a nil node. A `Shutdown`
  during `Start` returns before what `Start` is still to launch. The RPC method
  `IterativeFindValue` searches in a group without a parent, so `Shutdown` waits
  for it, and passes `findValue = false`, so its `FoundValue` is never set.
* *Streams.* `Encoder.Next` (`stream/stream.go:151`) drops the bytes of a read
  that also returns `io.EOF`.
* *Ordered map.* `Keys` hands out the map's own slice and `Copy` reads it without
  the lock. A key that JSON writes with an escape other than that of a quote gets
  a value but no place.
* *Identifiers.* `intervalStart` takes the remainder with `%` where a division
  is meant, so intervals can invert when a range is shorter than their number
  allows. `RandInRangeP` does not end if both ends are equal. `Closest`, which
  nothing uses, returns the last bitmap.
* *Messages.* A message id of another length is padded or cut. An error without
  arguments panics in the decoder. One listed contact without an IPv4 address
  makes the whole response unreadable.
* *URLs.* A stream without a modifier is written with its channel's claim id; a
  sequence or position of 0 or below is dropped, and so are the leading zeros of a
  number. What follows a space behind a question mark is cut instead of making the
  URL invalid. What follows a name that is no channel (`s/t:7`) is not written as it
  was. A URL with a second question mark loses what is behind it when it is
  written and parsed again.
* *Claims.* Fields a version does not know are lost
  when a claim is compiled again. Claims of the first protobuf cannot be loaded
  from what `CompileValue` makes of them.
* *Addresses.* `EncodeBase58` stops early if the low 64 bits of a quotient are 0.
* *API.* `panic(nil)` is answered with 200; data that cannot be encoded keeps its
  status; an error that carries a 3xx status becomes a redirect; integers that do
  not fit a field of 8 or 16 bits wrap; `FormValues` leaves the fields before the
  first bad one assigned.

## 6. Plan

Done: all parts that hold state or run concurrently, and the formats; proofs of
the safety properties of every component with state; the refinement of `PairList`
by `OrderedMap`, checked and proved; proofs of all formats for inputs of any
length. What is left is to model saving and loading the routing table.
