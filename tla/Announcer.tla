----------------------------- MODULE Announcer ------------------------------
(***************************************************************************)
(* The announcer of a DHT node (dht/dht_announce.go, runAnnouncer) and the *)
(* shutdown that waits for it (DHT.Start, DHT.Shutdown, extras/stop).      *)
(*                                                                         *)
(* One goroutine owns a ring of hashes and loops over a select: stop, an   *)
(* edit from a caller of Add or Remove, or the channel that announces the  *)
(* next hash.  That channel is nil, the rate limiter's, or a timer's.  A   *)
(* second goroutine is the limiter; every announcement is a goroutine too. *)
(* All of them are counted by the wait group of dht.grp.                   *)
(*                                                                         *)
(* Data abstractions: lastAnnounce is the age of the last announcement,    *)
(* counted up to Reannounce, from where on the hash is due; a hash that    *)
(* was never announced (IsZero) is due.  What an announcement looks up and *)
(* stores is not modelled here, only that it runs and ends.                *)
(***************************************************************************)
EXTENDS Integers, Sequences, FiniteSets, SequencesExt

CONSTANTS
    Hash,           \* blob hashes
    Callers,        \* goroutines that call Add and Remove
    Reannounce,     \* conf.ReannounceTime, in ticks
    NotifyCh,       \* conf.AnnounceNotificationCh # nil
    Workers,        \* bound: goroutines that can be announcing a hash at once
    MaxLeak         \* bound: wait-group units without a goroutine that are counted

NoHash == "none"

ASSUME ConstantsAssumption ==
    /\ Reannounce \in Nat \ {0}
    /\ NotifyCh \in BOOLEAN
    /\ IsFiniteSet(Workers)
    /\ Hash \cap {NoHash} = {}
    /\ MaxLeak \in Nat \ {0}

VARIABLES
    ring,           \* the ring, read from queue; empty when queue is nil
    hashes,         \* keys of the map from hashes to ring elements
    age,            \* time since lastAnnounce
    next,           \* announceNextHash: "nil", "limitCh" or "timerC"
    timer,          \* time until the timer fires, 0 when it is not running
    timerC,         \* its channel, of capacity 1, holds a value
    pc,             \* the announcer
    limiter,        \* the limiter goroutine
    running,        \* announcements in progress
    finishing,      \* announcements sending their last notification
    wg,             \* the wait group of dht.grp
    shutdown,       \* "no", "waiting" in StopAndWait, or "down"
    calls,          \* edits that callers are blocked on sending
    listening       \* the user of the notification channel receives from it

sched == <<ring, hashes, age, next, timer, timerC>>
procs == <<pc, limiter, running, finishing, wg>>
users == <<calls, listening>>
vars  == <<sched, procs, shutdown, users>>

NoEdit == [hash |-> NoHash, add |-> FALSE]
Edit   == [hash : Hash, add : BOOLEAN]

Stopped == shutdown # "no"      \* dht.grp.Ch() is closed

-----------------------------------------------------------------------------
(* Start has done grp.Add(1) and started the announcer's goroutine.        *)
Init ==
    /\ ring = <<>>
    /\ hashes = {}
    /\ age = [h \in Hash |-> Reannounce]
    /\ next = "nil"
    /\ timer = 0
    /\ timerC = FALSE
    /\ pc = "start"
    /\ limiter = "none"
    /\ running = {}
    /\ finishing = {}
    /\ wg = 1
    /\ shutdown = "no"
    /\ calls = [c \in Callers |-> NoEdit]
    /\ listening = NotifyCh

(* A slip of runAnnouncer: the limiter is started without grp.Add(1).      *)
StartLimiterUncounted ==
    /\ pc = "start"
    /\ pc' = "select"
    /\ limiter' = "wait"
    /\ UNCHANGED <<sched, running, finishing, wg, shutdown, users>>

(* runAnnouncer starts the limiter and enters its loop.                    *)
StartLimiter ==
    /\ pc = "start"
    /\ pc' = "select"
    /\ limiter' = "wait"
    /\ wg' = wg + 1
    /\ UNCHANGED <<sched, running, finishing, shutdown, users>>

(* DHT.Add or DHT.Remove: the caller blocks until the announcer takes the  *)
(* edit.                                                                   *)
Call(c, e) ==
    /\ calls[c] = NoEdit
    /\ calls' = [calls EXCEPT ![c] = e]
    /\ UNCHANGED <<sched, procs, shutdown, listening>>

Taken(c) == calls' = [calls EXCEPT ![c] = NoEdit] /\ UNCHANGED listening

(* Slips of the edit case: adding does not wake the announcer; removing    *)
(* the last hash does not put it to rest.                                  *)
NextUnchanged          == next
AfterRemoveAwake(rest) == next

Enqueue(h)        == <<h>> \o ring       \* queue.Prev().Link(r), queue = r
AfterAdd          == "limitCh"
AfterRemove(rest) == IF rest = {} THEN "nil" ELSE next

(* A slip of the edit case: return, for continue, on a hash it has.        *)
AddHashReturns(c) ==
    LET h == calls[c].hash IN
    /\ pc = "select"
    /\ calls[c] # NoEdit /\ calls[c].add
    /\ Taken(c)
    /\ IF h \in hashes
       THEN pc' = "done" /\ wg' = wg - 1 /\ UNCHANGED <<sched, limiter, running, finishing>>
       ELSE /\ ring' = Enqueue(h)
            /\ hashes' = hashes \cup {h}
            /\ age' = [age EXCEPT ![h] = Reannounce]
            /\ next' = AfterAdd
            /\ UNCHANGED <<timer, timerC, procs>>
    /\ UNCHANGED shutdown

(* case change := <-dht.announceAddRemove, a hash to add: it becomes the   *)
(* head of the ring.                                                       *)
AddHash(c) ==
    LET h == calls[c].hash IN
    /\ pc = "select"
    /\ calls[c] # NoEdit /\ calls[c].add
    /\ Taken(c)
    /\ IF h \in hashes
       THEN UNCHANGED sched
       ELSE /\ ring' = Enqueue(h)
            /\ hashes' = hashes \cup {h}
            /\ age' = [age EXCEPT ![h] = Reannounce]
            /\ next' = AfterAdd
            /\ UNCHANGED <<timer, timerC>>
    /\ UNCHANGED <<procs, shutdown>>

IndexOfHash(h) == CHOOSE i \in DOMAIN ring : ring[i] = h

(* ... a hash to remove: the queue moves on if it was the head.  Its       *)
(* lastAnnounce is gone with it.                                           *)
RemoveHash(c) ==
    LET h == calls[c].hash IN
    /\ pc = "select"
    /\ calls[c] # NoEdit /\ ~ calls[c].add
    /\ Taken(c)
    /\ IF h \notin hashes
       THEN UNCHANGED sched
       ELSE /\ ring' = RemoveAt(ring, IndexOfHash(h))
            /\ hashes' = hashes \ {h}
            /\ next' = AfterRemove(hashes \ {h})
            /\ age' = [age EXCEPT ![h] = Reannounce]
            /\ UNCHANGED <<timer, timerC>>
    /\ UNCHANGED <<procs, shutdown>>

-----------------------------------------------------------------------------
(* case <-announceNextHash: the limiter hands over a value, or the timer's *)
(* channel holds one.                                                      *)
Wake ==
    /\ pc = "select"
    /\ \/ next = "limitCh" /\ limiter = "offer" /\ limiter' = "wait" /\ UNCHANGED timerC
       \/ next = "timerC" /\ timerC /\ timerC' = FALSE /\ UNCHANGED limiter

Due(h) == age[h] >= Reannounce

(* A slip of time.Until(nextAnnounce): the age is ignored.                 *)
UntilDueFull(h) == Reannounce

UntilDue(h) == Reannounce - age[h]

(* The goroutines the wait group is meant to count: the announcer, the     *)
(* limiter, the announcements, and the one that is about to start.         *)
Live ==
    (CASE pc = "done" -> 0 [] pc = "notify" -> 2 [] OTHER -> 1)
      + (IF limiter \in {"none", "done"} THEN 0 ELSE 1)
      + Cardinality(running) + Cardinality(finishing)

(* The head is not due: sleep until it is.  The unit that grp.Add(1) took  *)
(* for the announcement is not given back (continue); past MaxLeak such    *)
(* units are not counted.  Reset does not empty the timer's channel.       *)
NotDue ==
    /\ Wake
    /\ ~ Due(Head(ring))
    /\ wg' = IF wg - Live < MaxLeak THEN wg + 1 ELSE wg
    /\ timer' = UntilDue(Head(ring))
    /\ next' = "timerC"
    /\ UNCHANGED <<ring, hashes, age, pc, running, finishing, shutdown, users>>

(* The announcement is started, the head is stamped and goes to the back.  *)
Launch(w) ==
    /\ running' = running \cup {w}
    /\ age' = [age EXCEPT ![Head(ring)] = 0]
    /\ ring' = Append(Tail(ring), Head(ring))
    /\ next' = "limitCh"
    /\ UNCHANGED hashes

(* The head is due.  With a notification channel the announcer first       *)
(* blocks until "started" is received.                                     *)
AnnounceNext(w) ==
    /\ Wake
    /\ Due(Head(ring))
    /\ w \notin running \cup finishing
    /\ wg' = wg + 1
    /\ IF NotifyCh
       THEN pc' = "notify" /\ UNCHANGED <<ring, hashes, age, next, running>>
       ELSE Launch(w) /\ UNCHANGED pc
    /\ UNCHANGED <<timer, finishing, shutdown, users>>

(* "started" is received.  The send has no case for dht.grp.Ch(): it waits *)
(* for the user of the channel, for ever if need be.                       *)
NotifyStarted(w) ==
    /\ pc = "notify" /\ listening
    /\ w \notin running \cup finishing
    /\ pc' = "select"
    /\ Launch(w)
    /\ UNCHANGED <<timer, timerC, limiter, finishing, wg, shutdown, users>>

-----------------------------------------------------------------------------
(* announce(hash) returns: it looks up contacts under a child of dht.grp   *)
(* and waits for the tokens of its stores, both of which stopping ends.    *)
AnnounceReturns(w) ==
    /\ w \in running
    /\ running' = running \ {w}
    /\ IF NotifyCh
       THEN finishing' = finishing \cup {w} /\ UNCHANGED wg
       ELSE wg' = wg - 1 /\ UNCHANGED finishing
    /\ UNCHANGED <<sched, pc, limiter, shutdown, users>>

(* "finished" is received, and the goroutine ends; until then it waits.    *)
NotifyFinished(w) ==
    /\ w \in finishing /\ listening
    /\ finishing' = finishing \ {w}
    /\ wg' = wg - 1
    /\ UNCHANGED <<sched, pc, limiter, running, shutdown, users>>

(* limiter.Wait returns: the limiter offers a value on limitCh.            *)
LimiterReady ==
    /\ limiter = "wait"
    /\ limiter' = "offer"
    /\ UNCHANGED <<sched, pc, running, finishing, wg, shutdown, users>>

(* A slip of the limiter: its select has no case for dht.grp.Ch().         *)
LimiterNeverReturns == FALSE

LimiterReturns ==
    /\ limiter = "offer" /\ Stopped
    /\ limiter' = "done"
    /\ wg' = wg - 1
    /\ UNCHANGED <<sched, pc, running, finishing, shutdown, users>>

(* case <-dht.grp.Ch(): runAnnouncer returns, Start's goroutine calls Done.*)
AnnouncerReturns ==
    /\ pc = "select" /\ Stopped
    /\ pc' = "done"
    /\ wg' = wg - 1
    /\ UNCHANGED <<sched, limiter, running, finishing, shutdown, users>>

(* DHT.Shutdown: grp.Stop(), then grp.Wait().                              *)
Stop ==
    /\ shutdown = "no"
    /\ shutdown' = "waiting"
    /\ UNCHANGED <<sched, procs, users>>

(* Wait returns, and the node is shut down.                                *)
ShutdownReturns ==
    /\ shutdown = "waiting"
    /\ wg = 0
    /\ shutdown' = "down"
    /\ UNCHANGED <<sched, procs, users>>

(* The user of the notification channel stops receiving from it.           *)
StopListening ==
    /\ listening
    /\ listening' = FALSE
    /\ UNCHANGED <<sched, procs, shutdown, calls>>

(* Time passes; the timer fires when its time is up.                       *)
Tick ==
    /\ age' = [h \in Hash |-> IF Due(h) THEN Reannounce ELSE age[h] + 1]
    /\ timer' = IF timer = 0 THEN 0 ELSE timer - 1
    /\ timerC' = (timerC \/ timer = 1)
    /\ UNCHANGED <<ring, hashes, next, procs, shutdown, users>>

-----------------------------------------------------------------------------
Announcement(w) == AnnounceNext(w) \/ NotifyStarted(w)
WorkerEnds(w)   == AnnounceReturns(w) \/ NotifyFinished(w)
Served(c)       == AddHash(c) \/ RemoveHash(c)

Next ==
    \/ StartLimiter \/ NotDue \/ AnnouncerReturns
    \/ \E w \in Workers : Announcement(w) \/ WorkerEnds(w)
    \/ \E c \in Callers : Served(c) \/ \E e \in Edit : Call(c, e)
    \/ LimiterReady \/ LimiterReturns
    \/ Stop \/ ShutdownReturns \/ StopListening
    \/ Tick

(* Goroutines that can run do, and the clock goes on.  A select picks at   *)
(* random among its ready cases, so a case that is ready again and again   *)
(* is taken: strong fairness for stopping and for each caller.  Nothing    *)
(* makes a caller call or the program shut down, and nothing keeps the     *)
(* user of the notification channel receiving.                             *)
Fairness ==
    /\ WF_vars(StartLimiter)
    /\ WF_vars(NotDue \/ \E w \in Workers : Announcement(w))
    /\ WF_vars(LimiterReady) /\ WF_vars(LimiterReturns)
    /\ WF_vars(ShutdownReturns) /\ WF_vars(Tick)
    /\ \A w \in Workers : WF_vars(WorkerEnds(w))
    /\ \A c \in Callers : SF_vars(Served(c))
    /\ SF_vars(AnnouncerReturns)

Spec == Init /\ [][Next]_vars /\ Fairness

-----------------------------------------------------------------------------
(* Properties.                                                             *)

(* Shape of the state.                                                     *)
TypeOK ==
    /\ ring \in Seq(Hash)
    /\ hashes \subseteq Hash
    /\ age \in [Hash -> 0 .. Reannounce]
    /\ next \in {"nil", "limitCh", "timerC"}
    /\ timer \in 0 .. Reannounce
    /\ timerC \in BOOLEAN
    /\ pc \in {"start", "select", "notify", "done"}
    /\ limiter \in {"none", "wait", "offer", "done"}
    /\ running \subseteq Workers
    /\ finishing \subseteq Workers
    /\ wg \in Nat
    /\ shutdown \in {"no", "waiting", "down"}
    /\ calls \in [Callers -> Edit \cup {NoEdit}]
    /\ listening \in BOOLEAN

(* The state has its type; the map and the ring hold the same hashes, each *)
(* once, through every order of adding, removing and announcing; and the   *)
(* announcer waits for a signal only while the ring has a head, so         *)
(* queue.Value never panics.                                               *)
RingMatchesMap ==
    /\ TypeOK
    /\ ToSet(ring) = hashes
    /\ \A i, j \in DOMAIN ring : ring[i] = ring[j] => i = j
    /\ next = "nil" <=> ring = <<>>

(* The announcer never sleeps past the time a hash is due, whatever was    *)
(* added, removed or left over in the timer's channel meanwhile: no hash   *)
(* is longer overdue than the head, the only one it ever looks at, and it  *)
(* wakes in time for the head.                                             *)
NoOversleep ==
    /\ \A i, j \in DOMAIN ring : i < j => age[ring[i]] >= age[ring[j]]
    /\ pc = "select" /\ next = "timerC" =>
          \/ timerC
          \/ timer > 0 /\ timer <= Reannounce - age[Head(ring)]

(* The wait group never counts less than the goroutines that run, so Wait  *)
(* returns only when all of them have ended and nothing of the DHT runs    *)
(* on a node that is shut down.                                            *)
ShutdownWaits ==
    /\ wg >= Live
    /\ shutdown = "down" => Live = 0

(* The announcer, or an announcement, sends what nobody will receive.      *)
AnnouncerStuck == pc = "notify" /\ ~ listening
Unheard        == AnnouncerStuck \/ (finishing # {} /\ ~ listening)

(* A call of Add or Remove returns, however the calls of others, the       *)
(* limiter and the timer interleave, unless the DHT is stopped, or the     *)
(* announcer is stuck on a "started" that nobody receives.                 *)
CallsReturn ==
    \A c \in Callers :
        calls[c] # NoEdit ~> calls[c] = NoEdit \/ Stopped \/ AnnouncerStuck

(* Once no more hashes are added, every listed hash that is due is         *)
(* announced, unless it is removed, the DHT is stopped, or a notification  *)
(* goes unheard: none is forgotten in the ring or slept over.  While       *)
(* others are added for ever, each at the head of the ring, a hash behind  *)
(* them may never have its turn.                                           *)
DueAnnounced ==
    <>[](\A c \in Callers : ~ calls[c].add) =>
        \A h \in Hash :
            h \in hashes /\ Due(h) ~> age[h] = 0 \/ h \notin hashes \/ Stopped \/ Unheard

(* "StopAndWait is a convenience method to close the channel and wait for  *)
(* goroutines to return": Shutdown returns.                                *)
ShutdownEnds == shutdown = "waiting" ~> shutdown = "down"

(* Two things only can keep the wait group above zero and Shutdown from    *)
(* returning: a unit that was not given back when the announcer went to    *)
(* sleep on a timer, and a notification that nobody receives.              *)
ShutdownEndsUnlessLeaked ==
    shutdown = "waiting" /\ wg = Live ~> shutdown = "down" \/ wg > Live \/ Unheard
=============================================================================
