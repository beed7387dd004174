----------------------------- MODULE OrderedMap -----------------------------
(***************************************************************************)
(* The ordered map of extras/orderedmap: a slice of keys and a map of      *)
(* values under a lock, read by one caller of Keys or Copy while others    *)
(* write.                                                                  *)
(*                                                                         *)
(* The slice is an array of cells, as many as its capacity, and a length;  *)
(* append writes into the array when there is room and moves to a new one  *)
(* otherwise.  Keys hands out the slice itself, and Copy reads it without  *)
(* the lock: until the reader is done it shares the array, or keeps the    *)
(* old one if the map has moved to another.  What a read without the lock  *)
(* gives while a writer holds it may be old, new, or torn.                 *)
(***************************************************************************)
EXTENDS JsonText

CONSTANTS MapValue, Position,
          Document,     \* JSON objects with their texts
          MaxCap,       \* bound: the largest capacity
          MaxOverlap    \* bound: writes while a reader reads

VARIABLES cells,        \* the array of o.keys
          len,          \* len(o.keys)
          values,       \* o.values
          writing,      \* <<>>, or <<what the slice was>> while a writer holds the lock
          reader        \* the caller of Keys or Copy

mapVars == <<cells, len, values, writing, reader>>

NoKey == "no key"

Torn == "torn"

Nil == [t |-> "nil"]

Slice == SubSeq(cells, 1, len)

ASSUME MapAssumption ==
    /\ Position \subseteq Int /\ MaxCap \in Nat
    /\ \A v \in MapValue : v.t \in {"scalar", "map", "array"}
    /\ \A doc \in Document :
          /\ doc.text \in Seq(ToSet(doc.text)) /\ doc.members \in Seq(ToSet(doc.members))
          /\ \A i \in DOMAIN doc.members :
                doc.members[i][1] \in Key /\ doc.members[i][2].t \in {"scalar", "object", "list"}

----------------------------------------------------------------------------
(* Writers.  Each takes the lock, changes slice and map, and releases it.  *)

\* A new array with the given keys; the runtime chooses its capacity.
NewArray(ks) ==
    \E cap \in Len(ks)..MaxCap :
        cells' = [i \in 1..cap |-> IF i <= Len(ks) THEN ks[i] ELSE NoKey]

\* append writes the keys ks from cell from + 1 on, and gives the slice a new length.
InPlace(ks, from) ==
    /\ cells' = [i \in DOMAIN cells |-> IF i \in (from + 1)..(from + Len(ks)) THEN ks[i - from] ELSE cells[i]]
    /\ len' = from + Len(ks)

\* append(o.keys[:from], ks...)
AppendTo(from, ks) ==
    IF from + Len(ks) <= Len(cells) THEN InPlace(ks, from)
    ELSE NewArray(SubSeq(cells, 1, from) \o ks) /\ len' = from + Len(ks)

KeepSlice == UNCHANGED <<cells, len>>

\* No reader; start is what the slice was when it was taken, out what was read of it, copied the
\* values of the copy, events the writes other than Set and Prepend that overlapped.
Idle ==
    [pc |-> "idle", kind |-> "none", shared |-> FALSE, cells |-> <<>>, len |-> 0, next |-> 1,
     events |-> {}, writes |-> 0, start |-> <<>>, out |-> <<>>, copied |-> <<>>]

\* The reader keeps the array it has when the map moves to a new one; event is what overlapped.
\* A reader that was done drops what it had.
ReaderSees(event, moved) ==
    reader' = IF reader.pc \notin {"cell", "get"} THEN Idle
              ELSE [reader EXCEPT !.events = @ \cup ({event} \ {"Set", "Prepend"}), !.writes = @ + 1,
                                  !.shared = @ /\ ~moved,
                                  !.cells  = IF reader.shared /\ moved THEN cells ELSE @]

Locked(event, moved) ==
    /\ writing = <<>>
    /\ reader.writes < MaxOverlap
    /\ writing' = <<[cells |-> cells, len |-> len, moved |-> moved]>>
    /\ ReaderSees(event, moved)

Unlock == writing # <<>> /\ writing' = <<>> /\ UNCHANGED <<cells, len, values, reader>>

Exists(k) == k \in DOMAIN values

Put(k, v) == values' = [j \in DOMAIN values \cup {k} |-> IF j = k THEN v ELSE values[j]]

ArrayFull == len = Len(cells)

MapSet(k, v) ==
    /\ Locked("Set", ~Exists(k) /\ ArrayFull)
    /\ IF Exists(k) THEN KeepSlice ELSE AppendTo(len, <<k>>)
    /\ Put(k, v)

\* The position, from the left or, if negative, from the right; an error if it is out of range.
Index(position) == IF position < 0 THEN position + len + 1 ELSE position

\* As a slip: append(append(o.keys[0:index], key), o.keys[index:]...), which reads the right part
\* after the key was written into it.
InsertKeyOver(k, index) ==
    IF ArrayFull THEN AppendTo(index, <<k>> \o SubSeq(cells, index + 1, len))
    ELSE AppendTo(index, <<k>> \o [i \in 1..(len - index) |-> IF i = 1 THEN k ELSE cells[index + i]])

\* The right part is copied before the left part and the key are written over it.
InsertKey(k, index) == AppendTo(index, <<k>> \o SubSeq(cells, index + 1, len))

InsertKeyAt(k, v, position) ==
    /\ Index(position) \in 0..len
    /\ Locked("InsertAt", ~Exists(k) /\ ArrayFull)
    /\ IF Exists(k) THEN KeepSlice ELSE InsertKey(k, Index(position))
    /\ Put(k, v)

\* As a slip: into the array, if there is room.
PrependInPlace(k, v) ==
    /\ Locked("Prepend", ~Exists(k) /\ ArrayFull)
    /\ IF Exists(k) THEN KeepSlice ELSE AppendTo(0, <<k>> \o Slice)
    /\ Put(k, v)

Prepend(k, v) ==
    /\ Locked("Prepend", ~Exists(k))
    /\ IF Exists(k) THEN KeepSlice ELSE NewArray(<<k>> \o Slice) /\ len' = len + 1
    /\ Put(k, v)

\* A key that was not found in the text of a document has a value but no cell.
RemoveCell(k) ==
    LET at == {i \in 1..len : cells[i] = k}
        i  == CHOOSE i \in at : \A j \in at : i <= j
    IN  IF at = {} THEN KeepSlice ELSE AppendTo(i - 1, SubSeq(cells, i + 1, len))

Delete(k) ==
    /\ Exists(k)
    /\ Locked("Delete", FALSE)
    /\ RemoveCell(k)
    /\ values' = [j \in DOMAIN values \ {k} |-> values[j]]

\* The maps that UnmarshalJSON makes of the documents.
Loaded == [doc \in Document |-> Read(doc)]

UnmarshalJSON(doc) ==
    /\ Locked("UnmarshalJSON", TRUE)
    /\ NewArray(Loaded[doc].keys)
    /\ len' = Len(Loaded[doc].keys)
    /\ values' = Loaded[doc].values

----------------------------------------------------------------------------
(* The reader.                                                             *)

Take(kind, shared, array, length, events) ==
    /\ reader.pc \in {"idle", "done", "wild"}
    /\ reader' = [Idle EXCEPT !.pc = IF length = 0 THEN "done" ELSE "cell", !.kind = kind,
                              !.shared = shared, !.cells = IF shared THEN <<>> ELSE array,
                              !.len = length, !.start = Slice, !.events = events]
    /\ UNCHANGED <<cells, len, values, writing>>

\* The lock is held while the slice is taken.
ReadKeys == writing = <<>> /\ Take("keys", TRUE, cells, len, {})

\* The slice is taken without the lock: pointer and length may be of two different slices.
StartCopy ==
    \/ writing = <<>> /\ Take("copy", TRUE, cells, len, {})
    \/ /\ writing # <<>>
       /\ \E length \in {len, writing[1].len} :
              \/ Take("copy", TRUE, cells, length, {"race"})
              \/ writing[1].moved /\ Take("copy", FALSE, writing[1].cells, length, {"race"})

Array == IF reader.shared THEN cells ELSE reader.cells

\* A cell that a writer changes in place may be read as it was, as it is, or torn.
CellReads ==
    LET now == Array[reader.next]
        old == writing[1].cells[reader.next]
    IN  IF writing = <<>> \/ ~reader.shared THEN {now}
        ELSE IF writing[1].moved THEN {now}
        ELSE IF old = now THEN {now} ELSE {now, old, Torn}

Advance(r) ==
    IF r.next < r.len THEN [r EXCEPT !.next = @ + 1, !.pc = "cell"]
    ELSE [r EXCEPT !.pc = "done", !.shared = FALSE, !.cells = <<>>, !.writes = 0]

\* An index beyond the array reads memory that is not the map's.
ReadCell ==
    /\ reader.pc = "cell"
    /\ IF reader.next > Len(Array) THEN reader' = [reader EXCEPT !.pc = "wild", !.writes = 0]
       ELSE \E k \in CellReads :
                LET r == [reader EXCEPT !.out = Append(@, k)]
                IN  reader' = IF reader.kind = "copy" THEN [r EXCEPT !.pc = "get"] ELSE Advance(r)
    /\ UNCHANGED <<cells, len, values, writing>>

\* Get under the lock, then Set in the new map, which keeps the first place of a key.
CopyValue ==
    /\ reader.pc = "get"
    /\ writing = <<>>
    /\ LET k    == Last(reader.out)
           v    == IF Exists(k) THEN values[k] ELSE Nil
           keys == IF k \in ToSet(Front(reader.out)) THEN Front(reader.out) ELSE reader.out
           old  == reader.copied
       IN  reader' = Advance([reader EXCEPT !.out = keys,
                        !.copied = [i \in DOMAIN keys |-> IF keys[i] = k THEN v ELSE old[i]]])
    /\ UNCHANGED <<cells, len, values, writing>>

----------------------------------------------------------------------------

MapInit ==
    /\ cells = <<>> /\ len = 0 /\ values = <<>>
    /\ writing = <<>>
    /\ reader = Idle

MapNext ==
    \/ \E k \in Key, v \in MapValue : MapSet(k, v) \/ Prepend(k, v)
    \/ \E k \in Key, v \in MapValue, position \in Position : InsertKeyAt(k, v, position)
    \/ \E k \in Key : Delete(k)
    \/ \E doc \in Document : UnmarshalJSON(doc)
    \/ Unlock
    \/ ReadKeys \/ StartCopy \/ ReadCell \/ CopyValue

MapSpec == MapInit /\ [][MapNext]_mapVars

----------------------------------------------------------------------------

\* The keys of every document are found in its text, in their order.
KeysFound == \A doc \in Document : Loaded[doc].keys = Listed(doc.members)

\* As a list of pairs the map does what PairList says, one operation at a time, whatever array
\* the keys are in and whoever reads it.
List == INSTANCE PairList WITH
            Value    <- MapValue,
            pairs    <- [i \in 1..len |-> <<cells[i], values[cells[i]]>>],
            unlisted <- {<<k, values[k]>> : k \in DOMAIN values \ ToSet(Slice)},
            Escaped  <- Special,
            Documents <- {[i \in DOMAIN doc.members |->
                              <<doc.members[i][1], Loaded[doc].values[doc.members[i][1]]>>] : doc \in Document}

IsPairList == List!Spec

\* What Keys gave out, or Copy made, is the list as it was when it was taken, unless an entry was
\* deleted or inserted meanwhile or Copy took the slice during a write: Set, Prepend and
\* UnmarshalJSON never disturb a reader.  The values of a copy are there unless the map was
\* replaced.
ReaderUndisturbed ==
    reader.pc \in {"done", "wild"} /\ reader.events \cap {"Delete", "InsertAt", "race"} = {} =>
        /\ reader.out = reader.start
        /\ reader.kind = "copy" /\ "UnmarshalJSON" \notin reader.events =>
              Nil \notin ToSet(reader.copied)

=============================================================================
