------------------------------ MODULE PairList ------------------------------
(***************************************************************************)
(* What an ordered map promises: a list of keys with their values, in the  *)
(* order the callers gave, changed by one whole operation at a time.       *)
(* OrderedMap, with its slice, its map and its lock, implements it.        *)
(***************************************************************************)
EXTENDS Integers, Sequences, FiniteSets, SequencesExt

CONSTANTS Key, Value, Position,
          Documents,   \* sequences of <<key, value>>
          Escaped      \* keys a document writes with an escape

VARIABLES pairs,     \* the list: <<key, value>>
          unlisted   \* keys with a value that are not in the list

Keys == {pairs[i][1] : i \in DOMAIN pairs} \cup {p[1] : p \in unlisted}

\* A key that has a value keeps its place; where it goes otherwise is said by whole.
Store(k, v, whole) ==
    IF k \in Keys
    THEN /\ pairs' = [i \in DOMAIN pairs |-> IF pairs[i][1] = k THEN <<k, v>> ELSE pairs[i]]
         /\ unlisted' = {IF p[1] = k THEN <<k, v>> ELSE p : p \in unlisted}
    ELSE pairs' = whole /\ UNCHANGED unlisted

AddLast(k, v) == Store(k, v, Append(pairs, <<k, v>>))

AddFirst(k, v) == Store(k, v, <<<<k, v>>>> \o pairs)

\* The key gets exactly the place asked for, counted from 0 or, if negative, from the end.
AddAt(k, v, position) ==
    LET place == IF position < 0 THEN Len(pairs) + 2 + position ELSE position + 1
    IN  /\ place \in 1..(Len(pairs) + 1)
        /\ Store(k, v, InsertAt(pairs, place, <<k, v>>))

Drop(k) ==
    /\ \/ \E i \in DOMAIN pairs : pairs[i][1] = k /\ pairs' = RemoveAt(pairs, i)
       \/ (\A i \in DOMAIN pairs : pairs[i][1] # k) /\ pairs' = pairs
    /\ unlisted' = {p \in unlisted : p[1] # k}

\* Of several members of a document with the same key only the last one counts.
LastMembers(doc) == {i \in DOMAIN doc : \A j \in DOMAIN doc : doc[j][1] = doc[i][1] => j <= i}

\* A loaded document is the list, in its own order; its escaped keys have values only.
Load(doc) ==
    LET listed == {i \in LastMembers(doc) : doc[i][1] \notin Escaped}
        size   == Cardinality(listed)
    IN  /\ \E at \in [1..size -> listed] :
              /\ \A m, n \in 1..size : m < n => at[m] < at[n]
              /\ pairs' = [n \in 1..size |-> doc[at[n]]]
        /\ unlisted' = {doc[i] : i \in LastMembers(doc) \ listed}

Init == pairs = <<>> /\ unlisted = {}

Next ==
    \/ \E k \in Key, v \in Value : AddLast(k, v) \/ AddFirst(k, v)
    \/ \E k \in Key, v \in Value, position \in Position : AddAt(k, v, position)
    \/ \E k \in Key : Drop(k)
    \/ \E doc \in Documents : Load(doc)

Spec == Init /\ [][Next]_<<pairs, unlisted>>

=============================================================================
