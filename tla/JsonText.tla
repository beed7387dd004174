------------------------------ MODULE JsonText ------------------------------
(***************************************************************************)
(* How the ordered map of extras/orderedmap writes and reads JSON:         *)
(* MarshalJSON, and mapToOrderedMap, which has the values from             *)
(* encoding/json and looks for the order of their keys in the text.        *)
(*                                                                         *)
(* A text is a sequence of tokens: punctuation, a blank, a number, and     *)
(* strings with their quotes, as keys or as values.  (A quoted key that is *)
(* found within a string leaves an open string before it, and nothing the  *)
(* search would accept.)  Objects are nested in objects and in arrays of   *)
(* the text, and hold numbers and strings themselves; the text has a blank *)
(* wherever a pretty-printer puts one, or none.                            *)
(***************************************************************************)
EXTENDS Integers, Sequences, FiniteSets, SequencesExt

CONSTANTS Key,
          Escape,       \* what JSON writes for the keys that need an escape other than that of a quote
          Alphabet      \* the keys as Go sorts them

Blank == " "

NumberToken == "0"

Punctuation == {"{", "}", "[", "]", ",", ":"}

IsString(token) == token \notin Punctuation \cup {Blank, NumberToken}

Special == DOMAIN Escape

----------------------------------------------------------------------------
(* encoding/json: which texts are JSON.  A parser reads them from left to  *)
(* right; it knows the objects and arrays that are open and what it needs. *)

Needs(open, what) == [open |-> open, what |-> what]

AfterValue(open) == Needs(open, IF open = <<>> THEN "nothing" ELSE "more")

ReadValue(p, token) ==
    CASE token = "{" -> Needs(Append(p.open, "}"), "first key")
      [] token = "[" -> Needs(Append(p.open, "]"), "first item")
      [] token = "]" /\ p.what = "first item" -> AfterValue(Front(p.open))
      [] token \notin Punctuation -> AfterValue(p.open)
      [] OTHER -> Needs(<<>>, "no JSON")

ReadToken(p, token) ==
    CASE token = Blank -> p
      [] p.what \in {"value", "first item"} /\ token # Blank -> ReadValue(p, token)
      [] p.what \in {"key", "first key"} /\ IsString(token) -> Needs(p.open, "colon")
      [] p.what = "first key" /\ token = "}" -> AfterValue(Front(p.open))
      [] p.what = "colon" /\ token = ":" -> Needs(p.open, "value")
      [] p.what = "more" /\ token = "," -> Needs(p.open, IF Last(p.open) = "}" THEN "key" ELSE "value")
      [] p.what = "more" /\ token = Last(p.open) -> AfterValue(Front(p.open))
      [] OTHER -> Needs(<<>>, "no JSON")

ValidJson(s) ==
    LET after[n \in 0..Len(s)] == IF n = 0 THEN Needs(<<>>, "value") ELSE ReadToken(after[n - 1], s[n])
    IN  after[Len(s)].what = "nothing"

----------------------------------------------------------------------------
(* Values.  An object has members <<key, value>>; of several members with  *)
(* the same key encoding/json takes the last.                              *)

Scalar(token) == [t |-> "scalar", token |-> token]

ObjectOf(members) == [t |-> "object", members |-> members]

ListOf(items) == [t |-> "list", items |-> items]

MapOf(ks, vs) == [t |-> "map", keys |-> ks, values |-> vs]

GoMapOf(vs) == [t |-> "gomap", values |-> vs]

ArrayOf(items) == [t |-> "array", items |-> items]

\* The members of S, which have different places, by their places.
InOrder(S, place) ==
    CHOOSE s \in [1..Cardinality(S) -> S] :
        \A i, j \in 1..Cardinality(S) : i < j => place[s[i]] < place[s[j]]

DocKeys(members) == {members[i][1] : i \in DOMAIN members}

LastOf(members, k) ==
    CHOOSE i \in DOMAIN members : members[i][1] = k /\ \A j \in DOMAIN members : members[j][1] = k => j <= i

LastValues(members) == [k \in DocKeys(members) |-> members[LastOf(members, k)][2]]

UnmarshalItem(w) == IF w.t = "object" THEN GoMapOf(LastValues(w.members)) ELSE w

\* json.Unmarshal into an interface{}
Unmarshal(w) ==
    IF w.t = "list" THEN ArrayOf([i \in DOMAIN w.items |-> UnmarshalItem(w.items[i])]) ELSE UnmarshalItem(w)

----------------------------------------------------------------------------
(* The text of an object, with a given blank, or none, where it may be.    *)

Written(k) == IF k \in Special THEN Escape[k] ELSE k

Enclosed(first, parts, last, blanks) ==
    <<first>> \o blanks
      \o FlattenSeq([i \in DOMAIN parts |-> (IF i = 1 THEN <<>> ELSE <<",">> \o blanks) \o parts[i]])
      \o blanks \o <<last>>

ItemText(w, blanks) ==
    IF w.t = "object"
    THEN Enclosed("{", [i \in DOMAIN w.members |->
             <<Written(w.members[i][1]), ":">> \o blanks \o <<w.members[i][2].token>>], "}", blanks)
    ELSE <<w.token>>

ValueText(w, blanks) ==
    IF w.t = "list" THEN Enclosed("[", [i \in DOMAIN w.items |-> ItemText(w.items[i], blanks)], "]", blanks)
    ELSE ItemText(w, blanks)

\* A document is an object and its text.
DocumentOf(members, blanks) ==
    [members |-> members,
     text    |-> Enclosed("{", [i \in DOMAIN members |->
                     <<Written(members[i][1]), ":">> \o blanks \o ValueText(members[i][2], blanks)], "}", blanks)]

----------------------------------------------------------------------------
(* mapToOrderedMap                                                         *)

TrimSpace(s) ==
    LET at == {i \in DOMAIN s : s[i] # Blank}
    IN  IF at = {} THEN <<>> ELSE SubSeq(s, Min(at), Max(at))

\* What is before token i, without the comma that ends it.
Before(s, i) ==
    LET trimmed == TrimSpace(SubSeq(s, 1, i - 1))
    IN  IF trimmed # <<>> /\ Last(trimmed) = "," THEN Front(trimmed) ELSE trimmed

\* The tokens that are the quoted key and leave a whole object before them.
Places(s, k) == {i \in DOMAIN s : s[i] = k /\ ValidJson(Append(Before(s, i), "}"))}

\* The search goes from the end of the text to its beginning.
KeyIndex(s, k) == Max(Places(s, k))

\* The keys that are found, sorted by how much text is before them.
OrderedKeys(s, ks) ==
    InOrder({k \in ks : Places(s, k) # {}}, [k \in {k \in ks : Places(s, k) # {}} |-> KeyIndex(s, k)])

\* The text from the token after the key at i on, without a colon and the end of the object.
ValueStr(s, i) ==
    LET valueStr == TrimSpace(SubSeq(s, i + 1, Len(s) - 1))
    IN  TrimSpace(IF valueStr[1] = ":" THEN Tail(valueStr) ELSE valueStr)

\* The shortest part at the beginning that ends with the token last and is JSON.
WholeEnds(valueStr, last) == {j \in 2..Len(valueStr) : valueStr[j] = last /\ ValidJson(SubSeq(valueStr, 1, j))}

Whole(valueStr, last) == SubSeq(valueStr, 1, Min(WholeEnds(valueStr, last)))

\* As a slip: an item ends before the first comma, whole or not.
ItemTextsToComma(itemsStr) ==
    LET found[n \in 0..Len(itemsStr)] ==
            IF n = 0 THEN [startItem |-> 1, texts |-> <<>>]
            ELSE LET f    == found[n - 1]
                     item == TrimSpace(SubSeq(itemsStr, f.startItem, n - 1))
                 IN  IF (itemsStr[n] # "," /\ n < Len(itemsStr)) \/ item = <<>> THEN f
                     ELSE [startItem |-> n + 1, texts |-> Append(f.texts, item)]
    IN  found[Len(itemsStr)].texts

\* The texts of the items of an array, as far as the loop finds them: an item ends before a comma,
\* or before the last token of the array's text.
ItemTexts(itemsStr) ==
    LET found[n \in 0..Len(itemsStr)] ==
            IF n = 0 THEN [startItem |-> 1, texts |-> <<>>]
            ELSE LET f    == found[n - 1]
                     item == TrimSpace(SubSeq(itemsStr, f.startItem, n - 1))
                 IN  IF (itemsStr[n] # "," /\ n < Len(itemsStr)) \/ ~ValidJson(item) THEN f
                     ELSE [startItem |-> n + 1, texts |-> Append(f.texts, item)]
    IN  found[Len(itemsStr)].texts

PanicValue == [t |-> "panic"]

\* A nested map that is found is an ordered map; its own values are no maps.
OrderedItem(s, v) == IF v.t # "gomap" THEN PanicValue ELSE MapOf(OrderedKeys(s, DOMAIN v.values), v.values)

OrderedArray(valueStr, v) ==
    LET texts == ItemTexts(SubSeq(valueStr, 2, Len(valueStr) - 1))
        maps  == {i \in DOMAIN texts : texts[i][1] = "{"}
    IN  IF v.t # "array" \/ ~maps \subseteq DOMAIN v.items THEN PanicValue
        ELSE ArrayOf([i \in DOMAIN v.items |->
                 IF i \in maps THEN OrderedItem(texts[i], v.items[i]) ELSE v.items[i]])

OrderedValue(valueStr, v) ==
    CASE valueStr[1] = "{" /\ WholeEnds(valueStr, "}") # {} -> OrderedItem(Whole(valueStr, "}"), v)
      [] valueStr[1] = "[" /\ WholeEnds(valueStr, "]") # {} -> OrderedArray(Whole(valueStr, "]"), v)
      [] OTHER -> v

FoundValue(s, k, v) == IF Places(s, k) = {} THEN v ELSE OrderedValue(ValueStr(s, KeyIndex(s, k)), v)

mapToOrderedMap(s, vs) ==
    MapOf(OrderedKeys(s, DOMAIN vs), [k \in DOMAIN vs |-> FoundValue(s, k, vs[k])])

\* UnmarshalJSON
Read(doc) ==
    mapToOrderedMap(doc.text, [k \in DocKeys(doc.members) |-> Unmarshal(LastValues(doc.members)[k])])

----------------------------------------------------------------------------
(* MarshalJSON, as the document it writes.  encoding/json writes a Go map  *)
(* with its keys sorted, and calls MarshalJSON for an ordered map.         *)

MapMembers(m) == [i \in DOMAIN m.keys |-> <<m.keys[i], m.values[m.keys[i]]>>]

MarshalItem(v) ==
    CASE v.t = "map"   -> ObjectOf(MapMembers(v))
      [] v.t = "gomap" -> ObjectOf(MapMembers([keys |-> SelectSeq(Alphabet, LAMBDA k : k \in DOMAIN v.values),
                                               values |-> v.values]))
      [] OTHER         -> v

Marshal(v) ==
    IF v.t = "array" THEN ListOf([i \in DOMAIN v.items |-> MarshalItem(v.items[i])]) ELSE MarshalItem(v)

MarshalJSON(m) ==
    DocumentOf([i \in DOMAIN m.keys |-> <<m.keys[i], Marshal(m.values[m.keys[i]])>>], <<>>)

----------------------------------------------------------------------------
(* What reading should give.                                               *)

\* The keys of an object by the place of their last members, without those that are not found.
Listed(members) == InOrder(DocKeys(members) \ Special, [k \in DocKeys(members) |-> LastOf(members, k)])

InFull(w) == IF w.t = "object" THEN MapOf(Listed(w.members), LastValues(w.members)) ELSE w

\* A value that was read holds ordered maps for the objects of the text, with their keys in order;
\* only what becomes of the last item of an array is left open.
ReadAs(v, w) ==
    IF w.t # "list" THEN v = InFull(w)
    ELSE /\ v.t = "array" /\ DOMAIN v.items = DOMAIN w.items
         /\ \A i \in DOMAIN w.items : i < Len(w.items) => v.items[i] = InFull(w.items[i])

\* The keys of a document are found where they are, whatever its values and nested keys are.
DocumentRead(doc) ==
    LET read == Read(doc)
        last == LastValues(doc.members)
    IN  /\ read.keys = Listed(doc.members)
        /\ \A k \in DocKeys(doc.members) \ Special : ReadAs(read.values[k], last[k])

\* A map is read as it was written: the same keys in the same order, and their values.
MapReread(m) ==
    LET read == Read(MarshalJSON(m))
    IN  /\ read.keys = m.keys
        /\ \A k \in DOMAIN m.values : ReadAs(read.values[k], Marshal(m.values[k]))

\* Every object in an array of the document has become an ordered map.
ItemsOrdered(doc) ==
    LET read == Read(doc).values
    IN  \A k \in DocKeys(doc.members) \ Special :
            read[k].t = "array" => \A i \in DOMAIN read[k].items : read[k].items[i].t # "gomap"

=============================================================================
