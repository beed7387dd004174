------------------------------- MODULE MCData -------------------------------
(***************************************************************************)
(* Instances for TLC of what handles data: the codecs, streams of blobs    *)
(* and the ordered map.  A run is about one of them; the others stay as    *)
(* they begin.                                                             *)
(***************************************************************************)
EXTENDS MCCodecs, Stream, OrderedMap

VARIABLE part       \* whose run it is

----------------------------------------------------------------------------
(* The ordered map: three keys, one of them special.  Callers set one      *)
(* value; a document brings others, a key twice, and the special key.      *)

MCEscape == "s" :> "s escaped"

MCAlphabet == <<"a", "b", "s">>

Two(v) == <<<<"b", v>>, <<"a", Scalar(NumberToken)>>>>

MCMapValue == {Scalar(NumberToken)}

MCPosition == {-2, 1}

MCDocument ==
    {DocumentOf(<<<<"b", Scalar("a")>>, <<"a", ObjectOf(Two(Scalar("a")))>>, <<"b", Scalar(NumberToken)>>,
                  <<"s", Scalar(NumberToken)>>>>, <<>>)}

----------------------------------------------------------------------------
(* JSON documents of up to two members, with and without blanks: keys      *)
(* twice, keys that are values or nested keys as well, objects and arrays  *)
(* in every place.                                                         *)

Scalars == {Scalar(NumberToken), Scalar("a")}

Objects ==
    {ObjectOf(<<>>)} \cup {ObjectOf(<<<<k, Scalar("b")>>>>) : k \in Key}
      \cup {ObjectOf(<<<<k, Scalar(NumberToken)>>, <<l, v>>>>) : k, l \in Key, v \in Scalars}

Lists ==
    {ListOf(<<>>)} \cup {ListOf(<<w>>) : w \in Scalars \cup Objects}
      \cup {ListOf(<<w, x>>) : w \in Scalars \cup Objects, x \in {Scalar(NumberToken), ObjectOf(Two(Scalar("a")))}}

JsonValues == Scalars \cup Objects \cup Lists

Documents ==
    {DocumentOf(members, blanks) :
        members \in {<<>>} \cup {<<<<k, w>>>> : k \in Key, w \in JsonValues}
                      \cup {<<<<k, w>>, <<l, x>>>> : k \in Key, w \in JsonValues, l \in {"a", "b"},
                                                     x \in {Scalar("a"), ObjectOf(Two(Scalar("a")))}},
        blanks  \in {<<>>, <<Blank>>}}

\* Ordered maps without the special key, as they are marshalled.
InnerMaps ==
    {MapOf(<<>>, <<>>)}
      \cup {MapOf(ks, [k \in {"a", "b"} |-> v]) : ks \in {<<"a", "b">>, <<"b", "a">>}, v \in Scalars}

MapValues ==
    Scalars \cup InnerMaps \cup {ArrayOf(<<v, w>>) : v \in InnerMaps, w \in Scalars \cup InnerMaps}

Maps ==
    {MapOf(ks, [k \in {"a", "b"} |-> IF k = "a" THEN v ELSE w]) :
        ks \in {<<"a", "b">>, <<"b", "a">>}, v \in MapValues, w \in {Scalar("a"), MapOf(<<"b", "a">>, [k \in {"a", "b"} |-> Scalar("b")])}}

ADocument == Give("document", Documents)

AMap == Give("map", Maps)

----------------------------------------------------------------------------

MCInit ==
    /\ part \in {"codecs", "stream", "map"}
    /\ CodecInit /\ Init /\ MapInit
    /\ part # "stream" => file = <<>>

MCNext ==
    /\ UNCHANGED part
    /\ \/ part = "codecs" /\ (ADocument \/ AMap \/ CodecNext) /\ UNCHANGED <<vars, mapVars>>
       \/ part = "stream" /\ Next /\ UNCHANGED <<input, mapVars>>
       \/ part = "map" /\ MapNext /\ UNCHANGED <<input, vars>>

MCSpec == MCInit /\ [][MCNext]_<<part, input, vars, mapVars>>

----------------------------------------------------------------------------

\* UnmarshalJSON finds every key of a document, and of an object in it, at its place, whatever
\* other keys, values and nested objects look like it in the text, and makes an ordered map of
\* every object, the last item of an array excepted; it does not panic.  The text MarshalJSON writes
\* of a map is read as the same list with the same values, with the same exception.
JSONKeeps ==
    /\ Is("document") => DocumentRead(input.x)
    /\ Is("map") => MapReread(input.x)

\* "if the value for this key is a []interface, convert any map items to an orderedmap"
\* (ordered_map.go:197): no item of an array is left as a Go map.
ArrayItemsOrdered == Is("document") => ItemsOrdered(input.x)

=============================================================================
