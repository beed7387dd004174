------------------------------ MODULE MCCodecs ------------------------------
(***************************************************************************)
(* The parts of lbry.go that compute and keep no state, over bounded       *)
(* inputs: bitmaps and ranges, messages, URLs, claims, addresses and API   *)
(* requests.  Each action hands one component an input; Back takes it      *)
(* away.                                                                   *)
(***************************************************************************)
EXTENDS Bitmap, Messages, Url, Claims, Address, Api

VARIABLE input

NoInput == [kind |-> "none"]

----------------------------------------------------------------------------
(* Messages: two ids, contacts with and without an IPv4 address, peer      *)
(* ports up to one that does not fit.                                      *)

Ids == {[i \in 1..IdBytes |-> IF i = 1 THEN n ELSE n - 1] : n \in 1..2}

MsgIds == {[i \in 1..MsgIdBytes |-> n] : n \in 0..1}

Tokens == {EmptyString, <<7>>}

OneContact ==
    [id : {[i \in 1..IdBytes |-> (1 + i) % 3]}, ip : {NilIP, 1, 3, IPv6}, port : {5}, peerPort : {0, 6, 15, 16}]

OtherContact == [id |-> [i \in 1..IdBytes |-> 3], ip |-> 2, port |-> 1, peerPort |-> 2]

ContactLists == {<<>>} \cup {<<c>> : c \in OneContact} \cup {<<c, OtherContact>> : c \in OneContact}

Requests ==
    [id : MsgIds, nodeID : Ids, method : {pingMethod, findNodeMethod, findValueMethod},
     storeArgs : {<<>>}, arg : {<<>>} \cup {<<x>> : x \in Ids}, version : {0}]
      \cup [id : MsgIds, nodeID : Ids, method : {storeMethod},
            storeArgs : {<<a>> : a \in [blobHash : Ids, token : Tokens, lbryID : Ids, port : 0..1,
                                        nodeID : Ids, selfStore : BOOLEAN]},
            arg : {<<>>}, version : {0}]

Responses ==
    [id : MsgIds, nodeID : Ids, data : {pingSuccessResponse, storeSuccessResponse},
     contacts : {<<>>}, findValueKey : {EmptyString}, token : {EmptyString}, version : {0}]
      \cup [id : MsgIds, nodeID : {[i \in 1..IdBytes |-> 1]}, data : {EmptyString}, contacts : ContactLists,
            findValueKey : {EmptyString} \cup Ids, token : Tokens, version : {0}]

Errors ==
    [id : MsgIds, nodeID : Ids, exceptionType : {EmptyString, <<3>>},
     response : {<<>>, << <<1>> >>, << <<1>>, <<2>> >>}]

----------------------------------------------------------------------------
(* URLs: with and without protocol, host, modifiers, stream and query.     *)

Modifiers ==
    {x \o w : x \in {<<>>} \cup {<<s>> : s \in Separators}, w \in {<<>>, <<"a1">>, <<"7">>, <<"0">>, <<"g">>}}

Streams == {<<>>} \cup {<<"/">> \o n \o m : n \in {<<>>, <<"t">>},
                                            m \in {m \in Modifiers : m = <<>> \/ Head(m) \in Separators}}

UrlQueries == {<<>>, <<"?", "s">>, <<"?", "s", " ", "t">>}

Urls ==
    {head \o name \o m \o stream \o query :
        head   \in {<<>>, <<"lbry://">>, <<"https://", "lbry.tv/">>},
        name   \in {<<>>, <<"@">>, <<"@", "c">>, <<"s">>},
        m      \in Modifiers,
        stream \in Streams,
        query  \in UrlQueries}

MCNumberOf == ("7" :> 7) @@ ("0" :> 0)

----------------------------------------------------------------------------
(* Claims: streams, reposts, channels and supports, two channels, two      *)
(* keys, two transactions.                                                 *)

ClaimHelpers ==
    {[NewHelper EXCEPT !.claim.type = t, !.claim.title = n, !.support = NilSupport] :
        t \in {"stream", "repost"}, n \in {"", "a", "b"}}
      \cup {[NewHelper EXCEPT !.claim.type = "channel", !.claim.key = k, !.support = NilSupport] :
                k \in {"k1", "k2"}}

SupportHelpers == {[NewHelper EXCEPT !.claim = NilClaim, !.support = s] : s \in {"x", "y"}}

Helpers == ClaimHelpers \cup SupportHelpers

ClaimIds == {[k \in 1..IdLen |-> Byte(IF k % 2 = p THEN "i" ELSE "j")] : p \in 0..1}

SomeSignature == [i \in 1..SigLen |-> Byte(ToString(i))]

SignedHelpers ==
    {[h EXCEPT !.version = "WithSig", !.claimID = id, !.signature = SomeSignature] :
        h \in Helpers, id \in ClaimIds}

\* A number of a signature is at least one byte long.
LeadingZeros == {z \in 0..1 : z < HalfLen}

Signings ==
    [helper : {h \in Helpers : h.claim.type # "channel"}, key : {"k1", "k2"},
     txid : {<<Byte("t")>>, <<Byte("u")>>}, channel : ClaimIds, r : LeadingZeros, s : LeadingZeros]

Signers == {s \in Signings : s.key = "k1"}

Checks == {s \in Signings : s.r = 0 /\ s.s = 0}

V1Signings == {s \in Signings : s.helper.support = "x"}

LegacyClaims ==
    [type : {"stream"}, title : {"a", "b"}, key : {""}, nsfw : {FALSE}, mediaType : {"m"},
     licenseUrl : {""}, fee : {<<>>}, certificateId : {<<>>}, signature : {<<>>}]

JSONClaims ==
    [ver : {"", "0.0.1", "0.0.2", "0.0.3", "0.0.4"}, title : {"a"}, contentDashType : {"", "m"},
     content_type : {"", "n"}, nsfw : BOOLEAN, licenseUrl : {"l"},
     fee : {<<>>} \cup {<<x>> : x \in SUBSET {"BTC", "LBC", "USD"}}, hexHash : BOOLEAN]

----------------------------------------------------------------------------
(* Addresses: every address of one prefix byte, a hash of two bytes and a  *)
(* checksum of one; every writing up to seven digits.                      *)

MCaddressPrefixes == [n \in {"lbrycrd_main", "lbrycrd_testnet"} |-> IF n = "lbrycrd_main" THEN {0, 2} ELSE {1, 3}]

MCChecksumOf(v) == <<(1 + FoldLeft(LAMBDA n, d : 2 * n + d, 0, v)) % AddressBase>>

Chains == DOMAIN MCaddressPrefixes \cup {"bitcoin"}

Writings ==
    (UNION {[1..k -> 0..(DigitBase - 1)] : k \in 1..7}) \cup (UNION {[1..k -> {-1, 1}] : k \in 1..3})

----------------------------------------------------------------------------
(* API requests: origins that are configured, local or neither; handlers   *)
(* that panic, fail, redirect or choose a status; forms with missing,      *)
(* empty, unreadable, oversized and unknown parameters.                    *)

Origins == {"", "home", "other", "local"}

Configurations ==
    [headers : [allow : {"", "all"}, vary : {<<>>, <<"*">>, <<"Accept">>}],
     domains : {<<>>, <<"home">>, <<"home", "other">>, <<"home", "home">>}, localhost : BOOLEAN]

Outcomes ==
    [panics : BOOLEAN, status : {0, 200, 302, 400}, error : {NoError, <<0>>, <<404>>, <<302>>},
     redirect : BOOLEAN, encodes : BOOLEAN]

Field(name, kind, size) == [name |-> name, kind |-> kind, size |-> size]

FieldLists ==
    {<<Field("p", k, 16), Field("q", "int", 8), Field("r", "string", 0)>> :
        k \in {"int", "uint", "bool", "float", "string", "struct"}}

Forms == UNION {[S -> {"", "1", "7", "-1", "no"}] : S \in SUBSET {"p", "q", "r", "z"}}

MCIntOf == ("1" :> 1) @@ ("7" :> 7) @@ ("-1" :> -1)

----------------------------------------------------------------------------

Give(kind, set) == input = NoInput /\ \E x \in set : input' = [kind |-> kind, x |-> x]

TwoBitmaps == Give("bitmaps", Bitmaps \X Bitmaps)

ARequest == Give("request", Requests)

AResponse == Give("response", Responses)

AnError == Give("error", Errors)

AUrl == Give("url", Urls)

AClaim == Give("claim", Helpers \cup SignedHelpers)

ASigning == Give("signing", Signers \X Checks)

AV1Signing == Give("v1", LegacyClaims \X V1Signings \X V1Signings)

AJSONClaim == Give("json", JSONClaims)

AnAddress == Give("address", [1..AddressLength -> 0..(AddressBase - 1)] \X Chains)

AWriting == Give("writing", Writings \X Chains)

AnOrigin == Give("origin", Configurations \X Origins)

AnOutcome == Give("outcome", {"GET", "OPTIONS"} \X Outcomes)

AForm == Give("form", FieldLists \X Forms \X {{}, {"z"}} \X BOOLEAN)

Back == input # NoInput /\ input' = NoInput

CodecInit == input = NoInput

CodecNext == ARequest \/ AResponse \/ AnError \/ AUrl \/ AClaim \/ ASigning \/ AV1Signing
               \/ AJSONClaim \/ AnOrigin \/ AnOutcome \/ AForm \/ AnAddress \/ AWriting \/ TwoBitmaps \/ Back

CodecSpec == CodecInit /\ [][CodecNext]_input

----------------------------------------------------------------------------

Is(kind) == input.kind = kind

\* bits.Bitmap computes on numbers of NumBits bits and reads every form it writes: the carries of
\* Add and Sub, the digits of Hex and Big, the bits of Prefix and Suffix.  Range.IntervalP splits a
\* range that is long enough into intervals without gap or overlap.  Two comments of bitmap.go say
\* something else than the code does: Sub needs the other bitmap not to be the greater one, where
\* :162 says it must be, and RandInRangeP always stays within its range, which :365 doubts.
BitmapsAreNumbers ==
    Is("bitmaps") =>
        /\ ArithmeticOf(input.x[1], input.x[2])
        /\ FormsOf(input.x[1], input.x[2])
        /\ IntervalsOf(input.x[1], input.x[2])
        /\ RandomWithin(input.x[1], input.x[2])

\* UnmarshalBencode reads every message that MarshalBencode writes, and the same message with the
\* protocol version other implementations add, as the message it was, but for the port that a form
\* of contact has no room for; a contact without an IPv4 makes the whole answer an error.
MessagesArrive ==
    /\ Is("request") => RequestArrives(input.x)
    /\ Is("response") => ResponseArrives(input.x)
    /\ Is("error") => ErrorArrives(input.x)

\* DecodeClaimBytes and DecodeSupportBytes load what CompileValue made of claims and supports of the
\* present protobuf (one of the first protobuf is not loaded back from what CompileValue makes of
\* it, and is not among the inputs); a JSON claim is migrated by the version it names and keeps what
\* that version can say.
ClaimsReload ==
    /\ Is("claim") => Reloads(input.x)
    /\ Is("json") => Migrates(input.x)

\* A signature that Sign made is valid through CompileValue, DecodeClaimBytes and
\* ValidateClaimSignature for nothing but what was signed, and for that if it is written with all
\* its bytes; then its validation does not panic either.
SignaturesBind ==
    /\ Is("signing") => Binds(input.x[1], input.x[2])
    /\ Is("v1") => BindsV1(input.x[1], input.x[2], input.x[3])

\* "could not verify signature" (sign_test.go:81, 137 and 194, each with a key made at random): what
\* Sign made with any key is found valid once it is compiled and loaded.
SignedIsValid == Is("signing") => Verifies(input.x[1])

\* A URL that Parse accepts and String writes again still names the same claim, if its parts are
\* proper ones (what follows a name that is no channel, as in s/t:7, is not written as it was), and
\* the URL of a web site the claim of the lbry URL it stands for.  EncodeAddress and DecodeAddress
\* agree on the addresses of a blockchain, but for numbers whose low 64 bits are 0 where base58 asks
\* whether they are 0.
NamesStand ==
    /\ Is("url") => UrlStands(input.x)
    /\ Is("address") => AddressStands(input.x[1], input.x[2])
    /\ Is("writing") => WritingStands(input.x[1], input.x[2])

\* Handler.ServeHTTP lets only configured origins read its answers, and tells the outcome of a
\* handler that returns or panics with an error as a failure, unless the handler or its error chose
\* a status that is none; it tells no other outcome as a failure (of panic(nil) nothing is said).
\* FormValues takes a form exactly if every parameter is known and readable, and a form it takes as
\* it was given, numbers that do not fit into their fields aside.
RequestsServed ==
    /\ Is("origin") => OriginAllowed(input.x[1], input.x[2])
    /\ Is("outcome") => FailureTold(input.x[1], input.x[2])
    /\ Is("form") => FormTaken(input.x[1], input.x[2], input.x[3], input.x[4])

=============================================================================
