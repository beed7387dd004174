------------------------------ MODULE Messages ------------------------------
(***************************************************************************)
(* The messages of the DHT and the contacts in them: dht/message.go,       *)
(* dht/contact.go.                                                         *)
(*                                                                         *)
(* A byte string is a sequence of numbers.  Fixed texts (methods, fields,  *)
(* written addresses) are strings of one number each, above all bytes.     *)
(* bencode itself is external: a bencoded value is a string, an integer, a *)
(* list or a dictionary, and reading it into a Go value of another type    *)
(* fails.  For each type there are Write..., the value MarshalBencode      *)
(* makes, Reads..., whether UnmarshalBencode returns without an error, and *)
(* Read..., what it returns then.                                          *)
(***************************************************************************)
EXTENDS Integers, Sequences, FiniteSets, SequencesExt

CONSTANTS IdBytes,      \* bits.NumBytes
          MsgIdBytes,   \* messageIDLength
          ByteBase      \* values of a byte

\* Texts and addresses that are no bytes are numbers from 500 on; the bytes of real messages are 256.
ASSUME MessagesAssumption ==
    /\ IdBytes \in Nat \ {0}
    /\ MsgIdBytes \in Nat \ {0}
    /\ ByteBase \in 4..500

StrValue(x) == [s |-> x]
IntValue(x) == [n |-> x]
ListValue(x) == [l |-> x]
DictValue(x) == [d |-> x]
IsStr(w) == "s" \in DOMAIN w
IsInt(w) == "n" \in DOMAIN w
IsList(w) == "l" \in DOMAIN w
IsDict(w) == "d" \in DOMAIN w

\* A dictionary of one entry, and all entries of two dictionaries.
Entry(k, v) == [x \in {k} |-> v]
f ++ g == [x \in DOMAIN f \cup DOMAIN g |-> IF x \in DOMAIN f THEN f[x] ELSE g[x]]

EmptyString == <<>>
pingMethod == <<1001>>
storeMethod == <<1002>>
findNodeMethod == <<1003>>
findValueMethod == <<1004>>
pingSuccessResponse == <<1005>>
storeSuccessResponse == <<1006>>
headerTypeField == <<1010>>
headerMessageIDField == <<1011>>
headerNodeIDField == <<1012>>
headerPayloadField == <<1013>>
headerArgsField == <<1014>>
contactsField == <<1015>>
tokenField == <<1016>>
protocolVersionField == <<1017>>
lbryidField == <<1018>>
portField == <<1019>>

requestType == 0
responseType == 1
errorType == 2

Zeros(n) == [i \in 1..n |-> 0]

ZeroID == Zeros(IdBytes)

\* Bitmap.UnmarshalBencode takes only strings of the right length.
ReadsBitmap(w) == IsStr(w) /\ Len(w.s) = IdBytes

\* messageID.UnmarshalBencode copies what fits.
ReadMessageID(w) == [i \in 1..MsgIdBytes |-> IF i <= Len(w.s) THEN w.s[i] ELSE 0]

----------------------------------------------------------------------------
(* Contacts.  An IP is 0 (nil), an IPv4 address below ByteBase, or IPv6.   *)

NilIP == 0

IPv6 == 500

To4(ip) == IF ip < ByteBase THEN ip ELSE NilIP

\* IP.String and ParseIP(...).To4().
WriteIP(ip) == <<2000 + ip>>

ReadIP(s) == IF Len(s) = 1 /\ s[1] > 2000 THEN To4(s[1] - 2000) ELSE NilIP

compactNodeInfoLength == IdBytes + 3

\* MarshalCompact refuses a contact without IPv4 address or with a peer port that has not two bytes.
WritesCompact(c) == To4(c.ip) # NilIP /\ c.peerPort >= 0 /\ c.peerPort < ByteBase * ByteBase

WriteCompact(c) ==
    <<To4(c.ip), (c.peerPort \div ByteBase) % ByteBase, c.peerPort % ByteBase>> \o c.id

ReadsCompact(w) == IsStr(w) /\ Len(w.s) = compactNodeInfoLength

ReadCompact(w) ==
    [ip |-> w.s[1], port |-> 0, peerPort |-> w.s[2] * ByteBase + w.s[3],
     id |-> SubSeq(w.s, 4, compactNodeInfoLength)]

WriteContact(c) == ListValue(<<StrValue(c.id), StrValue(WriteIP(c.ip)), IntValue(c.port)>>)

ReadsContact(w) ==
    /\ IsList(w)
    /\ Len(w.l) = 3
    /\ ReadsBitmap(w.l[1])
    /\ IsStr(w.l[2]) /\ ReadIP(w.l[2].s) # NilIP
    /\ IsInt(w.l[3])

ReadContact(w) ==
    [id |-> w.l[1].s, ip |-> ReadIP(w.l[2].s), port |-> w.l[3].n, peerPort |-> 0]

WriteContacts(cs) == ListValue([i \in DOMAIN cs |-> WriteContact(cs[i])])

ReadsContacts(w) == IsList(w) /\ \A i \in DOMAIN w.l : ReadsContact(w.l[i])

ReadContacts(w) == [i \in DOMAIN w.l |-> ReadContact(w.l[i])]

----------------------------------------------------------------------------
(* Headers.  A field that is missing keeps its zero value.                 *)

Header(type, m) ==
    Entry(headerTypeField, IntValue(type)) ++ Entry(headerMessageIDField, StrValue(m.id))
      ++ Entry(headerNodeIDField, StrValue(m.nodeID))

ReadsHeader(w) ==
    /\ IsDict(w)
    /\ headerMessageIDField \in DOMAIN w.d => IsStr(w.d[headerMessageIDField])
    /\ headerNodeIDField \in DOMAIN w.d => ReadsBitmap(w.d[headerNodeIDField])

HeaderID(w) ==
    IF headerMessageIDField \in DOMAIN w.d THEN ReadMessageID(w.d[headerMessageIDField])
    ELSE Zeros(MsgIdBytes)

HeaderNodeID(w) ==
    IF headerNodeIDField \in DOMAIN w.d THEN w.d[headerNodeIDField].s ELSE ZeroID

----------------------------------------------------------------------------
(* Requests.  arg and storeArgs are sequences of at most one element: the  *)
(* pointers of the struct.                                                 *)

WriteStoreArgs(a) ==
    ListValue(<<StrValue(a.blobHash),
                DictValue(Entry(tokenField, StrValue(a.token)) ++ Entry(lbryidField, StrValue(a.lbryID))
                            ++ Entry(portField, IntValue(a.port))),
                StrValue(a.nodeID),
                IntValue(IF a.selfStore THEN 1 ELSE 0)>>)

\* Only IdBytes-long ids, a dictionary with the right types, and 0 or 1 are taken.
ReadsStoreArgs(w) ==
    /\ IsList(w)
    /\ Len(w.l) = 4
    /\ ReadsBitmap(w.l[1])
    /\ IsDict(w.l[2])
    /\ LET v == w.l[2].d
       IN  /\ tokenField \in DOMAIN v => IsStr(v[tokenField])
           /\ lbryidField \in DOMAIN v => ReadsBitmap(v[lbryidField])
           /\ portField \in DOMAIN v => IsInt(v[portField])
    /\ ReadsBitmap(w.l[3])
    /\ IsInt(w.l[4]) /\ w.l[4].n \in {0, 1}

ReadStoreArgs(w) ==
    LET v == w.l[2].d
    IN  [blobHash  |-> w.l[1].s,
         token     |-> IF tokenField \in DOMAIN v THEN v[tokenField].s ELSE EmptyString,
         lbryID    |-> IF lbryidField \in DOMAIN v THEN v[lbryidField].s ELSE ZeroID,
         port      |-> IF portField \in DOMAIN v THEN v[portField].n ELSE 0,
         nodeID    |-> w.l[3].s,
         selfStore |-> w.l[4].n = 1]

WriteRequest(r) ==
    DictValue(Header(requestType, r) ++ Entry(headerPayloadField, StrValue(r.method))
      ++ Entry(headerArgsField, IF r.storeArgs # <<>> THEN WriteStoreArgs(r.storeArgs[1])
                             ELSE ListValue([i \in DOMAIN r.arg |-> StrValue(r.arg[i])])))

\* The last argument, when it is a dictionary of integers with a protocol version.
HasVersion(args) ==
    /\ args # <<>>
    /\ IsDict(Last(args))
    /\ \A k \in DOMAIN Last(args).d : IsInt(Last(args).d[k])
    /\ protocolVersionField \in DOMAIN Last(args).d

PlainArgs(args) == IF HasVersion(args) THEN Front(args) ELSE args

\* Arguments whose encoding has no more than two bytes, as an empty list, are not looked at.
NoArgs(w) ==
    w \in {ListValue(<<>>), StrValue(EmptyString)} \/ (IsDict(w) /\ DOMAIN w.d = {})

RequestMethod(w) ==
    IF headerPayloadField \in DOMAIN w.d THEN w.d[headerPayloadField].s ELSE EmptyString

ReadsRequest(w) ==
    /\ ReadsHeader(w)
    /\ headerPayloadField \in DOMAIN w.d => IsStr(w.d[headerPayloadField])
    /\ IF RequestMethod(w) = storeMethod
       THEN headerArgsField \in DOMAIN w.d /\ ReadsStoreArgs(w.d[headerArgsField])
       ELSE \/ headerArgsField \notin DOMAIN w.d
            \/ NoArgs(w.d[headerArgsField])
            \/ /\ IsList(w.d[headerArgsField])
               /\ LET plain == PlainArgs(w.d[headerArgsField].l)
                  IN  plain # <<>> => ReadsBitmap(plain[1])

ReadRequest(w) ==
    LET store == RequestMethod(w) = storeMethod
        args  == IF store \/ headerArgsField \notin DOMAIN w.d THEN <<>>
                 ELSE IF NoArgs(w.d[headerArgsField]) THEN <<>> ELSE w.d[headerArgsField].l
        plain == PlainArgs(args)
    IN  [id        |-> HeaderID(w),
         nodeID    |-> HeaderNodeID(w),
         method    |-> RequestMethod(w),
         storeArgs |-> IF store THEN <<ReadStoreArgs(w.d[headerArgsField])>> ELSE <<>>,
         arg       |-> IF plain = <<>> THEN <<>> ELSE <<plain[1].s>>,
         version   |-> IF HasVersion(args) THEN Last(args).d[protocolVersionField].n ELSE 0]

----------------------------------------------------------------------------
(* Responses.                                                              *)

\* A found value needs a token, and its contacts must have a compact form.
WritesResponse(r) ==
    r.data = EmptyString /\ r.findValueKey # EmptyString =>
        r.token # EmptyString /\ \A i \in DOMAIN r.contacts : WritesCompact(r.contacts[i])

ResponsePayload(r) ==
    IF r.data # EmptyString THEN StrValue(r.data)
    ELSE IF r.findValueKey # EmptyString
    THEN DictValue(Entry(r.findValueKey, ListValue([i \in DOMAIN r.contacts |->
                                                   StrValue(WriteCompact(r.contacts[i]))]))
                     ++ Entry(tokenField, StrValue(r.token)))
    ELSE IF r.token # EmptyString
    THEN DictValue(Entry(contactsField, WriteContacts(r.contacts)) ++ Entry(tokenField, StrValue(r.token)))
    ELSE WriteContacts(r.contacts)

WriteResponse(r) == DictValue(Header(responseType, r) ++ Entry(headerPayloadField, ResponsePayload(r)))

\* As a slip: the protocol version is left among them.
ValueKeysAll(d) == DOMAIN d \ {tokenField}

\* The keys of a payload that may be the hash looked for.
ValueKeys(d) == DOMAIN d \ {tokenField, protocolVersionField}

\* range over a map takes the keys in any order, and the loop ends after the first.
ReadsValue(d, k) == IsList(d[k]) /\ \A i \in DOMAIN d[k].l : ReadsCompact(d[k].l[i])

Unread == [error |-> TRUE]

\* A response without its payload, and with what a dictionary says of token and version.
EmptyResponse(w) ==
    [id |-> HeaderID(w), nodeID |-> HeaderNodeID(w), data |-> EmptyString, contacts |-> <<>>,
     findValueKey |-> EmptyString, token |-> EmptyString, version |-> 0]

TokenResponse(w, d) ==
    [EmptyResponse(w) EXCEPT
        !.token   = IF tokenField \in DOMAIN d THEN d[tokenField].s ELSE EmptyString,
        !.version = IF protocolVersionField \in DOMAIN d THEN d[protocolVersionField].n ELSE 0]

ValueResponse(w, d, k) ==
    IF ReadsValue(d, k)
    THEN [TokenResponse(w, d) EXCEPT !.findValueKey = k,
                                     !.contacts = [i \in DOMAIN d[k].l |-> ReadCompact(d[k].l[i])]]
    ELSE Unread

\* What UnmarshalBencode can return: responses, or Unread when it returns an error.
ReadResponse(w) ==
    LET payload == w.d[headerPayloadField]
        d       == payload.d
    IN  IF ~ReadsHeader(w) THEN {Unread}
        ELSE IF headerPayloadField \notin DOMAIN w.d THEN {Unread}
        ELSE IF IsStr(payload) THEN {[EmptyResponse(w) EXCEPT !.data = payload.s]}
        ELSE IF ReadsContacts(payload) THEN {[EmptyResponse(w) EXCEPT !.contacts = ReadContacts(payload)]}
        ELSE IF ~IsDict(payload) THEN {Unread}
        ELSE IF tokenField \in DOMAIN d /\ ~IsStr(d[tokenField]) THEN {Unread}
        ELSE IF protocolVersionField \in DOMAIN d /\ ~IsInt(d[protocolVersionField]) THEN {Unread}
        ELSE IF contactsField \in DOMAIN d
        THEN IF ReadsContacts(d[contactsField])
             THEN {[TokenResponse(w, d) EXCEPT !.contacts = ReadContacts(d[contactsField])]} ELSE {Unread}
        ELSE IF ValueKeys(d) = {} THEN {TokenResponse(w, d)}
        ELSE {ValueResponse(w, d, k) : k \in ValueKeys(d)}

----------------------------------------------------------------------------
(* Errors.                                                                 *)

WriteError(e) ==
    DictValue(Header(errorType, e) ++ Entry(headerPayloadField, StrValue(e.exceptionType))
      ++ Entry(headerArgsField, ListValue([i \in DOMAIN e.response |-> StrValue(e.response[i])])))

\* cast.ToString: a number becomes its digits, a list or dictionary nothing.
CastToString(w) == IF IsStr(w) THEN w.s ELSE IF IsInt(w) THEN <<3000 + w.n>> ELSE EmptyString

\* reflect.TypeOf(nil).Kind() panics: the arguments must not be missing.
ReadsError(w) ==
    /\ ReadsHeader(w)
    /\ headerPayloadField \in DOMAIN w.d => IsStr(w.d[headerPayloadField])
    /\ headerArgsField \in DOMAIN w.d

ReadError(w) ==
    [id            |-> HeaderID(w),
     nodeID        |-> HeaderNodeID(w),
     exceptionType |-> RequestMethod(w),
     response      |-> IF IsList(w.d[headerArgsField])
                       THEN [i \in DOMAIN w.d[headerArgsField].l |->
                               CastToString(w.d[headerArgsField].l[i])]
                       ELSE <<>>]

----------------------------------------------------------------------------
(* What the two ends of a connection may rely on.                          *)

\* Other implementations add a protocol version: to the arguments of a request that is no store
\* request, to the dictionary of a response.
RequestWithVersion(w, v) ==
    LET pv == DictValue(Entry(protocolVersionField, IntValue(v)))
    IN  DictValue([w.d EXCEPT ![headerArgsField] = ListValue(Append(w.d[headerArgsField].l, pv))])

ResponseWithVersion(w, v) ==
    LET payload == w.d[headerPayloadField]
        pv      == Entry(protocolVersionField, IntValue(v))
    IN  IF IsDict(payload) THEN DictValue([w.d EXCEPT ![headerPayloadField] = DictValue(payload.d ++ pv)]) ELSE w

\* A request is read as it was written, with the version if there is one.
RequestArrives(r) ==
    LET w == WriteRequest(r)
    IN  /\ ReadsRequest(w) /\ ReadRequest(w) = r
        /\ r.storeArgs = <<>> =>
              /\ ReadsRequest(RequestWithVersion(w, 1))
              /\ ReadRequest(RequestWithVersion(w, 1)) = [r EXCEPT !.version = 1]

\* What is left of a contact: the list form has no peer port, the compact form no port.
Carried(r) ==
    [r EXCEPT !.contacts =
        [i \in DOMAIN r.contacts |->
            IF r.findValueKey # EmptyString THEN [r.contacts[i] EXCEPT !.port = 0]
            ELSE [r.contacts[i] EXCEPT !.peerPort = 0]]]

\* A response that can be written is read in one way only, as the kind of response it is; a
\* listed contact without an IPv4 address makes the whole response unreadable.
ResponseArrives(r) ==
    LET w   == WriteResponse(r)
        bad == r.findValueKey = EmptyString /\ \E i \in DOMAIN r.contacts : To4(r.contacts[i].ip) = NilIP
        pv  == ResponseWithVersion(w, 1)
    IN  WritesResponse(r) =>
            /\ ReadResponse(w) = IF bad THEN {Unread} ELSE {Carried(r)}
            /\ ReadResponse(pv) = IF bad THEN {Unread}
                                  ELSE {[Carried(r) EXCEPT !.version = IF pv = w THEN 0 ELSE 1]}

ErrorArrives(e) == ReadsError(WriteError(e)) /\ ReadError(WriteError(e)) = e

============================================================================
