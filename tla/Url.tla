-------------------------------- MODULE Url --------------------------------
(***************************************************************************)
(* LBRY URLs: url/url.go.                                                  *)
(*                                                                         *)
(* A string is a sequence of tokens: words, which stand for text without   *)
(* special characters, and the characters the parser looks for.  A word is *)
(* told apart by what the code asks of it: whether it is hexadecimal and   *)
(* short enough for a claim id, and whether it is a number.  Letter case   *)
(* and blanks other than a single space token are left out.                *)
(***************************************************************************)
EXTENDS Integers, Sequences, SequencesExt

CONSTANTS HexWords,     \* words that are hexadecimal and no longer than ClaimIdMaxLength
          NumberOf      \* the words that are numbers, with their value

Separators == {":", "$", "#"}

Protocols == {"lbry://", "https://"}

Hosts == {"open.lbry.com/", "lbry.tv/", "lbry.lat/", "lbry.fr/", "lbry.in/"}

\* Values are words, no characters the parser looks for; ParseInt also reads negative numbers.
ASSUME UrlAssumption ==
    /\ (HexWords \cup DOMAIN NumberOf) \cap (Separators \cup {"/", "?", " "}) = {}
    /\ \A w \in DOMAIN NumberOf : NumberOf[w] \in Int

Invalid == [error |-> TRUE]

\* The tokens of s before the first of those in stop, and the others.
UpTo(s, stop) ==
    LET at == {i \in DOMAIN s : s[i] \in stop}
    IN  IF at = {} THEN s ELSE SubSeq(s, 1, (CHOOSE i \in at : \A j \in at : i <= j) - 1)

Beyond(s, part) == SubSeq(s, Len(part) + 1, Len(s))

\* An optional token of the given set at the front.
Optional(s, set) == IF s # <<>> /\ Head(s) \in set THEN <<Head(s)>> ELSE <<>>

\* A word that is parsed as a 32-bit number, or -1.
parseInt(value) ==
    IF Len(value) = 1 /\ value[1] \in DOMAIN NumberOf THEN NumberOf[value[1]] ELSE -1

\* The word for a number.
Itoa(n) == <<CHOOSE w \in DOMAIN NumberOf : NumberOf[w] = n>>

----------------------------------------------------------------------------

\* The question marks that a query string may begin at: something, but no space, is before them.
QueryMarks(url) == {i \in DOMAIN url : url[i] = "?" /\ i > 1 /\ \A j \in 1..i : url[j] # " "}

\* It begins at the last of them; what follows, from a space on too, is not looked at.
CleanUrl(url) ==
    LET at == QueryMarks(url)
    IN  IF at = {} THEN url
        ELSE SubSeq(url, 1, (CHOOSE i \in at : \A j \in at : j <= i) - 1)

\* A group takes one optional token of a set, or all tokens up to one of a set.
Token(set) == [token |-> TRUE, set |-> set]

Text(set) == [token |-> FALSE, set |-> set]

\* The nine groups of the regular expression: protocol, host, name, separator and value, then
\* slash, name, separator and value.
Groups ==
    <<Token(Protocols), Token(Hosts),
      Text(Separators \cup {"/"}), Token(Separators), Text({"/"}),
      Token({"/"}), Text(Separators \cup {"/"}), Token(Separators), Text({"/"})>>

TakeGroup(st, group) ==
    LET part == IF group.token THEN Optional(st.rest, group.set) ELSE UpTo(st.rest, group.set)
    IN  [parts |-> Append(st.parts, part), rest |-> Beyond(st.rest, part)]

\* What each group takes of the URL; whatever follows is ignored.
Components(url) ==
    LET after[k \in 0..Len(Groups)] ==
            IF k = 0 THEN [parts |-> <<>>, rest |-> url] ELSE TakeGroup(after[k - 1], Groups[k])
    IN  after[Len(Groups)].parts

\* A missing modifier and a separator without a value give no modifier.
NoModifier == [claimId |-> <<>>, sequence |-> -1, bid |-> -1, present |-> FALSE]

parseModifier(separator, value) ==
    LET mod == [claimId  |-> IF separator = <<"#">> THEN value ELSE <<>>,
                sequence |-> IF separator = <<":">> THEN parseInt(value) ELSE 0,
                bid      |-> IF separator = <<"$">> THEN parseInt(value) ELSE 0,
                present  |-> TRUE]
    IN  IF separator = <<>> \/ value = <<>> THEN NoModifier
        ELSE IF \/ separator = <<"#">> /\ ~(Len(value) = 1 /\ value[1] \in HexWords)
                \/ mod.sequence = -1
                \/ mod.bid = -1
        THEN Invalid
        ELSE mod

\* As a slip: without the conversion.
WebSeparatorKept(host, separator) == separator

\* Addresses of web sites write : for a claim id.
WebSeparator(host, separator) ==
    IF host # <<>> /\ separator = <<":">> THEN <<"#">> ELSE separator

Parse(url, requireProto) ==
    LET c               == Components(CleanUrl(url))
        primaryMod      == parseModifier(WebSeparator(c[2], c[4]), c[5])
        secondaryMod    == parseModifier(WebSeparator(c[2], c[8]), c[9])
        includesChannel == Head(c[3]) = "@"
        channelName     == IF includesChannel THEN Tail(c[3]) ELSE <<>>
        streamName      == IF includesChannel THEN c[7] ELSE c[3]
    IN  IF \/ url = <<>>
           \/ requireProto /\ c[1] = <<>>
           \/ c[3] = <<>>
           \/ \E i \in 3..9 : " " \in ToSet(c[i])
        THEN Invalid
        ELSE IF \/ includesChannel /\ channelName = <<>>
                \/ primaryMod = Invalid
                \/ secondaryMod = Invalid
        THEN Invalid
        ELSE [path              |-> FlattenSeq(SubSeq(c, 3, 9)),
              isChannel         |-> includesChannel /\ c[7] = <<>>,
              streamName        |-> streamName,
              streamClaimId     |-> IF includesChannel /\ secondaryMod.present
                                    THEN secondaryMod.claimId ELSE primaryMod.claimId,
              channelName       |-> channelName,
              channelClaimId    |-> IF includesChannel THEN primaryMod.claimId ELSE <<>>,
              primarySequence   |-> primaryMod.sequence,
              secondarySequence |-> secondaryMod.sequence,
              primaryBid        |-> primaryMod.bid,
              secondaryBid      |-> secondaryMod.bid,
              claimName         |-> c[3],
              claimId           |-> primaryMod.claimId,
              contentName       |-> streamName]

----------------------------------------------------------------------------

FirstNonEmpty(names) ==
    IF \A i \in DOMAIN names : names[i] = <<>> THEN <<>>
    ELSE names[CHOOSE i \in DOMAIN names : names[i] # <<>> /\ \A j \in 1..(i - 1) : names[j] = <<>>]

\* One of the three modifiers, the claim id before the sequence before the position.
Modifier(claimId, sequence, bid) ==
    IF claimId # <<>> THEN <<"#">> \o claimId
    ELSE IF sequence > 0 THEN <<":">> \o Itoa(sequence)
    ELSE IF bid > 0 THEN <<"$">> \o Itoa(bid)
    ELSE <<>>

Build(u, protocol, vanity) ==
    LET channel   == IF u.channelName = <<>> \/ Head(u.channelName) = "@" THEN u.channelName
                     ELSE <<"@">> \o u.channelName
        primary   == FirstNonEmpty(<<u.claimName, u.contentName, channel, u.streamName>>)
        primaryId == IF u.claimId # <<>> THEN u.claimId
                     ELSE IF channel # <<>> THEN u.channelClaimId ELSE u.streamClaimId
        secondary == IF u.claimName = <<>> /\ u.contentName # <<>> THEN u.contentName
                     ELSE IF channel # <<>> THEN u.streamName ELSE <<>>
    IN  IF vanity THEN protocol \o primary
        ELSE protocol \o primary \o Modifier(primaryId, u.primarySequence, u.primaryBid)
               \o (IF secondary = <<>> THEN <<>> ELSE <<"/">> \o secondary)
               \o Modifier(IF secondary = <<>> THEN <<>> ELSE u.streamClaimId,
                           u.secondarySequence, u.secondaryBid)

UrlString(u) == Build(u, <<"lbry://">>, FALSE)

----------------------------------------------------------------------------
(* What a URL written by the code stands for.                              *)

\* The second part of the URL names a stream of a channel, or is missing; a separator has a value
\* and a sequence or position is positive; no question mark is left for a second parse.
ProperParts(url) ==
    LET c == Components(CleanUrl(url))
    IN  /\ IF c[7] = <<>> THEN c[8] = <<>> ELSE Head(c[3]) = "@"
        /\ \A i \in {4, 8} : c[i] # <<>> =>
              c[i + 1] # <<>> /\ (WebSeparator(c[2], c[i]) = <<"#">> \/ parseInt(c[i + 1]) > 0)
        /\ "?" \notin ToSet(CleanUrl(url))

\* The URL is written as the code writes it, its numbers too.
Canonical(url) ==
    LET c == Components(url)
    IN  /\ CleanUrl(url) = url
        /\ c[1] = <<"lbry://">> /\ c[2] = <<>> /\ FlattenSeq(c) = url
        /\ (c[6] = <<>>) = (c[7] = <<>>)
        /\ \A i \in {4, 8} : c[i] \in {<<":">>, <<"$">>} => c[i + 1] = Itoa(parseInt(c[i + 1]))

\* The stream has no modifier of its own and is given the claim id of its channel.
InheritsId(u) ==
    /\ u.channelName # <<>> /\ u.streamName # <<>> /\ u.channelClaimId # <<>>
    /\ u.secondarySequence = -1

SameClaim(u, v) ==
    /\ u.claimName = v.claimName /\ u.claimId = v.claimId
    /\ u.channelName = v.channelName /\ u.channelClaimId = v.channelClaimId
    /\ u.streamName = v.streamName /\ u.streamClaimId = v.streamClaimId
    /\ (u.primarySequence > 0 \/ v.primarySequence > 0) => u.primarySequence = v.primarySequence
    /\ (u.primaryBid > 0 \/ v.primaryBid > 0) => u.primaryBid = v.primaryBid
    /\ (u.secondarySequence > 0 \/ v.secondarySequence > 0) => u.secondarySequence = v.secondarySequence
    /\ (u.secondaryBid > 0 \/ v.secondaryBid > 0) => u.secondaryBid = v.secondaryBid

\* The URL of a web site as an lbry URL.
Lbry(url) ==
    LET path == FlattenSeq(SubSeq(Components(CleanUrl(url)), 3, 9))
    IN  <<"lbry://">> \o [i \in DOMAIN path |-> IF path[i] = ":" THEN "#" ELSE path[i]]

\* A parsed URL with proper parts is written as a URL that is parsed again, with a protocol and
\* to the same claim.  A canonical URL is written as it was, except that a stream without a
\* modifier is written with the claim id of its channel.
\* The URL of a web site is read as the lbry URL it stands for, if that has no question mark either.
UrlStands(url) ==
    LET u == Parse(url, FALSE)
        v == Parse(UrlString(u), TRUE)
    IN  /\ u # Invalid /\ ProperParts(url) =>
              /\ v # Invalid
              /\ SameClaim(u, v)
              /\ Canonical(url) =>
                   UrlString(u) = IF InheritsId(u) THEN url \o <<"#">> \o u.channelClaimId ELSE url
        /\ Components(CleanUrl(url))[2] # <<>> /\ "?" \notin ToSet(CleanUrl(url)) =>
              LET w == Parse(Lbry(url), TRUE)
              IN  IF u = Invalid THEN w = Invalid ELSE w # Invalid /\ SameClaim(u, w)

============================================================================
