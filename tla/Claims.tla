------------------------------- MODULE Claims -------------------------------
(***************************************************************************)
(* Claims and supports: schema/stake (loading, compiling, signing,         *)
(* validating, migrating) and schema/keys.                                 *)
(*                                                                         *)
(* A byte string is a sequence of records.  Most are bytes; protobuf and   *)
(* JSON are external, and a message they wrote is one record that keeps    *)
(* the message.  A signature is a pair of numbers of HalfLen bytes each;   *)
(* a byte of one says whose and of what digest it is.  A digest is the     *)
(* string that is hashed.                                                  *)
(***************************************************************************)
EXTENDS Integers, Sequences, FiniteSets, SequencesExt

CONSTANTS IdLen,        \* bytes of a claim id: 20
          HalfLen       \* bytes of one number of a signature: 32

\* Only of an id with an even number of bytes does reverseBytes keep all of them.
ASSUME ClaimsAssumption ==
    /\ IdLen \in Nat \ {0} /\ IdLen % 2 = 0
    /\ HalfLen \in Nat \ {0}

Byte(x) == [b |-> x]

SigLen == 2 * HalfLen

HeaderLen == 1 + IdLen + SigLen

----------------------------------------------------------------------------
(* Messages.  type tells the oneof of a claim, extra the fields this       *)
(* version of the protobuf does not know, meta what a migrated stream has. *)

NilClaim == [type |-> "nil", title |-> "", key |-> "", extra |-> FALSE, meta |-> <<>>]

EmptyClaim == [NilClaim EXCEPT !.type = "none"]

NilSupport == "nil"

\* String() of a nil message is "<nil>", of an empty one "".
ClaimPrints(claim) == claim # EmptyClaim

SupportPrints(support) == support # ""

MarshalClaim(claim) == IF claim = EmptyClaim THEN <<>> ELSE <<[claim |-> claim]>>

UnmarshalsClaim(s) == s = <<>> \/ (Len(s) = 1 /\ "claim" \in DOMAIN s[1])

UnmarshalClaim(s) == IF s = <<>> THEN EmptyClaim ELSE s[1].claim

MarshalSupport(support) == IF support = "" THEN <<>> ELSE <<[support |-> support]>>

UnmarshalsSupport(s) == s = <<>> \/ (Len(s) = 1 /\ "support" \in DOMAIN s[1])

UnmarshalSupport(s) == IF s = <<>> THEN "" ELSE s[1].support

\* A claim of the first protobuf starts with a byte that is no version.
MarshalLegacy(legacy) == <<Byte("8"), [legacy |-> legacy]>>

UnmarshalsLegacy(s) == Len(s) = 2 /\ s[1] = Byte("8") /\ "legacy" \in DOMAIN s[2]

IsJSON(s) == Len(s) = 2 /\ s[1] = Byte("{") /\ "json" \in DOMAIN s[2]

----------------------------------------------------------------------------
(* Migration.                                                              *)

\* Tags, media type, licence and fee of a migrated stream.
Meta(nsfw, mediaType, licenseUrl, fee) ==
    [mature |-> nsfw, mediaType |-> mediaType, licenseUrl |-> licenseUrl, fee |-> fee]

migrateV1PBClaim(legacy) ==
    IF legacy.type = "stream"
    THEN [EmptyClaim EXCEPT !.type = "stream", !.title = legacy.title,
            !.meta = <<Meta(legacy.nsfw, legacy.mediaType, legacy.licenseUrl, legacy.fee)>>]
    ELSE [EmptyClaim EXCEPT !.type = "channel", !.key = legacy.key]

\* Of several prices one is kept; a fee without a price costs nothing.
setFee(fee) ==
    IF fee = <<>> THEN <<>>
    ELSE LET prices == fee[1]
         IN  IF prices = {} THEN <<[currency |-> "LBC", amount |-> 0]>>
             ELSE <<[currency |-> IF "BTC" \in prices THEN "BTC"
                                  ELSE IF "LBC" \in prices THEN "LBC" ELSE "USD",
                     amount   |-> 1]>>

\* As a slip: without a number there is no version.
JSONVersionStrict(json) == json.ver

\* The first version may leave out its number; only the later ones have nsfw and a licence URL,
\* and the last one spells its content type differently.
JSONVersion(json) == IF json.ver = "" THEN "0.0.1" ELSE json.ver

migrateJSON(json) ==
    LET v == JSONVersion(json)
    IN  [EmptyClaim EXCEPT !.type = "stream", !.title = json.title,
            !.meta = <<Meta(IF v = "0.0.1" THEN FALSE ELSE json.nsfw,
                            IF v = "0.0.3" THEN json.content_type ELSE json.contentDashType,
                            IF v = "0.0.1" THEN "" ELSE json.licenseUrl,
                            setFee(json.fee))>>]

MigratesJSON(json) == JSONVersion(json) \in {"0.0.1", "0.0.2", "0.0.3"} /\ json.hexHash

----------------------------------------------------------------------------
(* Loading.  A result is a helper and whether there was no error.          *)

NewHelper ==
    [claim |-> EmptyClaim, support |-> "", legacy |-> <<>>, claimID |-> <<>>,
     version |-> "NoSig", signature |-> <<>>, payload |-> <<>>]

Done(h) == [ok |-> TRUE, h |-> h]

Refused(h) == [ok |-> FALSE, h |-> h]

getVersionFromByte(byte) ==
    IF byte = Byte("0") THEN "NoSig" ELSE IF byte = Byte("1") THEN "WithSig" ELSE "UNKNOWN"

VersionByte(version) ==
    IF version = "NoSig" THEN Byte("0") ELSE IF version = "WithSig" THEN Byte("1") ELSE Byte("2")

IsClaim(h) == h.claim # NilClaim /\ ClaimPrints(h.claim)

IsSupport(h) == h.support # NilSupport

\* A key is read from its DER form; the key "junk" is not one.
GetPublicKeyFromBytes(key) == IF key \in {"", "junk"} THEN "none" ELSE key

GetPublicKey(h) ==
    IF IsClaim(h) /\ h.claim.type # "channel" THEN "none"
    ELSE IF ~IsClaim(h) /\ IsSupport(h) THEN "none"
    ELSE GetPublicKeyFromBytes(h.claim.key)

\* The helper keeps what was loaded although its certificate is refused.
ValidateCertificate(h) ==
    IF IsClaim(h) /\ h.claim.type = "channel" /\ GetPublicKey(h) = "none" THEN Refused(h) ELSE Done(h)

loadFromBytes(c, raw, isSupport) ==
    LET version == getVersionFromByte(raw[1])
        signed  == version = "WithSig"
        payload == IF signed THEN SubSeq(raw, HeaderLen + 1, Len(raw)) ELSE Tail(raw)
        loaded  == [claim     |-> IF isSupport THEN NilClaim ELSE UnmarshalClaim(payload),
                    support   |-> IF isSupport THEN UnmarshalSupport(payload) ELSE NilSupport,
                    legacy    |-> <<>>,
                    claimID   |-> IF signed THEN SubSeq(raw, 2, 1 + IdLen) ELSE <<>>,
                    version   |-> version,
                    signature |-> IF signed THEN SubSeq(raw, 2 + IdLen, HeaderLen) ELSE <<>>,
                    payload   |-> payload]
        legacy  == raw[2].legacy
    IN  IF \/ ClaimPrints(c.claim) /\ ~isSupport
           \/ raw = <<>>
        THEN Refused(c)
        ELSE IF signed /\ Len(raw) < HeaderLen THEN Refused(c)
        ELSE IF IF isSupport THEN UnmarshalsSupport(payload) ELSE UnmarshalsClaim(payload)
        THEN ValidateCertificate(loaded)
        ELSE IF ~UnmarshalsLegacy(raw) THEN Refused(c)
        ELSE IF legacy.type \notin {"stream", "certificate"} THEN Refused(c)
        ELSE ValidateCertificate(
                [claim     |-> migrateV1PBClaim(legacy),
                 support   |-> NilSupport,
                 legacy    |-> <<legacy>>,
                 claimID   |-> legacy.certificateId,
                 version   |-> IF legacy.type = "certificate" THEN "NoSig"
                               ELSE IF legacy.signature # <<>> THEN "WithSig" ELSE version,
                 signature |-> legacy.signature,
                 payload   |-> payload])

DecodeSupportBytes(raw) ==
    loadFromBytes([NewHelper EXCEPT !.claim = NilClaim], raw, TRUE)

\* If protobuf fails, the JSON versions are tried in turn.
DecodeClaimBytes(raw) ==
    LET r == loadFromBytes(NewHelper, raw, FALSE)
    IN  IF r.ok THEN r
        ELSE IF IsJSON(raw) /\ MigratesJSON(raw[2].json)
        THEN Done([NewHelper EXCEPT !.claim = migrateJSON(raw[2].json), !.support = NilSupport])
        ELSE Refused(NewHelper)

----------------------------------------------------------------------------
(* Compiling.                                                              *)

\* The message is built anew from the fields this version knows.
getClaimProtobuf(h) == [h.claim EXCEPT !.extra = FALSE]

Serializes(h) == ClaimPrints(h.claim) \/ SupportPrints(h.support)

serialized(h) ==
    IF h.legacy # <<>> THEN MarshalLegacy(h.legacy[1])
    ELSE IF IsSupport(h) THEN MarshalSupport(h.support)
    ELSE MarshalClaim(getClaimProtobuf(h))

serializedNoSignature(h) ==
    IF h.signature = <<>> \/ h.legacy = <<>> THEN serialized(h)
    ELSE MarshalLegacy([h.legacy[1] EXCEPT !.certificateId = <<>>, !.signature = <<>>])

\* As a slip: the signature before the claim id.
CompileSwapped(h) ==
    <<VersionByte(h.version)>>
      \o (IF h.version = "WithSig" THEN h.signature \o h.claimID ELSE <<>>)
      \o serialized(h)

CompileValue(h) ==
    <<VersionByte(h.version)>>
      \o (IF h.version = "WithSig" THEN h.claimID \o h.signature ELSE <<>>)
      \o serialized(h)

----------------------------------------------------------------------------
(* Signatures.                                                             *)

\* The middle byte of an odd number of bytes stays 0.
reverseBytes(b) ==
    [i \in DOMAIN b |-> IF 2 * i = Len(b) + 1 THEN Byte("0") ELSE b[Len(b) + 1 - i]]

\* A number as big.Int.Bytes gives it: without the zeros it may begin with.
NumberBytes(which, key, digest, zeros) ==
    [i \in 1..(HalfLen - zeros) |-> [of |-> which, key |-> key, digest |-> digest, at |-> i + zeros]]

\* What Sign returns, as LBRYSDKEncode writes it; r and s are the zeros its numbers begin with.
LBRYSDKEncode(key, digest, r, s) ==
    NumberBytes("R", key, digest, r) \o NumberBytes("S", key, digest, s)

signDigest(h, txid) == txid \o h.claimID \o serialized(h)

signV1Digest(h, channelID, address) == address \o serializedNoSignature(h) \o channelID

\* ecdsa.Verify: the bytes are those of a number of this key and digest, whatever zeros it has.
IsNumber(bytes, which, key, digest) ==
    \E zeros \in 0..HalfLen :
        bytes = [i \in 1..zeros |-> Byte("0")] \o NumberBytes(which, key, digest, zeros)

\* The signature is copied into 64 bytes, from the left.
VerifyDigest(certificate, signature, digest) ==
    LET padded == [i \in 1..SigLen |-> IF i <= Len(signature) THEN signature[i] ELSE Byte("0")]
        key    == GetPublicKey(certificate)
    IN  /\ key # "none"
        /\ IsNumber(SubSeq(padded, 1, HalfLen), "R", key, digest)
        /\ IsNumber(SubSeq(padded, HalfLen + 1, SigLen), "S", key, digest)

validateClaimSignature(h, certificate, txid, certificateId) ==
    /\ h.signature # <<>>
    /\ VerifyDigest(certificate, h.signature, txid \o reverseBytes(certificateId) \o h.payload)

\* The first version indexes the signature by its 64 bytes, and panics if it has fewer.
ValidationPanics(h) == h.legacy # <<>> /\ h.signature # <<>> /\ Len(h.signature) < SigLen

\* It did not reverse the id.
validateV1ClaimSignature(h, certificate, address, certificateId) ==
    /\ h.signature # <<>> /\ ~ValidationPanics(h)
    /\ VerifyDigest(certificate, h.signature, address \o serializedNoSignature(h) \o certificateId)

ValidateClaimSignature(h, certificate, k, certificateId) ==
    IF h.legacy # <<>> THEN validateV1ClaimSignature(h, certificate, k, certificateId)
    ELSE validateClaimSignature(h, certificate, k, certificateId)

----------------------------------------------------------------------------
(* What the code promises.                                                 *)

LoadBytes(h, raw) == IF h.support = NilSupport THEN DecodeClaimBytes(raw) ELSE DecodeSupportBytes(raw)

\* A claim or support is loaded as it was compiled, with its channel and signature, once the
\* signature has its length and all fields are known; compiling it again changes nothing.
Reloads(h) ==
    LET r == LoadBytes(h, CompileValue(h))
    IN  Serializes(h) =>
            /\ r.ok
            /\ r.h = [h EXCEPT !.payload = serialized(h)]
            /\ CompileValue(r.h) = CompileValue(h)

\* s is a signing: a helper, a key, what it is signed for, and the zeros of the signature.
Signed(s) ==
    LET h == [s.helper EXCEPT !.claimID = reverseBytes(s.channel), !.version = "WithSig"]
    IN  [h EXCEPT !.signature = LBRYSDKEncode(s.key, signDigest(h, s.txid), s.r, s.s)]

Channel(key) == [NewHelper EXCEPT !.claim.type = "channel", !.claim.key = key, !.support = NilSupport]

\* What Sign made, compiled and loaded, is found valid.
Verifies(s) ==
    LET got == LoadBytes(s.helper, CompileValue(Signed(s)))
    IN  got.ok /\ ValidateClaimSignature(got.h, Channel(s.key), s.txid, s.channel)

\* A compiled claim that was signed by a channel's key is valid for no other key, transaction or
\* channel, and not once its content was exchanged; for its own it is, if no number of the
\* signature begins with a zero byte.
Binds(s, t) ==
    LET raw   == CompileValue(Signed(s))
        same  == s.key = t.key /\ s.txid = t.txid /\ s.channel = t.channel
                   /\ serialized(s.helper) = serialized(t.helper)
        sent  == SubSeq(raw, 1, Len(raw) - Len(serialized(s.helper))) \o serialized(t.helper)
        got   == LoadBytes(t.helper, sent)
        valid == got.ok /\ ValidateClaimSignature(got.h, Channel(t.key), t.txid, t.channel)
    IN  /\ valid => same
        /\ same /\ s.r = 0 /\ s.s = 0 => valid

\* The same for a claim of the first protobuf, which carries its signature inside; only one that
\* was written too short makes its validation panic.
BindsV1(legacy, s, t) ==
    LET signing == loadFromBytes(NewHelper, MarshalLegacy(legacy), FALSE).h
        digest  == signV1Digest(signing, s.channel, s.txid)
        carried == [legacy EXCEPT !.certificateId = s.channel,
                                  !.signature = LBRYSDKEncode(s.key, digest, s.r, s.s)]
        r       == DecodeClaimBytes(MarshalLegacy(carried))
        same    == s.key = t.key /\ s.txid = t.txid /\ s.channel = t.channel
        valid   == ValidateClaimSignature(r.h, Channel(t.key), t.txid, t.channel)
    IN  /\ r.ok
        /\ valid => same
        /\ s.r = 0 /\ s.s = 0 => (same => valid) /\ ~ValidationPanics(r.h)

\* A JSON claim is read by the version it names, if there is one: the title and the content type
\* are kept, it is marked mature only if its version can say so, and it has a fee in one of the
\* currencies it had a price in exactly if it had one.
Migrates(json) ==
    LET r == DecodeClaimBytes(<<Byte("{"), [json |-> json]>>)
        m == r.h.claim.meta[1]
    IN  /\ r.ok = (json.hexHash /\ json.ver \in {"", "0.0.1", "0.0.2", "0.0.3"})
        /\ r.ok => /\ r.h.claim.title = json.title
                   /\ m.mediaType = IF json.ver = "0.0.3" THEN json.content_type ELSE json.contentDashType
                   /\ m.mature => json.nsfw /\ json.ver \in {"0.0.2", "0.0.3"}
                   /\ (m.fee = <<>>) = (json.fee = <<>>)
                   /\ m.fee # <<>> /\ json.fee[1] # {} => m.fee[1].currency \in json.fee[1]

============================================================================
