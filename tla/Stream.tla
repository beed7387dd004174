------------------------------- MODULE Stream -------------------------------
(***************************************************************************)
(* Files as streams of encrypted blobs (package stream): the encoder whose  *)
(* Next reads a chunk of the source and makes a blob of it; the sd blob    *)
(* that describes the stream; Decode; and NewEncoderFromSD, which makes    *)
(* the same stream of the same file again.                                 *)
(*                                                                         *)
(* The source is an io.Reader: a read returns any number of bytes, may     *)
(* return the last ones together with io.EOF, and may fail.                *)
(*                                                                         *)
(* Data abstractions: the ith byte of the file is the number i, an IV is a *)
(* number that is drawn once, ciphertext is its plaintext with the IV it   *)
(* was made with (there is one key), and a hash is what it is the hash of. *)
(***************************************************************************)
EXTENDS Integers, Sequences, SequencesExt

CONSTANTS
    BlockLen,       \* aes.BlockSize
    MaxBlobSize,    \* MaxBlobSize
    MaxFile,        \* bound: length of a file
    EOFWithData     \* whether a read may return data together with io.EOF

ASSUME ConstantsAssumption ==
    /\ BlockLen \in Nat \ {0, 1}
    /\ \E k \in 1 .. MaxBlobSize : MaxBlobSize = k * BlockLen
    /\ MaxFile \in Nat
    /\ EOFWithData \in BOOLEAN

VARIABLES
    file,       \* the bytes of the source
    rest,       \* those it has not returned yet
    srcLen,     \* e.srcLen
    ivs,        \* e.ivs: preset IVs
    drawn,      \* IVs drawn so far
    infos,      \* e.sd.BlobInfos
    blobs,      \* the blobs that Next returned
    pc,         \* "next", "eof" after io.EOF, "failed" after another error
    orig        \* the stream that is being made again, if one is

source == <<file, rest>>
vars   == <<source, srcLen, ivs, drawn, infos, blobs, pc, orig>>

-----------------------------------------------------------------------------
(* blob.go                                                                 *)

Error  == <<-1>>                        \* an error, no data
NoHash == [text |-> <<>>, iv |-> 0]     \* nil

maxBlobDataSize == MaxBlobSize - 1

(* A slip of pkcs7Pad: whole blocks are not padded.                        *)
pkcs7PadPartial(data) ==
    LET padLen == (BlockLen - (Len(data) % BlockLen)) % BlockLen
    IN  data \o [i \in 1 .. padLen |-> padLen]

pkcs7Pad(data) ==
    LET padLen == BlockLen - (Len(data) % BlockLen)
    IN  data \o [i \in 1 .. padLen |-> padLen]

pkcs7Unpad(data) ==
    LET padLen == data[Len(data)]
    IN  IF /\ data # <<>> /\ Len(data) % BlockLen = 0
           /\ \A i \in Len(data) - padLen + 1 .. Len(data) : data[i] = padLen
        THEN SubSeq(data, 1, Len(data) - padLen)
        ELSE Error

NewBlob(data, iv) == [text |-> pkcs7Pad(data), iv |-> iv]
EmptyBlob == [text |-> <<>>, iv |-> 0]

Size(b) == Len(b.text)
Hash(b) == IF Size(b) = 0 THEN NoHash ELSE b

(* CBC: with another IV the first block comes out different.               *)
Plaintext(b, iv) ==
    pkcs7Unpad(IF b.iv = iv THEN b.text
               ELSE [i \in 1 .. Size(b) |-> IF i <= BlockLen THEN 0 ELSE b.text[i]])

-----------------------------------------------------------------------------
(* sdBlob.go, json.go                                                      *)

BlobInfo(num, b, iv) == [num |-> num, length |-> Size(b), hash |-> Hash(b), iv |-> iv]

InfoHash(bi) ==
    IF bi.length > 0 THEN <<bi.hash, bi.num, bi.iv, bi.length>> ELSE <<bi.num, bi.iv, bi.length>>

computeStreamHash(is) == [i \in DOMAIN is |-> InfoHash(is[i])]

(* Marshalled: the terminating blob's info has no blob_hash.               *)
InfoJSON(bi) ==
    IF bi.hash = NoHash
    THEN [blob_num |-> bi.num, length |-> bi.length, iv |-> bi.iv]
    ELSE [blob_num |-> bi.num, length |-> bi.length, iv |-> bi.iv, blob_hash |-> bi.hash]

ToBlob(is) ==
    [blobs |-> [i \in DOMAIN is |-> InfoJSON(is[i])], stream_hash |-> computeStreamHash(is)]

FromBlob(sd) ==
    [i \in DOMAIN sd.blobs |->
        LET j == sd.blobs[i]
        IN  [num |-> j.blob_num, length |-> j.length, iv |-> j.iv,
             hash |-> IF "blob_hash" \in DOMAIN j THEN j.blob_hash ELSE NoHash]]

-----------------------------------------------------------------------------
(* stream.go: Decode, of an sd blob and the blobs that follow it.          *)

(* A slip of Decode: the hashes of the blobs are not compared.             *)
BadBlobUnhashed(is, bs, i) ==
    is[i].length = 0 \/ is[i].num # i - 1 \/ Plaintext(bs[i], is[i].iv) = Error

BadBlob(is, bs, i) ==
    \/ is[i].length = 0
    \/ is[i].num # i - 1
    \/ Hash(bs[i]) # is[i].hash
    \/ Plaintext(bs[i], is[i].iv) = Error

Decode(sd, bs) ==
    LET is == FromBlob(sd)
        n  == Len(is)
    IN  IF \/ Len(bs) < 1
           \/ sd.stream_hash # computeStreamHash(is)
           \/ is[n].length # 0
           \/ Len(bs) # n - 1
           \/ \E i \in 1 .. n - 1 : BadBlob(is, bs, i)
        THEN Error
        ELSE FlattenSeq([i \in 1 .. n - 1 |-> Plaintext(bs[i], is[i].iv)])

-----------------------------------------------------------------------------
(* stream.go: the encoder.                                                 *)

NoStream ==
    [infos |-> <<>>, blobs |-> <<>>, srcLen |-> 0, complete |-> FALSE, again |-> FALSE]

Init ==
    /\ file \in {[i \in 1 .. n |-> i] : n \in 0 .. MaxFile}
    /\ rest = file
    /\ srcLen = 0
    /\ ivs = <<>>
    /\ drawn = 0
    /\ infos = <<>>
    /\ blobs = <<>>
    /\ pc = "next"
    /\ orig = NoStream

(* A slip of nextIV: preset IVs are used from the last.                    *)
nextIVLast == IF ivs = <<>> THEN drawn + 1 ELSE ivs[Len(ivs)]

nextIV == IF ivs = <<>> THEN drawn + 1 ELSE Head(ivs)
IVUsed ==
    IF ivs = <<>> THEN drawn' = drawn + 1 /\ UNCHANGED ivs
                  ELSE ivs' = Tail(ivs) /\ UNCHANGED drawn

addBlob(b, iv) == infos' = Append(infos, BlobInfo(Len(infos), b, iv))

(* Next: a read of n bytes.                                                *)
NextBlob(n) ==
    /\ pc = "next"
    /\ n \in 1 .. Len(rest) /\ n <= maxBlobDataSize
    /\ rest' = SubSeq(rest, n + 1, Len(rest))
    /\ srcLen' = srcLen + n
    /\ LET b == NewBlob(SubSeq(rest, 1, n), nextIV)
       IN  blobs' = Append(blobs, b) /\ addBlob(b, nextIV)
    /\ IVUsed
    /\ UNCHANGED <<file, pc, orig>>

isTerminated == infos # <<>> /\ infos[Len(infos)].length = 0

ensureTerminated ==
    IF isTerminated THEN UNCHANGED <<infos, ivs, drawn>>
                    ELSE addBlob(EmptyBlob, nextIV) /\ IVUsed

(* Next: io.EOF, as often as the caller asks.                              *)
NextEOF ==
    /\ pc \in {"next", "eof"} /\ rest = <<>>
    /\ pc' = "eof"
    /\ ensureTerminated
    /\ UNCHANGED <<source, srcLen, blobs, orig>>

(* Next: io.EOF together with the last bytes, which are left in e.buf.     *)
NextLast ==
    /\ EOFWithData
    /\ pc = "next"
    /\ rest # <<>> /\ Len(rest) <= maxBlobDataSize
    /\ rest' = <<>>
    /\ pc' = "eof"
    /\ ensureTerminated
    /\ UNCHANGED <<file, srcLen, blobs, orig>>

(* Next: a read fails, and the caller gives up, as Stream does.            *)
NextFails ==
    /\ pc = "next"
    /\ pc' = "failed"
    /\ UNCHANGED <<source, srcLen, ivs, drawn, infos, blobs, orig>>

(* Next: a read returns nothing, of which NewBlob makes no blob.           *)
NextEmpty ==
    /\ pc = "next"
    /\ pc' = "failed"
    /\ IVUsed
    /\ UNCHANGED <<source, srcLen, infos, blobs, orig>>

(* NewEncoderFromSD, with the sd blob so far and the file from its start.  *)
Again ==
    /\ pc \in {"next", "eof"} /\ ~ orig.again
    /\ orig' = [infos |-> infos, blobs |-> blobs, srcLen |-> srcLen,
                complete |-> pc = "eof", again |-> TRUE]
    /\ ivs' = [i \in DOMAIN infos |-> infos[i].iv]
    /\ rest' = file
    /\ srcLen' = 0
    /\ infos' = <<>>
    /\ blobs' = <<>>
    /\ pc' = "next"
    /\ UNCHANGED <<file, drawn>>

Next ==
    \/ \E n \in 1 .. MaxBlobSize : NextBlob(n)
    \/ NextEOF \/ NextLast \/ NextFails \/ NextEmpty
    \/ Again

Spec == Init /\ [][Next]_vars

-----------------------------------------------------------------------------
(* Properties.                                                             *)

(* Shape of the state; and every blob can be sent: it is not empty, and    *)
(* padding never takes it over MaxBlobSize.                                *)
TypeOK ==
    /\ Len(file) <= MaxFile
    /\ srcLen \in 0 .. Len(file)
    /\ pc \in {"next", "eof", "failed"}
    /\ Len(infos) \in {Len(blobs), Len(blobs) + 1}
    /\ \A i \in DOMAIN blobs : Size(blobs[i]) \in 1 .. MaxBlobSize

(* Once Next has returned io.EOF, the stream decodes to the bytes that     *)
(* SourceLen counts, however the source cut the file and however often     *)
(* Next was called at the end.  (A stream without data is one that Decode  *)
(* refuses.)  Every blob has data and fits into a blob.                    *)
RoundTrip ==
    /\ TypeOK
    /\ pc = "eof" /\ srcLen > 0 => Decode(ToBlob(infos), blobs) = SubSeq(file, 1, srcLen)

(* What a download may make of the blobs: any two exchanged, or others in  *)
(* their places, or the last ones missing.                                 *)
Received ==
    {[blobs EXCEPT ![i] = blobs[k], ![j] = blobs[l]] : i, j, k, l \in DOMAIN blobs}
        \cup {SubSeq(blobs, 1, n) : n \in 0 .. Len(blobs)}

(* Decode returns the right bytes or an error, whatever was received.      *)
DamageDetected ==
    pc = "eof" => \A bs \in Received :
        Decode(ToBlob(infos), bs) \in {Error, SubSeq(file, 1, srcLen)}

Full(b) == Len(Plaintext(b, b.iv)) = maxBlobDataSize

(* "This can be used to reconstruct a stream exactly from a file", from a  *)
(* complete sd blob or a part of one, if "all blobs except the last one    *)
(* are at max length" and no bytes came together with io.EOF: blobs, IVs   *)
(* and the descriptor are the same.                                        *)
Reconstructs ==
    /\ pc = "eof" /\ orig.again
    /\ srcLen = Len(file) /\ (orig.complete => orig.srcLen = Len(file))
    /\ \A i \in 1 .. Len(blobs) - 1 : Full(blobs[i])
    /\ \A i \in 1 .. Len(orig.blobs) : Full(orig.blobs[i]) \/ (orig.complete /\ i = Len(orig.blobs))
    => /\ IsPrefix(orig.blobs, blobs)
       /\ IsPrefix(orig.infos, infos)
       /\ orig.complete => infos = orig.infos
=============================================================================
