----------------------------- MODULE CodecProofs -----------------------------
(***************************************************************************)
(* Proofs about what is encoded and read again: streams of blobs, the      *)
(* messages of the DHT, claims and their signatures, API requests,         *)
(* identifiers.                                                            *)
(*                                                                         *)
(* Streams, for any block and blob size, files of any length, and any way  *)
(* the source may cut them.  The invariant says what the encoder has made  *)
(* so far: the blobs hold the first srcLen bytes of the file, cut at some  *)
(* places (CutAt), and the infos describe the blobs (Made); the same holds *)
(* of the stream that is made again, whose IVs are used in their order     *)
(* (Presets).  What Decode makes of such a stream follows from Made alone: *)
(* padding is undone (UnpadPad), the descriptor is read back               *)
(* (DescriptorReads), no other blobs pass its hashes (OnlyItsBlobsDecode), *)
(* and the pieces add up (PiecesJoin).  FlattenSeq is a recursive          *)
(* function.  That it is what it should be is shown on the first place     *)
(* where it would not be (SmallestElement).                                *)
(*                                                                         *)
(* Messages, claims and answers are functions of their input: the theorems *)
(* are about every input of a type that is defined here, and the inputs of *)
(* the run are of these types (CodecInv).  Loops are recursive functions   *)
(* as well, treated like FlattenSeq.  NameProofs goes on with addresses    *)
(* and URLs.                                                               *)
(*                                                                         *)
(* Identifiers of any width.  What Value has come to after each bit        *)
(* (ValueUpTo) is a quotient of the whole number (UpperBits), so that bits *)
(* and number determine each other (BitsOfValue, ValueOfBits); the carries *)
(* of add keep the sum from the last bit up (SumIs); pieces are put        *)
(* together as they were cut (JoinPieces).                                 *)
(***************************************************************************)
EXTENDS Stream, MCCodecs, SequenceTheorems, WellFoundedInduction, TLAPS

-----------------------------------------------------------------------------
(* Streams.                                                                *)

(* The types of blobs and of their entries in the sd blob.                 *)
BlobType == [text : Seq(Nat), iv : Nat]
InfoType == [num : Nat, length : Nat, hash : BlobType, iv : Nat]

(* The file, and what the source has not returned of it: what SourceLen    *)
(* does not count, until io.EOF.                                           *)
SourceOK ==
    /\ \E n \in 0 .. MaxFile : file = [i \in 1 .. n |-> i]
    /\ srcLen \in 0 .. Len(file)
    /\ rest = IF pc = "eof" THEN <<>> ELSE SubSeq(file, srcLen + 1, Len(file))

(* The blobs bs hold the first len bytes of the file, cut at the places a. *)
CutAt(bs, len, a) ==
    /\ a[1] = 0 /\ a[Len(bs) + 1] = len
    /\ \A i \in 1 .. Len(bs) :
          /\ a[i + 1] - a[i] \in 1 .. maxBlobDataSize
          /\ bs[i] = NewBlob(SubSeq(file, a[i] + 1, a[i + 1]), bs[i].iv)

(* is and bs are a stream of the first len bytes of the file; once ended,  *)
(* the infos have an entry for the terminating blob.                       *)
Made(is, bs, len, ended) ==
    /\ \A i \in 1 .. Len(bs) : is[i] = BlobInfo(i - 1, bs[i], bs[i].iv)
    /\ Len(is) = IF ended THEN Len(bs) + 1 ELSE Len(bs)
    /\ ended => is[Len(is)] = BlobInfo(Len(bs), EmptyBlob, is[Len(is)].iv)
    /\ len \in 0 .. Len(file)
    /\ \E a \in [1 .. Len(bs) + 1 -> 0 .. Len(file)] : CutAt(bs, len, a)

(* A stream that is made again has used the IVs of the first one in their  *)
(* order and still has the others.                                         *)
Presets ==
    orig.again /\ pc # "failed" =>
        /\ Len(ivs) = IF Len(infos) < Len(orig.infos) THEN Len(orig.infos) - Len(infos) ELSE 0
        /\ \A i \in 1 .. Len(ivs) : ivs[i] = orig.infos[Len(infos) + i].iv
        /\ \A i \in 1 .. Len(infos) : i <= Len(orig.infos) => infos[i].iv = orig.infos[i].iv

(* The types of the state.                                                 *)
Typed ==
    /\ pc \in {"next", "eof", "failed"}
    /\ ivs \in Seq(Nat) /\ drawn \in Nat
    /\ infos \in Seq(InfoType) /\ blobs \in Seq(BlobType)
    /\ orig \in [infos : Seq(InfoType), blobs : Seq(BlobType), srcLen : Nat,
                complete : BOOLEAN, again : BOOLEAN]

(* The inductive invariant.                                                *)
StreamInv ==
    /\ Typed
    /\ SourceOK
    /\ Made(infos, blobs, srcLen, pc = "eof")
    /\ orig.again => Made(orig.infos, orig.blobs, orig.srcLen, orig.complete)
    /\ Presets

-----------------------------------------------------------------------------
(* Numbers and sequences.                                                  *)

(* A set of numbers that is not empty has a smallest one.                  *)
LEMMA SmallestElement ==
    ASSUME NEW T, T \subseteq Nat, T # {}
    PROVE  \E n \in T : \A k \in T : n <= k
<1>1. PICK n \in T : \A k \in T : <<k, n>> \notin OpToRel(<, Nat)
  BY NatLessThanWellFounded, WFMin
<1>2. \A k \in T : ~ (k < n)
  BY <1>1 DEF OpToRel
<1> QED
  BY <1>2

(* FlattenSeq is any function that appends one part after the other.       *)
LEMMA FlattenIs ==
    ASSUME NEW s, Len(s) \in Nat, Len(s) # 0, NEW g,
           g = [i \in 1 .. Len(s) |-> IF i = 1 THEN s[i] ELSE g[i - 1] \o s[i]]
    PROVE  FlattenSeq(s) = g[Len(s)]
<1> DEFINE f == CHOOSE h : h = [i \in 1 .. Len(s) |-> IF i = 1 THEN s[i] ELSE h[i - 1] \o s[i]]
<1>1. f = [i \in 1 .. Len(s) |-> IF i = 1 THEN s[i] ELSE f[i - 1] \o s[i]]
  OBVIOUS
<1>2. FlattenSeq(s) = f[Len(s)]
  BY DEF FlattenSeq
<1> HIDE DEF f
<1> DEFINE bad == {i \in 1 .. Len(s) : f[i] # g[i]}
<1>3. bad = {}
  <2> SUFFICES ASSUME bad # {} PROVE FALSE
    OBVIOUS
  <2>0. bad \subseteq Nat
    OBVIOUS
  <2>1. PICK i \in bad : \A k \in bad : i <= k
    <3> HIDE DEF bad
    <3> QED
      BY <2>0, SmallestElement
  <2>2. CASE i = 1
    BY <1>1, <2>1, <2>2
  <2>3. CASE i # 1
    <3>1. i - 1 \in 1 .. Len(s) /\ i - 1 \notin bad
      BY <2>1, <2>3
    <3>2. f[i - 1] = g[i - 1]
      BY <3>1
    <3>3. f[i] = f[i - 1] \o s[i] /\ g[i] = g[i - 1] \o s[i]
      BY <1>1, <2>3
    <3> QED
      BY <3>2, <3>3
  <2> QED
    BY <2>2, <2>3
<1>4. Len(s) \in 1 .. Len(s)
  OBVIOUS
<1> QED
  BY <1>2, <1>3, <1>4

(* Division with a rest.                                                   *)
LEMMA DivMod ==
    ASSUME NEW n \in Nat, NEW B \in Nat \ {0}
    PROVE  n = B * (n \div B) + (n % B) /\ n % B \in 0 .. B - 1 /\ n \div B \in Nat
<1>1. n % B \in 0 .. B - 1
  OBVIOUS
<1>2. n \div B \in Int
  OBVIOUS
<1>3. n = B * (n \div B) + (n % B)
  OBVIOUS
<1>4. n \div B >= 0
  OBVIOUS
<1> QED
  BY <1>1, <1>2, <1>3, <1>4

(* A number of bytes, padded, is a whole number of blocks, and no more    *)
(* than a multiple of the block that it was below.                        *)
LEMMA PadArithmetic ==
    ASSUME NEW n \in Nat, NEW B \in Nat \ {0}
    PROVE  /\ B - (n % B) \in 1 .. B
           /\ (n + (B - (n % B))) % B = 0
           /\ \A k \in Nat : n < k * B => n + (B - (n % B)) <= k * B
<1> DEFINE q == n \div B
           r == n % B
<1>1. q \in Nat /\ r \in 0 .. B - 1 /\ n = B * q + r
  BY DivMod
<1> HIDE DEF q, r
<1>2. n + (B - r) = B * (q + 1)
  BY <1>1
<1>3. (B * (q + 1)) % B = 0
  BY <1>1
<1>4. ASSUME NEW k \in Nat, n < k * B PROVE B * (q + 1) <= k * B
  <2>1. B * q < k * B
    BY <1>1, <1>4
  <2>2. q < k
    BY <1>1, <2>1
  <2> QED
    BY <1>1, <2>2
<1> QED
  BY <1>1, <1>2, <1>3, <1>4 DEF r

(* The sizes of blocks and blobs.                                          *)
LEMMA Sizes ==
    /\ BlockLen \in Nat \ {0}
    /\ MaxBlobSize \in Nat /\ maxBlobDataSize = MaxBlobSize - 1 /\ maxBlobDataSize >= 1
    /\ \E k \in Nat : MaxBlobSize = k * BlockLen
<1>1. PICK k \in 1 .. MaxBlobSize : MaxBlobSize = k * BlockLen
  BY ConstantsAssumption
<1>2. k \in Nat /\ k >= 1 /\ BlockLen \in Nat /\ BlockLen >= 2
  BY ConstantsAssumption
<1>3. k * BlockLen \in Nat /\ k * BlockLen >= 2
  BY <1>2
<1> QED
  BY <1>1, <1>2, <1>3 DEF maxBlobDataSize

(* A sequence is a function on an interval.                                *)
LEMMA IntervalSeq ==
    ASSUME NEW S, NEW n \in Nat, NEW f \in [1 .. n -> S]
    PROVE  f \in Seq(S) /\ Len(f) = n
<1>1. f \in Seq(S)
  BY SeqDef
<1>2. DOMAIN f = 1 .. n /\ Len(f) \in Nat /\ DOMAIN f = 1 .. Len(f)
  BY <1>1, LenProperties
<1> QED
  BY <1>1, <1>2

-----------------------------------------------------------------------------
(* Blobs.                                                                  *)

(* pkcs7Pad appends between one byte and a block, each telling how many;   *)
(* data that fits into a blob still does when it is padded.                *)
LEMMA PadProperties ==
    ASSUME NEW data \in Seq(Nat)
    PROVE  \E p \in 1 .. BlockLen :
              /\ pkcs7Pad(data) \in Seq(Nat)
              /\ Len(pkcs7Pad(data)) = Len(data) + p
              /\ \A i \in 1 .. Len(data) : pkcs7Pad(data)[i] = data[i]
              /\ \A i \in Len(data) + 1 .. Len(data) + p : pkcs7Pad(data)[i] = p
              /\ (Len(data) + p) % BlockLen = 0
              /\ Len(data) <= maxBlobDataSize => Len(data) + p <= MaxBlobSize
<1> DEFINE p == BlockLen - (Len(data) % BlockLen)
           t == [i \in 1 .. p |-> p]
<1>1. Len(data) \in Nat
  BY LenProperties
<1>2. /\ p \in 1 .. BlockLen /\ p \in Nat
      /\ (Len(data) + p) % BlockLen = 0
      /\ \A k \in Nat : Len(data) < k * BlockLen => Len(data) + p <= k * BlockLen
  <2>1. /\ p \in 1 .. BlockLen
        /\ (Len(data) + p) % BlockLen = 0
        /\ \A k \in Nat : Len(data) < k * BlockLen => Len(data) + p <= k * BlockLen
    BY <1>1, Sizes, PadArithmetic, Zenon
  <2>2. p \in 1 .. BlockLen => p \in Nat
    <3> HIDE DEF p
    <3> QED
      BY Sizes
  <2> QED
    BY <2>1, <2>2, Zenon
<1>3. pkcs7Pad(data) = data \o t
  BY DEF pkcs7Pad
<1> HIDE DEF p
<1>4. t \in [1 .. p -> Nat] /\ \A i \in 1 .. p : t[i] = p
  BY <1>2
<1> HIDE DEF t
<1>5. t \in Seq(Nat) /\ Len(t) = p
  BY <1>2, <1>4, IntervalSeq
<1>6. /\ data \o t \in Seq(Nat)
      /\ Len(data \o t) = Len(data) + Len(t)
      /\ \A i \in 1 .. Len(data) + Len(t) :
            (data \o t)[i] = IF i <= Len(data) THEN data[i] ELSE t[i - Len(data)]
  BY <1>5, ConcatProperties
<1>7. ASSUME NEW i \in 1 .. Len(data) PROVE (data \o t)[i] = data[i]
  <2>1. i \in 1 .. Len(data) + Len(t) /\ i <= Len(data)
    BY <1>1, <1>2, <1>5
  <2> QED
    BY <1>6, <2>1
<1>8. ASSUME NEW i \in Len(data) + 1 .. Len(data) + p PROVE (data \o t)[i] = p
  <2>1. i \in 1 .. Len(data) + Len(t) /\ ~ (i <= Len(data)) /\ i - Len(data) \in 1 .. p
    BY <1>1, <1>2, <1>5
  <2> QED
    BY <1>4, <1>6, <2>1
<1>9. Len(data) <= maxBlobDataSize => Len(data) + p <= MaxBlobSize
  <2>1. PICK k \in Nat : MaxBlobSize = k * BlockLen
    BY Sizes
  <2> QED
    BY <1>1, <1>2, <2>1, Sizes
<1> QED
  BY <1>2, <1>3, <1>5, <1>6, <1>7, <1>8, <1>9

(* pkcs7Unpad undoes pkcs7Pad.                                             *)
LEMMA UnpadPad ==
    ASSUME NEW data \in Seq(Nat)
    PROVE  pkcs7Unpad(pkcs7Pad(data)) = data
<1> DEFINE d == pkcs7Pad(data)
<1>1. PICK p \in 1 .. BlockLen :
         /\ d \in Seq(Nat)
         /\ Len(d) = Len(data) + p
         /\ \A i \in 1 .. Len(data) : d[i] = data[i]
         /\ \A i \in Len(data) + 1 .. Len(data) + p : d[i] = p
         /\ (Len(data) + p) % BlockLen = 0
  BY PadProperties
<1> HIDE DEF d
<1>2. Len(data) \in Nat /\ p \in Nat /\ p >= 1
  BY LenProperties, Sizes
<1>3. d[Len(d)] = p
  <2>1. Len(d) \in Len(data) + 1 .. Len(data) + p
    BY <1>1, <1>2
  <2> QED
    BY <1>1, <2>1
<1>4. d # <<>> /\ Len(d) % BlockLen = 0
  BY <1>1, <1>2, EmptySeq
<1>5. \A i \in Len(d) - p + 1 .. Len(d) : d[i] = p
  <2>1. \A i \in Len(data) + 1 .. Len(data) + p : d[i] = p
    BY <1>1
  <2>2. Len(d) = Len(data) + p
    BY <1>1
  <2>3. Len(d) - p + 1 = Len(data) + 1
    BY <1>2, <2>2
  <2> QED
    BY <2>1, <2>2, <2>3
<1>6. pkcs7Unpad(d) = SubSeq(d, 1, Len(d) - p)
  BY <1>3, <1>4, <1>5 DEF pkcs7Unpad
<1>7. Len(d) - p = Len(data)
  BY <1>1, <1>2
<1>8. SubSeq(d, 1, Len(data)) = data
  <2>1. \A i \in 1 .. Len(data) : d[i] \in Nat
    <3>1. \A i \in 1 .. Len(d) : d[i] \in Nat
      BY <1>1, ElementOfSeq
    <3> QED
      BY <1>1, <1>2, <3>1
  <2>2. /\ SubSeq(d, 1, Len(data)) \in Seq(Nat)
        /\ Len(SubSeq(d, 1, Len(data))) = Len(data)
        /\ \A i \in 1 .. Len(data) : SubSeq(d, 1, Len(data))[i] = d[i]
    BY <1>2, <2>1, SubSeqProperties, Z3
  <2> QED
    BY <1>1, <2>2, SeqEqual
<1> QED
  BY <1>6, <1>7, <1>8 DEF d

(* A blob that NewBlob makes: its size, its hash, its plaintext.           *)
LEMMA NewBlobProperties ==
    ASSUME NEW data \in Seq(Nat), NEW iv \in Nat
    PROVE  /\ NewBlob(data, iv) \in BlobType
           /\ NewBlob(data, iv).iv = iv
           /\ Size(NewBlob(data, iv)) \in Nat \ {0}
           /\ Len(data) <= maxBlobDataSize => Size(NewBlob(data, iv)) <= MaxBlobSize
           /\ Hash(NewBlob(data, iv)) = NewBlob(data, iv)
           /\ Plaintext(NewBlob(data, iv), iv) = data
<1>1. PICK p \in 1 .. BlockLen :
         /\ pkcs7Pad(data) \in Seq(Nat)
         /\ Len(pkcs7Pad(data)) = Len(data) + p
         /\ Len(data) <= maxBlobDataSize => Len(data) + p <= MaxBlobSize
  BY PadProperties
<1>2. Len(data) \in Nat /\ p \in Nat /\ p >= 1
  BY LenProperties, Sizes
<1>3. NewBlob(data, iv) \in BlobType /\ NewBlob(data, iv).iv = iv
  BY <1>1 DEF NewBlob, BlobType
<1>4. Size(NewBlob(data, iv)) = Len(data) + p
  BY <1>1 DEF NewBlob, Size
<1>5. Hash(NewBlob(data, iv)) = NewBlob(data, iv)
  BY <1>2, <1>4 DEF Hash
<1>6. Plaintext(NewBlob(data, iv), iv) = pkcs7Unpad(pkcs7Pad(data))
  BY DEF Plaintext, NewBlob
<1> QED
  BY <1>1, <1>2, <1>3, <1>4, <1>5, <1>6, UnpadPad

(* The file is a sequence of bytes.                                        *)
LEMMA FileBytes ==
    ASSUME SourceOK
    PROVE  /\ file \in Seq(Nat) /\ Len(file) \in 0 .. MaxFile /\ Len(file) \in Nat
           /\ \A i \in 1 .. Len(file) : file[i] = i
<1>1. PICK n \in 0 .. MaxFile : file = [i \in 1 .. n |-> i]
  BY DEF SourceOK
<1>2. n \in Nat /\ file \in [1 .. n -> Nat]
  BY <1>1, ConstantsAssumption
<1>3. file \in Seq(Nat) /\ Len(file) = n
  BY <1>2, IntervalSeq
<1> QED
  BY <1>1, <1>2, <1>3

(* What a stretch of the file is.                                          *)
LEMMA Stretch ==
    ASSUME SourceOK, NEW m \in 0 .. Len(file), NEW n \in m .. Len(file)
    PROVE  /\ SubSeq(file, m + 1, n) \in Seq(Nat)
           /\ Len(SubSeq(file, m + 1, n)) = n - m
           /\ \A i \in 1 .. n - m : SubSeq(file, m + 1, n)[i] = m + i
<1>1. Len(file) \in Nat /\ \A i \in 1 .. Len(file) : file[i] = i
  BY FileBytes
<1>2. \A i \in m + 1 .. n : file[i] \in Nat
  BY <1>1
<1>3. m + 1 \in Int /\ n \in Int /\ n - (m + 1) + 1 = n - m
  BY <1>1
<1>4. /\ SubSeq(file, m + 1, n) \in Seq(Nat)
      /\ Len(SubSeq(file, m + 1, n)) = IF m + 1 <= n THEN n - (m + 1) + 1 ELSE 0
      /\ \A i \in 1 .. n - (m + 1) + 1 : SubSeq(file, m + 1, n)[i] = file[m + 1 + i - 1]
  BY <1>2, <1>3, SubSeqProperties
<1>5. Len(SubSeq(file, m + 1, n)) = n - m
  BY <1>1, <1>4
<1>6. ASSUME NEW i \in 1 .. n - m PROVE SubSeq(file, m + 1, n)[i] = m + i
  <2>1. i \in 1 .. n - (m + 1) + 1 /\ m + 1 + i - 1 = m + i /\ m + i \in 1 .. Len(file)
    BY <1>1
  <2> QED
    BY <1>1, <1>4, <2>1
<1> QED
  BY <1>4, <1>5, <1>6

(* Each blob of a stream: its size, its hash and what is read from it.     *)
LEMMA PieceProperties ==
    ASSUME SourceOK, NEW bs \in Seq(BlobType), NEW len,
           NEW a \in [1 .. Len(bs) + 1 -> 0 .. Len(file)], CutAt(bs, len, a),
           NEW i \in 1 .. Len(bs)
    PROVE  /\ a[i] \in 0 .. Len(file) /\ a[i + 1] \in a[i] + 1 .. Len(file)
           /\ bs[i].iv \in Nat
           /\ Size(bs[i]) \in 1 .. MaxBlobSize
           /\ Hash(bs[i]) = bs[i]
           /\ Plaintext(bs[i], bs[i].iv) = SubSeq(file, a[i] + 1, a[i + 1])
           /\ SubSeq(file, a[i] + 1, a[i + 1]) \in Seq(Nat)
           /\ Len(SubSeq(file, a[i] + 1, a[i + 1])) = a[i + 1] - a[i]
<1> DEFINE d == SubSeq(file, a[i] + 1, a[i + 1])
<1>1. Len(bs) \in Nat /\ bs[i] \in BlobType
  BY LenProperties, ElementOfSeq
<1>2. bs[i].iv \in Nat
  BY <1>1 DEF BlobType
<1>3. a[i + 1] - a[i] \in 1 .. maxBlobDataSize /\ bs[i] = NewBlob(d, bs[i].iv)
  BY DEF CutAt
<1>4. a[i] \in 0 .. Len(file) /\ a[i + 1] \in 0 .. Len(file)
  BY <1>1
<1>5. Len(file) \in Nat
  BY FileBytes
<1>6. a[i + 1] \in a[i] + 1 .. Len(file) /\ a[i + 1] \in a[i] .. Len(file)
  BY <1>3, <1>4, <1>5, Sizes
<1>7. d \in Seq(Nat) /\ Len(d) = a[i + 1] - a[i]
  BY <1>4, <1>6, Stretch
<1> HIDE DEF d
<1>8. Len(d) <= maxBlobDataSize
  BY <1>3, <1>7, Sizes
<1>9. /\ Size(NewBlob(d, bs[i].iv)) \in Nat \ {0}
      /\ Size(NewBlob(d, bs[i].iv)) <= MaxBlobSize
      /\ Hash(NewBlob(d, bs[i].iv)) = NewBlob(d, bs[i].iv)
      /\ Plaintext(NewBlob(d, bs[i].iv), bs[i].iv) = d
  BY <1>2, <1>7, <1>8, NewBlobProperties
<1>10. Size(bs[i]) \in 1 .. MaxBlobSize
  BY <1>3, <1>9, Sizes
<1> QED
  BY <1>2, <1>3, <1>4, <1>6, <1>7, <1>9, <1>10 DEF d

(* The sd blob reads back as the infos it was made of.                     *)
LEMMA DescriptorReads ==
    ASSUME NEW is \in Seq(InfoType)
    PROVE  FromBlob(ToBlob(is)) = is
<1> DEFINE sd == ToBlob(is)
<1>1. DOMAIN sd.blobs = DOMAIN is /\ \A i \in DOMAIN is : sd.blobs[i] = InfoJSON(is[i])
  BY DEF ToBlob
<1>2. ASSUME NEW x \in InfoType
      PROVE  /\ InfoJSON(x).blob_num = x.num /\ InfoJSON(x).length = x.length
             /\ InfoJSON(x).iv = x.iv
             /\ (IF "blob_hash" \in DOMAIN InfoJSON(x) THEN InfoJSON(x).blob_hash ELSE NoHash) = x.hash
  <2>1. CASE x.hash = NoHash
    BY <2>1 DEF InfoJSON
  <2>2. CASE x.hash # NoHash
    BY <2>2 DEF InfoJSON
  <2> QED
    BY <2>1, <2>2
<1>3. \A i \in DOMAIN is : is[i] \in InfoType
  BY LenProperties, ElementOfSeq
<1>4. FromBlob(sd) = [i \in DOMAIN is |->
          [num |-> sd.blobs[i].blob_num, length |-> sd.blobs[i].length, iv |-> sd.blobs[i].iv,
           hash |-> IF "blob_hash" \in DOMAIN sd.blobs[i] THEN sd.blobs[i].blob_hash ELSE NoHash]]
  BY <1>1 DEF FromBlob
<1> HIDE DEF sd
<1>5. ASSUME NEW i \in DOMAIN is PROVE FromBlob(sd)[i] = is[i]
  <2>1. FromBlob(sd)[i] = [num |-> is[i].num, length |-> is[i].length, iv |-> is[i].iv, hash |-> is[i].hash]
    BY <1>1, <1>2, <1>3, <1>4
  <2> QED
    BY <1>3, <2>1 DEF InfoType
<1>6. DOMAIN FromBlob(sd) = DOMAIN is /\ FromBlob(sd) = [i \in DOMAIN is |-> FromBlob(sd)[i]]
  BY <1>4
<1>7. is = [i \in DOMAIN is |-> is[i]]
  BY LenProperties
<1> QED
  BY <1>5, <1>6, <1>7 DEF sd

(* Concatenated, the pieces are the part of the file that was read.        *)
LEMMA PiecesJoin ==
    ASSUME SourceOK, NEW bs \in Seq(BlobType), NEW len,
           NEW a \in [1 .. Len(bs) + 1 -> 0 .. Len(file)], CutAt(bs, len, a), Len(bs) # 0
    PROVE  FlattenSeq([i \in 1 .. Len(bs) |-> SubSeq(file, a[i] + 1, a[i + 1])])
             = SubSeq(file, 1, len)
<1> DEFINE N == Len(bs)
           s == [i \in 1 .. N |-> SubSeq(file, a[i] + 1, a[i + 1])]
           g == [i \in 1 .. N |-> SubSeq(file, 1, a[i + 1])]
<1>1. N \in Nat /\ N # 0
  BY LenProperties
<1>2. a[1] = 0 /\ a[N + 1] = len
  BY DEF CutAt
<1>3. \A i \in 1 .. N : a[i] \in 0 .. Len(file) /\ a[i + 1] \in a[i] + 1 .. Len(file)
  BY PieceProperties
<1>4. file \in Seq(Nat) /\ Len(file) \in Nat
  BY FileBytes
<1>5. Len(s) = N
  <2>1. \A i \in 1 .. N : s[i] \in Seq(Nat)
    BY PieceProperties
  <2>2. s \in [1 .. N -> Seq(Nat)]
    BY <2>1
  <2> HIDE DEF s
  <2> QED
    BY <1>1, <2>2, IntervalSeq
<1>6. ASSUME NEW i \in 1 .. N, i # 1
      PROVE  g[i] = g[i - 1] \o s[i]
  <2>1. i - 1 \in 1 .. N /\ (i - 1) + 1 = i
    BY <1>1, <1>6
  <2>2. 1 \in 1 .. Len(file) + 1 /\ a[i] \in 0 .. Len(file) /\ a[i] \in 1 - 1 .. Len(file)
        /\ a[i + 1] \in a[i] .. Len(file)
    BY <1>3, <1>4
  <2>3. SubSeq(file, 1, a[i]) \o SubSeq(file, a[i] + 1, a[i + 1]) = SubSeq(file, 1, a[i + 1])
    BY <1>4, <2>2, ConcatAdjacentSubSeq
  <2> QED
    BY <2>1, <2>3
<1>7. g[1] = s[1]
  BY <1>1, <1>2
<1>8. g = [i \in 1 .. N |-> g[i]]
  OBVIOUS
<1>9. g[N] = SubSeq(file, 1, len)
  BY <1>1, <1>2
<1> HIDE DEF g, s, N
<1>10. \A i \in 1 .. N : g[i] = IF i = 1 THEN s[i] ELSE g[i - 1] \o s[i]
  BY <1>6, <1>7
<1>11. g = [i \in 1 .. Len(s) |-> IF i = 1 THEN s[i] ELSE g[i - 1] \o s[i]]
  BY <1>5, <1>8, <1>10
<1>12. FlattenSeq(s) = g[Len(s)]
  BY <1>1, <1>5, <1>11, FlattenIs
<1> QED
  BY <1>5, <1>9, <1>12 DEF s, N

(* The infos of a stream say of each blob what it is.                      *)
LEMMA StreamInfos ==
    ASSUME SourceOK, NEW is \in Seq(InfoType), NEW bs \in Seq(BlobType), NEW len,
           NEW ended \in BOOLEAN, Made(is, bs, len, ended), NEW i \in 1 .. Len(bs)
    PROVE  /\ is[i].length \in 1 .. MaxBlobSize /\ is[i].num = i - 1
           /\ is[i].hash = bs[i] /\ is[i].iv = bs[i].iv
<1>1. PICK a \in [1 .. Len(bs) + 1 -> 0 .. Len(file)] : CutAt(bs, len, a)
  BY DEF Made
<1>2. Size(bs[i]) \in 1 .. MaxBlobSize /\ Hash(bs[i]) = bs[i]
  BY <1>1, PieceProperties
<1>3. is[i] = BlobInfo(i - 1, bs[i], bs[i].iv)
  BY DEF Made
<1> QED
  BY <1>2, <1>3 DEF BlobInfo

(* A complete stream with data decodes to what it was made of.             *)
LEMMA StreamDecodes ==
    ASSUME SourceOK, NEW is \in Seq(InfoType), NEW bs \in Seq(BlobType), NEW len,
           Made(is, bs, len, TRUE), Len(bs) # 0
    PROVE  Decode(ToBlob(is), bs) = SubSeq(file, 1, len)
<1> DEFINE n == Len(is)
<1>1. PICK a \in [1 .. Len(bs) + 1 -> 0 .. Len(file)] : CutAt(bs, len, a)
  BY DEF Made
<1>2. Len(bs) \in Nat /\ n = Len(bs) + 1
  BY LenProperties DEF Made
<1>3. FromBlob(ToBlob(is)) = is
  BY DescriptorReads
<1>4. ToBlob(is).stream_hash = computeStreamHash(is)
  BY DEF ToBlob
<1>5. is[n].length = 0
  <2>1. Len(<<>>) = 0
    BY EmptySeq
  <2> QED
    BY <2>1 DEF Made, BlobInfo, EmptyBlob, Size
<1>6. ASSUME NEW i \in 1 .. Len(bs)
      PROVE  /\ Plaintext(bs[i], is[i].iv) = SubSeq(file, a[i] + 1, a[i + 1])
             /\ ~ BadBlob(is, bs, i)
  <2>1. /\ is[i].length \in 1 .. MaxBlobSize /\ is[i].num = i - 1
        /\ is[i].hash = bs[i] /\ is[i].iv = bs[i].iv
    BY StreamInfos
  <2> DEFINE d == SubSeq(file, a[i] + 1, a[i + 1])
  <2>2. Hash(bs[i]) = bs[i] /\ Plaintext(bs[i], bs[i].iv) = d /\ d \in Seq(Nat)
        /\ Len(d) = a[i + 1] - a[i] /\ a[i] \in 0 .. Len(file) /\ a[i + 1] \in a[i] + 1 .. Len(file)
    BY <1>1, PieceProperties
  <2>3. d # Error
    <3>1. Len(file) \in Nat
      BY FileBytes
    <3>2. 1 \in 1 .. Len(d)
      BY <2>2, <3>1
    <3> HIDE DEF d
    <3>3. d[1] \in Nat
      BY <2>2, <3>2, ElementOfSeq
    <3> QED
      BY <3>3 DEF Error
  <2>4. is[i].length # 0
    BY <2>1, Sizes
  <2> HIDE DEF d
  <2> QED
    BY <2>1, <2>2, <2>3, <2>4 DEF BadBlob, d
<1>7. n - 1 = Len(bs) /\ ~ (Len(bs) < 1)
  BY <1>2
<1>8. \A i \in 1 .. n - 1 : ~ BadBlob(is, bs, i)
  BY <1>6, <1>7
<1>9. Decode(ToBlob(is), bs) = FlattenSeq([i \in 1 .. n - 1 |-> Plaintext(bs[i], is[i].iv)])
  BY <1>3, <1>4, <1>5, <1>7, <1>8 DEF Decode
<1>10. [i \in 1 .. n - 1 |-> Plaintext(bs[i], is[i].iv)]
         = [i \in 1 .. Len(bs) |-> SubSeq(file, a[i] + 1, a[i + 1])]
  BY <1>6, <1>7
<1> QED
  BY <1>1, <1>9, <1>10, PiecesJoin

(* Nothing but its own blobs decodes with the descriptor of a stream.      *)
LEMMA OnlyItsBlobsDecode ==
    ASSUME SourceOK, NEW is \in Seq(InfoType), NEW bs \in Seq(BlobType), NEW len,
           Made(is, bs, len, TRUE), NEW cs \in Seq(BlobType),
           Decode(ToBlob(is), cs) # Error
    PROVE  cs = bs /\ Len(bs) # 0
<1> DEFINE n == Len(is)
<1>1. Len(bs) \in Nat /\ Len(cs) \in Nat /\ n = Len(bs) + 1
  BY LenProperties DEF Made
<1>2. FromBlob(ToBlob(is)) = is
  BY DescriptorReads
<1>3. /\ ~ (Len(cs) < 1)
      /\ Len(cs) = n - 1
      /\ \A i \in 1 .. n - 1 : ~ BadBlob(is, cs, i)
  BY <1>2 DEF Decode
<1>4. Len(cs) = Len(bs) /\ Len(bs) # 0
  BY <1>1, <1>3
<1>5. ASSUME NEW i \in 1 .. Len(bs) PROVE cs[i] = bs[i]
  <2>1. i \in 1 .. n - 1
    BY <1>1
  <2>2. Hash(cs[i]) = is[i].hash
    BY <1>3, <2>1 DEF BadBlob
  <2>3. is[i].hash = bs[i]
    BY StreamInfos
  <2>4. PICK a \in [1 .. Len(bs) + 1 -> 0 .. Len(file)] : CutAt(bs, len, a)
    BY DEF Made
  <2>5. Size(bs[i]) \in 1 .. MaxBlobSize
    BY <2>4, PieceProperties
  <2>6. Size(NoHash) = 0 /\ Size(bs[i]) # 0
    BY <2>5, EmptySeq, Sizes DEF Size, NoHash
  <2> QED
    BY <2>2, <2>3, <2>6 DEF Hash
<1> QED
  BY <1>4, <1>5, SeqEqual

-----------------------------------------------------------------------------
(* The steps of the encoder.                                               *)

(* A read of n bytes takes them from the front of what is left.            *)
LEMMA ReadParts ==
    ASSUME SourceOK, pc # "eof", NEW n \in 1 .. Len(rest)
    PROVE  /\ Len(rest) = Len(file) - srcLen
           /\ srcLen + n \in 1 .. Len(file)
           /\ SubSeq(rest, 1, n) = SubSeq(file, srcLen + 1, srcLen + n)
           /\ SubSeq(rest, n + 1, Len(rest)) = SubSeq(file, srcLen + n + 1, Len(file))
<1> DEFINE L == Len(file)
           m == srcLen
           k == L - m
<1>1. L \in Nat /\ m \in 0 .. L /\ m \in Nat /\ k \in Nat
  BY FileBytes DEF SourceOK
<1>2. rest = SubSeq(file, m + 1, L)
  BY DEF SourceOK
<1>3. rest \in Seq(Nat) /\ Len(rest) = k /\ \A i \in 1 .. k : rest[i] = m + i
  <2>1. L \in m .. L
    BY <1>1
  <2> QED
    BY <1>1, <1>2, <2>1, Stretch
<1> HIDE DEF L, m, k
<1>4. n \in Nat /\ n >= 1 /\ n <= k
  BY <1>1, <1>3
<1>5. m + n \in 1 .. L /\ m + n \in m .. L /\ m + n \in 0 .. L /\ L \in m + n .. L /\ k = L - m
  BY <1>1, <1>4 DEF k
<1>6. SubSeq(rest, 1, n) = SubSeq(file, m + 1, m + n)
  <2> DEFINE u == SubSeq(rest, 1, n)
             v == SubSeq(file, m + 1, m + n)
  <2>1. \A i \in 1 .. n : rest[i] \in Nat
    BY <1>1, <1>3, <1>4
  <2>2. u \in Seq(Nat) /\ Len(u) = n /\ \A i \in 1 .. n : u[i] = rest[i]
    BY <1>4, <2>1, SubSeqProperties, Z3
  <2>3. v \in Seq(Nat) /\ Len(v) = (m + n) - m /\ \A i \in 1 .. (m + n) - m : v[i] = m + i
    BY <1>1, <1>5, Stretch DEF L
  <2> HIDE DEF u, v
  <2>4. (m + n) - m = n
    BY <1>1, <1>4
  <2>5. \A i \in 1 .. n : u[i] = v[i]
    BY <1>3, <1>4, <1>1, <2>2, <2>3, <2>4
  <2>6. u = v
    BY <2>2, <2>3, <2>4, <2>5, SeqEqual
  <2> QED
    BY <2>6 DEF u, v
<1>7. SubSeq(rest, n + 1, k) = SubSeq(file, m + n + 1, L)
  <2> DEFINE u == SubSeq(rest, n + 1, k)
             v == SubSeq(file, m + n + 1, L)
  <2>1. \A i \in n + 1 .. k : rest[i] \in Nat
    BY <1>1, <1>3, <1>4
  <2>2. u \in Seq(Nat) /\ Len(u) = k - n /\ \A i \in 1 .. k - n : u[i] = rest[n + i]
    <3>1. n + 1 \in Int /\ k \in Int /\ k - (n + 1) + 1 = k - n
      BY <1>1, <1>4
    <3>2. /\ u \in Seq(Nat)
          /\ Len(u) = IF n + 1 <= k THEN k - (n + 1) + 1 ELSE 0
          /\ \A i \in 1 .. k - (n + 1) + 1 : u[i] = rest[n + 1 + i - 1]
      BY <2>1, <3>1, SubSeqProperties
    <3> HIDE DEF u
    <3>3. Len(u) = k - n
      BY <1>1, <1>4, <3>2
    <3>4. \A i \in 1 .. k - n : n + 1 + i - 1 = n + i
      BY <1>4
    <3> QED
      BY <3>1, <3>2, <3>3, <3>4
  <2>3. v \in Seq(Nat) /\ Len(v) = L - (m + n) /\ \A i \in 1 .. L - (m + n) : v[i] = m + n + i
    BY <1>1, <1>5, Stretch DEF L
  <2> HIDE DEF u, v
  <2>4. L - (m + n) = k - n
    BY <1>1, <1>4, <1>5
  <2>5. ASSUME NEW i \in 1 .. k - n PROVE u[i] = v[i]
    <3>1. n + i \in 1 .. k /\ m + (n + i) = m + n + i
      BY <1>1, <1>4
    <3>2. u[i] = rest[n + i] /\ rest[n + i] = m + (n + i) /\ v[i] = m + n + i
      BY <1>3, <2>2, <2>3, <2>4, <3>1
    <3> QED
      BY <3>1, <3>2
  <2>6. u = v
    BY <2>2, <2>3, <2>4, <2>5, SeqEqual
  <2> QED
    BY <2>6 DEF u, v
<1> QED
  BY <1>3, <1>5, <1>6, <1>7 DEF L, m, k

(* A blob of the next bytes makes the stream longer.                       *)
LEMMA AddsBlob ==
    ASSUME SourceOK, NEW is \in Seq(InfoType), NEW bs \in Seq(BlobType), NEW len,
           Made(is, bs, len, FALSE), NEW n \in 1 .. maxBlobDataSize, len + n \in 1 .. Len(file),
           NEW iv \in Nat, NEW b, b = NewBlob(SubSeq(file, len + 1, len + n), iv)
    PROVE  /\ BlobInfo(Len(is), b, iv) \in InfoType /\ b \in BlobType
           /\ Made(Append(is, BlobInfo(Len(is), b, iv)), Append(bs, b), len + n, FALSE)
<1> DEFINE info == BlobInfo(Len(is), b, iv)
           is2 == Append(is, info)
           bs2 == Append(bs, b)
           N == Len(bs)
<1>1. PICK a \in [1 .. N + 1 -> 0 .. Len(file)] : CutAt(bs, len, a)
  BY DEF Made
<1>2. N \in Nat /\ Len(is) = N /\ len \in 0 .. Len(file) /\ Len(file) \in Nat /\ len \in Nat
  BY LenProperties, FileBytes DEF Made
<1>3. n \in Nat /\ n >= 1 /\ len + n \in len .. Len(file) /\ len + n \in 0 .. Len(file)
  BY <1>2, Sizes
<1>4. SubSeq(file, len + 1, len + n) \in Seq(Nat)
  BY <1>2, <1>3, Stretch
<1>5. b \in BlobType /\ b.iv = iv /\ Size(b) \in Nat /\ Hash(b) = b
  BY <1>4, NewBlobProperties
<1>6. info \in InfoType
  BY <1>2, <1>5 DEF BlobInfo, InfoType
<1>7. /\ is2 \in Seq(InfoType) /\ Len(is2) = Len(is) + 1
      /\ \A i \in 1 .. Len(is) : is2[i] = is[i]
      /\ is2[Len(is) + 1] = info
  BY <1>6, AppendProperties
<1>8. /\ bs2 \in Seq(BlobType) /\ Len(bs2) = N + 1
      /\ \A i \in 1 .. N : bs2[i] = bs[i]
      /\ bs2[N + 1] = b
  BY <1>5, AppendProperties
<1> HIDE DEF is2, bs2, N
<1>9. info = BlobInfo((N + 1) - 1, b, b.iv)
  BY <1>2, <1>5
<1> HIDE DEF info
<1>10. ASSUME NEW i \in 1 .. N + 1 PROVE is2[i] = BlobInfo(i - 1, bs2[i], bs2[i].iv)
  <2>1. CASE i \in 1 .. N
    BY <1>2, <1>7, <1>8, <2>1 DEF Made, N
  <2>2. CASE i = N + 1
    BY <1>2, <1>7, <1>8, <1>9, <2>2
  <2> QED
    BY <1>2, <2>1, <2>2
<1> DEFINE c == [i \in 1 .. N + 2 |-> IF i <= N + 1 THEN a[i] ELSE len + n]
<1>11. c \in [1 .. N + 2 -> 0 .. Len(file)]
  BY <1>1, <1>2, <1>3
<1>12. \A i \in 1 .. N + 1 : c[i] = a[i]
  BY <1>2
<1>13. c[N + 2] = len + n /\ c[1] = 0 /\ c[N + 1] = len
  BY <1>1, <1>2 DEF CutAt, N
<1> HIDE DEF c
<1>14. ASSUME NEW i \in 1 .. N + 1
       PROVE  /\ c[i + 1] - c[i] \in 1 .. maxBlobDataSize
              /\ bs2[i] = NewBlob(SubSeq(file, c[i] + 1, c[i + 1]), bs2[i].iv)
  <2>1. CASE i \in 1 .. N
    <3>1. i \in 1 .. N + 1 /\ i + 1 \in 1 .. N + 1
      BY <1>2, <2>1
    <3>2. c[i] = a[i] /\ c[i + 1] = a[i + 1] /\ bs2[i] = bs[i]
      BY <1>8, <1>12, <2>1, <3>1
    <3> QED
      BY <1>1, <2>1, <3>2 DEF CutAt, N
  <2>2. CASE i = N + 1
    <3>1. c[i] = len /\ c[i + 1] = len + n /\ bs2[i] = b
      <4>1. i + 1 = N + 2
        BY <1>2, <2>2
      <4> QED
        BY <1>8, <1>13, <2>2, <4>1
    <3>2. (len + n) - len = n
      BY <1>2, <1>3
    <3> QED
      BY <1>5, <3>1, <3>2
  <2> QED
    BY <1>2, <2>1, <2>2
<1>15. Len(bs2) + 1 = N + 2
  BY <1>2, <1>8
<1>16. CutAt(bs2, len + n, c)
  BY <1>8, <1>13, <1>14, <1>15 DEF CutAt
<1>17. Made(is2, bs2, len + n, FALSE)
  BY <1>2, <1>3, <1>7, <1>8, <1>10, <1>11, <1>15, <1>16 DEF Made
<1> QED
  BY <1>5, <1>6, <1>17 DEF is2, bs2, info

(* ensureTerminated completes it.                                          *)
LEMMA Terminates ==
    ASSUME SourceOK, NEW is \in Seq(InfoType), NEW bs \in Seq(BlobType), NEW len,
           Made(is, bs, len, FALSE), NEW iv \in Nat
    PROVE  /\ BlobInfo(Len(is), EmptyBlob, iv) \in InfoType
           /\ Made(Append(is, BlobInfo(Len(is), EmptyBlob, iv)), bs, len, TRUE)
<1> DEFINE info == BlobInfo(Len(is), EmptyBlob, iv)
           is2 == Append(is, info)
<1>1. Len(bs) \in Nat /\ Len(is) = Len(bs)
  BY LenProperties DEF Made
<1>2. Size(EmptyBlob) = 0 /\ NoHash \in BlobType
  BY EmptySeq DEF Size, EmptyBlob, NoHash, BlobType
<1>3. info \in InfoType
  BY <1>1, <1>2 DEF BlobInfo, InfoType, Hash
<1>4. info.iv = iv
  BY DEF BlobInfo
<1>5. /\ Len(is2) = Len(is) + 1
      /\ \A i \in 1 .. Len(is) : is2[i] = is[i]
      /\ is2[Len(is) + 1] = info
  BY <1>3, AppendProperties
<1> HIDE DEF is2
<1>6. is2[Len(is2)] = BlobInfo(Len(bs), EmptyBlob, is2[Len(is2)].iv)
  BY <1>1, <1>4, <1>5
<1> HIDE DEF info
<1>7. Made(is2, bs, len, TRUE)
  BY <1>1, <1>5, <1>6 DEF Made
<1> QED
  BY <1>3, <1>7 DEF is2, info

(* nextIV returns an IV and leaves IVs.                                    *)
LEMMA NextIVTypes ==
    ASSUME Typed
    PROVE  /\ nextIV \in Nat
           /\ IVUsed => ivs' \in Seq(Nat) /\ drawn' \in Nat
<1>1. CASE ivs = <<>>
  <2>1. nextIV = drawn + 1 /\ (IVUsed => drawn' = drawn + 1 /\ ivs' = ivs)
    BY <1>1, Zenon DEF nextIV, IVUsed
  <2> QED
    BY <2>1 DEF Typed
<1>2. CASE ivs # <<>>
  <2>1. Head(ivs) \in Nat /\ Tail(ivs) \in Seq(Nat)
    BY <1>2, HeadTailProperties DEF Typed
  <2> QED
    BY <1>2, <2>1 DEF Typed, nextIV, IVUsed
<1> QED
  BY <1>1, <1>2

(* An info that is added has the next preset IV.                           *)
LEMMA PresetsKept ==
    ASSUME Typed, Presets, pc # "failed", IVUsed, NEW x \in InfoType, x.iv = nextIV,
           infos' = Append(infos, x), orig' = orig
    PROVE  Presets'
<1> SUFFICES ASSUME orig.again
             PROVE  /\ Len(ivs') = IF Len(infos') < Len(orig.infos) THEN Len(orig.infos) - Len(infos') ELSE 0
                    /\ \A i \in 1 .. Len(ivs') : ivs'[i] = orig.infos[Len(infos') + i].iv
                    /\ \A i \in 1 .. Len(infos') : i <= Len(orig.infos) => infos'[i].iv = orig.infos[i].iv
  BY DEF Presets
<1> DEFINE N == Len(infos)
           M == Len(orig.infos)
<1>1. N \in Nat /\ M \in Nat
  BY LenProperties DEF Typed
<1>2. /\ Len(ivs) = IF N < M THEN M - N ELSE 0
      /\ \A i \in 1 .. Len(ivs) : ivs[i] = orig.infos[N + i].iv
      /\ \A i \in 1 .. N : i <= M => infos[i].iv = orig.infos[i].iv
  BY DEF Presets
<1>3. /\ Len(infos') = N + 1
      /\ \A i \in 1 .. N : infos'[i] = infos[i]
      /\ infos'[N + 1] = x
  BY AppendProperties DEF Typed
<1> HIDE DEF N
<1>4. CASE ivs = <<>>
  <2>1. ivs' = <<>> /\ Len(ivs) = 0 /\ Len(ivs') = 0
    BY <1>4, EmptySeq DEF IVUsed
  <2> HIDE DEF M
  <2>2. ~ (N < M) /\ ~ (N + 1 < M)
    BY <1>1, <1>2, <2>1
  <2>3. \A i \in 1 .. N + 1 : i <= M => i \in 1 .. N
    BY <1>1, <2>2
  <2>4. \A i \in 1 .. N + 1 : i <= M => infos'[i].iv = orig.infos[i].iv
    BY <1>2, <1>3, <2>3
  <2> QED
    BY <1>3, <2>1, <2>2, <2>4 DEF M
<1>5. CASE ivs # <<>>
  <2>1. /\ ivs' = Tail(ivs) /\ Len(ivs) \in Nat \ {0} /\ x.iv = Head(ivs)
    BY <1>5, EmptySeq DEF IVUsed, nextIV, Typed
  <2>2. Len(ivs') = Len(ivs) - 1 /\ \A i \in 1 .. Len(ivs') : ivs'[i] = ivs[i + 1]
    BY <1>5, <2>1, HeadTailProperties DEF Typed
  <2>3. Head(ivs) = ivs[1]
    BY <1>5 DEF Typed
  <2> HIDE DEF M
  <2>4. N < M /\ Len(ivs) = M - N
    BY <1>2, <2>1
  <2>5. Len(ivs') = IF N + 1 < M THEN M - (N + 1) ELSE 0
    BY <1>1, <2>2, <2>4
  <2>6. ASSUME NEW i \in 1 .. Len(ivs') PROVE ivs'[i] = orig.infos[N + 1 + i].iv
    <3>0. Len(ivs') = Len(ivs) - 1
      BY <2>2
    <3>1. i + 1 \in 1 .. Len(ivs) /\ N + (i + 1) = N + 1 + i
      BY <1>1, <2>1, <3>0
    <3> QED
      BY <1>2, <2>2, <3>1
  <2>7. ASSUME NEW i \in 1 .. N + 1, i <= M PROVE infos'[i].iv = orig.infos[i].iv
    <3>1. CASE i \in 1 .. N
      BY <1>2, <1>3, <2>7, <3>1
    <3>2. CASE i = N + 1
      <4>1. 1 \in 1 .. Len(ivs)
        BY <2>1
      <4>2. ivs[1] = orig.infos[N + 1].iv
        BY <1>2, <4>1
      <4> QED
        BY <1>3, <2>1, <2>3, <3>2, <4>2
    <3>3. i \in 1 .. N \/ i = N + 1
      BY <1>1
    <3> QED
      BY <3>1, <3>2, <3>3
  <2> QED
    BY <1>3, <2>5, <2>6, <2>7 DEF M
<1> QED
  BY <1>4, <1>5

(* A stream that was made stays so while the file does.                    *)
LEMMA OrigKept ==
    ASSUME orig.again => Made(orig.infos, orig.blobs, orig.srcLen, orig.complete),
           file' = file, orig' = orig
    PROVE  (orig.again => Made(orig.infos, orig.blobs, orig.srcLen, orig.complete))'
BY SMTT(30) DEF Made, CutAt

(* The start.                                                              *)
LEMMA InitInv == Init => StreamInv
<1> SUFFICES ASSUME Init PROVE StreamInv
  OBVIOUS
<1>1. Len(<<>>) = 0
  BY EmptySeq
<1>2. Typed
  <2>1. orig.complete \in BOOLEAN /\ orig.again \in BOOLEAN
    BY DEF Init, NoStream
  <2> QED
    BY <2>1 DEF Typed, Init, NoStream
<1>3. PICK n \in 0 .. MaxFile : file = [i \in 1 .. n |-> i]
  BY DEF Init
<1>4. n \in Nat /\ file \in [1 .. n -> Nat]
  BY <1>3, ConstantsAssumption
<1>5. file \in Seq(Nat) /\ Len(file) = n
  BY <1>4, IntervalSeq
<1>6. SourceOK
  <2>1. SubSeq(file, 0 + 1, Len(file)) = file
    BY <1>5, SubSeqFull
  <2> QED
    BY <1>3, <1>4, <1>5, <2>1 DEF Init, SourceOK
<1>7. Made(<<>>, <<>>, 0, FALSE)
  <2> DEFINE a == [i \in 1 .. Len(<<>>) + 1 |-> 0]
  <2>1. a \in [1 .. Len(<<>>) + 1 -> 0 .. Len(file)]
    BY <1>4, <1>5
  <2>2. CutAt(<<>>, 0, a)
    BY <1>1 DEF CutAt
  <2> HIDE DEF a
  <2> QED
    BY <1>1, <1>4, <1>5, <2>1, <2>2 DEF Made
<1>8. Made(infos, blobs, srcLen, pc = "eof")
  BY <1>7 DEF Init, Made
<1> QED
  BY <1>2, <1>6, <1>8 DEF StreamInv, Init, NoStream, Presets

(* A read of data.                                                         *)
LEMMA NextBlobInv ==
    ASSUME StreamInv, NEW n \in 1 .. MaxBlobSize, NextBlob(n)
    PROVE  StreamInv'
<1> DEFINE b == NewBlob(SubSeq(rest, 1, n), nextIV)
           info == BlobInfo(Len(infos), b, nextIV)
<1>1. /\ pc = "next" /\ n \in 1 .. Len(rest) /\ n <= maxBlobDataSize
      /\ rest' = SubSeq(rest, n + 1, Len(rest)) /\ srcLen' = srcLen + n
      /\ blobs' = Append(blobs, b) /\ infos' = Append(infos, info) /\ IVUsed
      /\ file' = file /\ pc' = pc /\ orig' = orig
  BY DEF NextBlob, addBlob
<1>2. Typed /\ SourceOK /\ Presets
  BY DEF StreamInv
<1>3. Made(infos, blobs, srcLen, FALSE)
  BY <1>1 DEF StreamInv, Made
<1>4. /\ srcLen + n \in 1 .. Len(file)
      /\ SubSeq(rest, 1, n) = SubSeq(file, srcLen + 1, srcLen + n)
      /\ SubSeq(rest, n + 1, Len(rest)) = SubSeq(file, srcLen + n + 1, Len(file))
  BY <1>1, <1>2, ReadParts
<1>5. nextIV \in Nat /\ ivs' \in Seq(Nat) /\ drawn' \in Nat
  BY <1>1, <1>2, NextIVTypes
<1>6. n \in 1 .. maxBlobDataSize
  BY <1>1, Sizes
<1>7. b = NewBlob(SubSeq(file, srcLen + 1, srcLen + n), nextIV)
  BY <1>4
<1>8. info.iv = nextIV
  BY DEF BlobInfo
<1>9. infos \in Seq(InfoType) /\ blobs \in Seq(BlobType)
  BY <1>2 DEF Typed
<1> HIDE DEF b
<1>10. /\ info \in InfoType /\ b \in BlobType
       /\ Made(infos', blobs', srcLen', FALSE)
  BY <1>1, <1>2, <1>3, <1>4, <1>5, <1>6, <1>7, <1>9, AddsBlob
<1> HIDE DEF info
<1>11. Typed'
  <2>1. infos' \in Seq(InfoType) /\ blobs' \in Seq(BlobType)
    BY <1>1, <1>9, <1>10, AppendProperties
  <2> QED
    BY <1>1, <1>2, <1>5, <2>1 DEF Typed
<1>12. SourceOK'
  <2>1. srcLen' \in 0 .. Len(file') /\ pc' # "eof"
    BY <1>1, <1>4
  <2> QED
    BY <1>1, <1>2, <1>4, <2>1 DEF SourceOK
<1>13. Made(infos, blobs, srcLen, pc = "eof")'
  BY <1>1, <1>10 DEF Made, CutAt
<1>14. Presets'
  BY <1>1, <1>2, <1>8, <1>10, PresetsKept
<1>15. (orig.again => Made(orig.infos, orig.blobs, orig.srcLen, orig.complete))'
  BY <1>1, OrigKept DEF StreamInv
<1> QED
  BY <1>11, <1>12, <1>13, <1>14, <1>15 DEF StreamInv

(* isTerminated tells whether Next has returned io.EOF.                    *)
LEMMA TerminatedAtEOF ==
    ASSUME StreamInv
    PROVE  isTerminated <=> pc = "eof"
<1>1. infos \in Seq(InfoType) /\ blobs \in Seq(BlobType) /\ SourceOK
  BY DEF StreamInv, Typed
<1>2. Len(blobs) \in Nat /\ Len(infos) \in Nat
  BY <1>1, LenProperties
<1>3. CASE pc = "eof"
  <2>1. Made(infos, blobs, srcLen, TRUE)
    BY <1>3 DEF StreamInv, Made
  <2>2. Len(infos) = Len(blobs) + 1 /\ infos[Len(infos)].length = Size(EmptyBlob)
    BY <2>1 DEF Made, BlobInfo
  <2>3. Size(EmptyBlob) = 0 /\ infos # <<>>
    BY <1>2, <2>2, EmptySeq DEF Size, EmptyBlob
  <2> QED
    BY <1>3, <2>2, <2>3 DEF isTerminated
<1>4. CASE pc # "eof"
  <2>1. Made(infos, blobs, srcLen, FALSE)
    BY <1>4 DEF StreamInv, Made
  <2>2. Len(infos) = Len(blobs)
    BY <2>1 DEF Made
  <2>3. ASSUME infos # <<>> PROVE infos[Len(infos)].length # 0
    <3>1. Len(blobs) \in 1 .. Len(blobs)
      BY <1>1, <1>2, <2>2, <2>3, EmptySeq
    <3>2. infos[Len(blobs)].length \in 1 .. MaxBlobSize
      BY <1>1, <2>1, <3>1, StreamInfos
    <3> QED
      BY <2>2, <3>2, Sizes
  <2> QED
    BY <1>4, <2>3 DEF isTerminated
<1> QED
  BY <1>3, <1>4

(* io.EOF, with or without bytes.                                          *)
LEMMA EndInv ==
    ASSUME StreamInv, pc \in {"next", "eof"}, rest' = <<>>, pc' = "eof", ensureTerminated,
           file' = file, srcLen' = srcLen, blobs' = blobs, orig' = orig
    PROVE  StreamInv'
<1>1. Typed /\ SourceOK /\ Presets
  BY DEF StreamInv
<1>2. SourceOK'
  BY <1>1 DEF SourceOK
<1>3. (orig.again => Made(orig.infos, orig.blobs, orig.srcLen, orig.complete))'
  BY OrigKept DEF StreamInv
<1>4. CASE pc = "eof"
  <2>1. infos' = infos /\ ivs' = ivs /\ drawn' = drawn
    BY <1>4, TerminatedAtEOF DEF ensureTerminated
  <2>2. Typed' /\ Presets'
    BY <1>1, <1>4, <2>1 DEF Typed, Presets
  <2>3. Made(infos, blobs, srcLen, pc = "eof")'
    BY <1>4, <2>1 DEF StreamInv, Made, CutAt
  <2> QED
    BY <1>2, <1>3, <2>2, <2>3 DEF StreamInv
<1>5. CASE pc = "next"
  <2> DEFINE info == BlobInfo(Len(infos), EmptyBlob, nextIV)
  <2>1. infos' = Append(infos, info) /\ IVUsed
    BY <1>5, TerminatedAtEOF DEF ensureTerminated, addBlob
  <2>2. nextIV \in Nat /\ ivs' \in Seq(Nat) /\ drawn' \in Nat
    BY <1>1, <2>1, NextIVTypes
  <2>3. Made(infos, blobs, srcLen, FALSE) /\ infos \in Seq(InfoType) /\ blobs \in Seq(BlobType)
    BY <1>1, <1>5 DEF StreamInv, Made, Typed
  <2>4. info \in InfoType /\ Made(infos', blobs, srcLen, TRUE)
    BY <1>1, <2>1, <2>2, <2>3, Terminates
  <2>5. info.iv = nextIV
    BY DEF BlobInfo
  <2> HIDE DEF info
  <2>6. Presets'
    BY <1>1, <1>5, <2>1, <2>4, <2>5, PresetsKept
  <2>7. infos' \in Seq(InfoType)
    BY <2>1, <2>3, <2>4, AppendProperties
  <2>8. Typed'
    BY <1>1, <2>2, <2>7 DEF Typed
  <2>9. Made(infos, blobs, srcLen, pc = "eof")'
    BY <2>4 DEF Made, CutAt
  <2> QED
    BY <1>2, <1>3, <2>6, <2>8, <2>9 DEF StreamInv
<1> QED
  BY <1>4, <1>5

(* A read that fails.                                                      *)
LEMMA FailInv ==
    ASSUME StreamInv, pc = "next", pc' = "failed", infos' = infos, blobs' = blobs, srcLen' = srcLen,
           file' = file, rest' = rest, orig' = orig, ivs' \in Seq(Nat), drawn' \in Nat
    PROVE  StreamInv'
<1>1. Typed' /\ SourceOK' /\ Presets'
  BY DEF StreamInv, Typed, SourceOK, Presets
<1>2. (orig.again => Made(orig.infos, orig.blobs, orig.srcLen, orig.complete))'
  BY OrigKept DEF StreamInv
<1>3. Made(infos, blobs, srcLen, pc = "eof")'
  BY DEF StreamInv, Made, CutAt
<1> QED
  BY <1>1, <1>2, <1>3 DEF StreamInv

(* NewEncoderFromSD.                                                       *)
LEMMA AgainInv ==
    ASSUME StreamInv, Again
    PROVE  StreamInv'
<1>1. /\ pc \in {"next", "eof"} /\ file' = file /\ drawn' = drawn /\ pc' = "next"
      /\ orig' = [infos |-> infos, blobs |-> blobs, srcLen |-> srcLen,
                  complete |-> pc = "eof", again |-> TRUE]
      /\ ivs' = [i \in DOMAIN infos |-> infos[i].iv]
      /\ rest' = file /\ srcLen' = 0 /\ infos' = <<>> /\ blobs' = <<>>
  BY DEF Again
<1>2. Typed /\ SourceOK /\ Made(infos, blobs, srcLen, pc = "eof")
  BY DEF StreamInv
<1>3. infos \in Seq(InfoType) /\ blobs \in Seq(BlobType)
  BY <1>2 DEF Typed
<1>4. PICK N \in Nat : N = Len(infos) /\ DOMAIN infos = 1 .. N
  BY <1>3, LenProperties
<1>5. \A i \in 1 .. N : infos[i].iv \in Nat
  <2>1. \A i \in 1 .. N : infos[i] \in InfoType
    BY <1>3, <1>4, ElementOfSeq
  <2> QED
    BY <2>1 DEF InfoType
<1>6. ivs' \in [1 .. N -> Nat] /\ \A i \in 1 .. N : ivs'[i] = infos[i].iv
  BY <1>1, <1>4, <1>5
<1>7. ivs' \in Seq(Nat) /\ Len(ivs') = N
  BY <1>6, IntervalSeq
<1>8. Len(<<>>) = 0
  BY EmptySeq
<1>9. file \in Seq(Nat) /\ Len(file) \in Nat
  BY <1>2, FileBytes
<1>10. srcLen \in Nat
  BY <1>2, <1>9 DEF SourceOK
<1>11. Typed'
  <2>1. (pc = "eof") \in BOOLEAN
    OBVIOUS
  <2>2. orig' \in [infos : Seq(InfoType), blobs : Seq(BlobType), srcLen : Nat,
                   complete : BOOLEAN, again : BOOLEAN]
    BY <1>1, <1>3, <1>10, <2>1
  <2> QED
    BY <1>1, <1>2, <1>7, <2>2 DEF Typed
<1>12. SourceOK'
  <2>1. SubSeq(file, 0 + 1, Len(file)) = file
    BY <1>9, SubSeqFull
  <2> QED
    BY <1>1, <1>2, <1>9, <2>1 DEF SourceOK
<1>13. Made(infos, blobs, srcLen, pc = "eof")'
  <2> DEFINE a == [i \in 1 .. Len(<<>>) + 1 |-> 0]
  <2>1. a \in [1 .. Len(<<>>) + 1 -> 0 .. Len(file)]
    BY <1>9
  <2>2. a[1] = 0 /\ a[Len(<<>>) + 1] = 0
    BY <1>8
  <2> HIDE DEF a
  <2> QED
    BY <1>1, <1>8, <1>9, <2>1, <2>2 DEF Made, CutAt
<1>14. (orig.again => Made(orig.infos, orig.blobs, orig.srcLen, orig.complete))'
  <2>1. PICK is, bs, len, e : is = infos /\ bs = blobs /\ len = srcLen /\ e = (pc = "eof")
    OBVIOUS
  <2>2. orig'.infos = is /\ orig'.blobs = bs /\ orig'.srcLen = len /\ orig'.complete = e
    BY <1>1, <2>1
  <2>3. Made(is, bs, len, e)
    BY <1>2, <2>1
  <2>4. Made(is, bs, len, e)'
    BY <1>1, <2>3 DEF Made, CutAt
  <2> QED
    BY <2>2, <2>4 DEF Made, CutAt
<1>15. Presets'
  <2>1. orig'.infos = infos
    BY <1>1
  <2> QED
    BY <1>1, <1>4, <1>6, <1>7, <1>8, <2>1 DEF Presets
<1> QED
  BY <1>11, <1>12, <1>13, <1>14, <1>15 DEF StreamInv

(* Every step, and every step of something else.                           *)
LEMMA NextInv == StreamInv /\ [Next]_vars => StreamInv'
<1> SUFFICES ASSUME StreamInv, [Next]_vars PROVE StreamInv'
  OBVIOUS
<1>1. ASSUME NEW n \in 1 .. MaxBlobSize, NextBlob(n) PROVE StreamInv'
  BY <1>1, NextBlobInv
<1>2. CASE NextEOF
  BY <1>2, EndInv DEF NextEOF, source
<1>3. CASE NextLast
  BY <1>3, EndInv DEF NextLast
<1>4. CASE NextFails
  BY <1>4, FailInv DEF NextFails, source, StreamInv, Typed
<1>5. CASE NextEmpty
  <2>1. ivs' \in Seq(Nat) /\ drawn' \in Nat
    BY <1>5, NextIVTypes DEF NextEmpty, StreamInv
  <2> QED
    BY <1>5, <2>1, FailInv DEF NextEmpty, source
<1>6. CASE Again
  BY <1>6, AgainInv
<1>7. CASE UNCHANGED vars
  <2>1. /\ file' = file /\ rest' = rest /\ srcLen' = srcLen /\ ivs' = ivs /\ drawn' = drawn
        /\ infos' = infos /\ blobs' = blobs /\ pc' = pc /\ orig' = orig
    BY <1>7 DEF vars, source
  <2>2. Typed' /\ SourceOK' /\ Presets'
    BY <2>1 DEF StreamInv, Typed, SourceOK, Presets
  <2>3. (orig.again => Made(orig.infos, orig.blobs, orig.srcLen, orig.complete))'
    BY <2>1, OrigKept DEF StreamInv
  <2>4. Made(infos, blobs, srcLen, pc = "eof")'
    BY <2>1 DEF StreamInv, Made, CutAt
  <2> QED
    BY <2>2, <2>3, <2>4 DEF StreamInv
<1> QED
  BY <1>1, <1>2, <1>3, <1>4, <1>5, <1>6, <1>7 DEF Next

(* Whatever the source returns, what the encoder of package stream has     *)
(* made at any time is a stream of the first SourceLen bytes, and one that *)
(* is made by NewEncoderFromSD uses the IVs of the first in their order.   *)
THEOREM StreamInvariance == Spec => []StreamInv
<1>1. Init => StreamInv
  BY InitInv
<1>2. StreamInv /\ [Next]_vars => StreamInv'
  BY NextInv
<1> QED
  BY <1>1, <1>2, PTL DEF Spec

-----------------------------------------------------------------------------
(* What Decode makes of a stream.                                          *)

(* What StreamInv says of a stream that is complete.                            *)
LEMMA Complete ==
    ASSUME StreamInv, pc = "eof"
    PROVE  /\ SourceOK /\ infos \in Seq(InfoType) /\ blobs \in Seq(BlobType)
           /\ Made(infos, blobs, srcLen, TRUE)
           /\ srcLen > 0 => Len(blobs) # 0
<1>1. SourceOK /\ infos \in Seq(InfoType) /\ blobs \in Seq(BlobType)
  BY DEF StreamInv, Typed
<1>2. Made(infos, blobs, srcLen, TRUE)
  BY DEF StreamInv, Made
<1>3. srcLen > 0 => Len(blobs) # 0
  <2>1. PICK a \in [1 .. Len(blobs) + 1 -> 0 .. Len(file)] : CutAt(blobs, srcLen, a)
    BY <1>2 DEF Made
  <2>2. a[1] = 0 /\ a[Len(blobs) + 1] = srcLen
    BY <2>1 DEF CutAt
  <2> QED
    BY <2>2
<1> QED
  BY <1>1, <1>2, <1>3

(* Decode returns the bytes that SourceLen counts from every stream with   *)
(* data that the encoder has ended, and every blob can be sent.            *)
THEOREM RoundTripHolds == Spec => []RoundTrip
<1>1. ASSUME StreamInv PROVE TypeOK
  <2>1. SourceOK /\ infos \in Seq(InfoType) /\ blobs \in Seq(BlobType) /\ pc \in {"next", "eof", "failed"}
    BY <1>1 DEF StreamInv, Typed
  <2>2. Len(file) <= MaxFile /\ srcLen \in 0 .. Len(file)
    BY <2>1, FileBytes, ConstantsAssumption DEF SourceOK
  <2>3. Len(infos) \in {Len(blobs), Len(blobs) + 1}
    BY <1>1 DEF StreamInv, Made
  <2>4. PICK a \in [1 .. Len(blobs) + 1 -> 0 .. Len(file)] : CutAt(blobs, srcLen, a)
    BY <1>1 DEF StreamInv, Made
  <2>5. \A i \in 1 .. Len(blobs) : Size(blobs[i]) \in 1 .. MaxBlobSize
    BY <2>1, <2>4, PieceProperties
  <2>6. DOMAIN blobs = 1 .. Len(blobs)
    BY <2>1, LenProperties
  <2> QED
    BY <2>1, <2>2, <2>3, <2>5, <2>6 DEF TypeOK
<1>2. ASSUME StreamInv, pc = "eof", srcLen > 0
      PROVE  Decode(ToBlob(infos), blobs) = SubSeq(file, 1, srcLen)
  BY <1>2, Complete, StreamDecodes
<1>3. StreamInv => RoundTrip
  BY <1>1, <1>2 DEF RoundTrip
<1> QED
  BY <1>3, StreamInvariance, PTL

(* Decode returns the right bytes or an error, for all sequences of blobs. *)
AnyDamageDetected ==
    pc = "eof" => \A bs \in Seq(BlobType) :
        Decode(ToBlob(infos), bs) \in {Error, SubSeq(file, 1, srcLen)}

(* With the sd blob of a complete stream only its own blobs decode.        *)
LEMMA DamageAlwaysSeen == StreamInv => AnyDamageDetected
<1> SUFFICES ASSUME StreamInv, pc = "eof", NEW bs \in Seq(BlobType), Decode(ToBlob(infos), bs) # Error
             PROVE  Decode(ToBlob(infos), bs) = SubSeq(file, 1, srcLen)
  BY DEF AnyDamageDetected
<1>1. /\ SourceOK /\ infos \in Seq(InfoType) /\ blobs \in Seq(BlobType)
      /\ Made(infos, blobs, srcLen, TRUE)
  BY Complete
<1>2. bs = blobs /\ Len(blobs) # 0
  BY <1>1, OnlyItsBlobsDecode
<1> QED
  BY <1>1, <1>2, StreamDecodes

(* Decode, given the sd blob of a stream and any blobs at all, returns the *)
(* bytes of the stream or an error.                                        *)
THEOREM OtherBlobsRefused == Spec => []AnyDamageDetected
BY StreamInvariance, DamageAlwaysSeen, PTL

(* In particular if a download exchanged, repeated or lost blobs.          *)
THEOREM DamageSeen == Spec => []DamageDetected
<1>1. ASSUME StreamInv PROVE Received \subseteq Seq(BlobType)
  <2>1. blobs \in Seq(BlobType)
    BY <1>1 DEF StreamInv, Typed
  <2>2. PICK N \in Nat : N = Len(blobs) /\ DOMAIN blobs = 1 .. N
    BY <2>1, LenProperties
  <2>3. \A i \in 1 .. N : blobs[i] \in BlobType
    BY <2>1, <2>2, ElementOfSeq
  <2>4. ASSUME NEW i \in DOMAIN blobs, NEW j \in DOMAIN blobs, NEW k \in DOMAIN blobs, NEW l \in DOMAIN blobs
        PROVE  [blobs EXCEPT ![i] = blobs[k], ![j] = blobs[l]] \in Seq(BlobType)
    <3>1. blobs \in [1 .. N -> BlobType]
      BY <2>1, <2>2, LenProperties
    <3>2. [blobs EXCEPT ![i] = blobs[k], ![j] = blobs[l]] \in [1 .. N -> BlobType]
      BY <3>1, <2>2, <2>3
    <3> QED
      BY <3>2, <2>2, IntervalSeq
  <2>5. ASSUME NEW n \in 0 .. Len(blobs) PROVE SubSeq(blobs, 1, n) \in Seq(BlobType)
    <3>1. \A i \in 1 .. n : blobs[i] \in BlobType
      BY <2>2, <2>3
    <3> QED
      BY <2>2, <3>1, SubSeqProperties
  <2> QED
    BY <2>4, <2>5 DEF Received
<1>2. StreamInv => DamageDetected
  BY <1>1, DamageAlwaysSeen DEF DamageDetected, AnyDamageDetected
<1> QED
  BY <1>2, StreamInvariance, PTL

-----------------------------------------------------------------------------
(* Making a stream again.                                                  *)

(* The cuts go up.                                                         *)
LEMMA CutsIncrease ==
    ASSUME SourceOK, NEW bs \in Seq(BlobType), NEW len,
           NEW a \in [1 .. Len(bs) + 1 -> 0 .. Len(file)], CutAt(bs, len, a),
           NEW i \in 1 .. Len(bs) + 1, NEW j \in 1 .. Len(bs) + 1, i < j
    PROVE  a[i] < a[j]
<1> DEFINE N == Len(bs)
           T == {k \in 1 .. N + 1 : i < k /\ ~ (a[i] < a[k])}
<1>1. N \in Nat /\ Len(file) \in Nat
  BY LenProperties, FileBytes
<1>2. \A k \in 1 .. N + 1 : a[k] \in Nat
  BY <1>1
<1>3. \A k \in 1 .. N : a[k] < a[k + 1]
  <2>1. \A k \in 1 .. N : a[k] \in 0 .. Len(file) /\ a[k + 1] \in a[k] + 1 .. Len(file)
    BY PieceProperties
  <2> QED
    BY <1>1, <2>1
<1> HIDE DEF N
<1>4. T = {}
  <2> SUFFICES ASSUME T # {} PROVE FALSE
    OBVIOUS
  <2>1. T \subseteq Nat
    BY <1>1
  <2>2. PICK k \in T : \A l \in T : k <= l
    <3> HIDE DEF T
    <3> QED
      BY <2>1, SmallestElement
  <2>3. k \in 1 .. N + 1 /\ i < k /\ ~ (a[i] < a[k]) /\ i \in 1 .. N + 1
    BY DEF N
  <2>4. k - 1 \in 1 .. N /\ k - 1 \in 1 .. N + 1 /\ (k - 1) + 1 = k /\ i <= k - 1
    BY <1>1, <2>3
  <2>5. a[k - 1] < a[k]
    BY <1>3, <2>4
  <2>6. CASE i = k - 1
    BY <2>3, <2>5, <2>6
  <2>7. CASE i # k - 1
    <3>1. k - 1 \notin T
      BY <1>1, <2>2, <2>3
    <3>2. i < k - 1
      BY <2>3, <2>4, <2>7
    <3>3. a[i] < a[k - 1]
      BY <2>4, <3>1, <3>2
    <3> QED
      BY <1>2, <2>3, <2>4, <2>5, <3>3
  <2> QED
    BY <2>6, <2>7
<1> QED
  BY <1>4 DEF N

(* A full blob holds maxBlobDataSize bytes.                                *)
LEMMA FullPiece ==
    ASSUME SourceOK, NEW bs \in Seq(BlobType), NEW len,
           NEW a \in [1 .. Len(bs) + 1 -> 0 .. Len(file)], CutAt(bs, len, a),
           NEW i \in 1 .. Len(bs), Full(bs[i])
    PROVE  a[i + 1] = a[i] + maxBlobDataSize
<1>1. /\ a[i] \in 0 .. Len(file) /\ a[i + 1] \in a[i] + 1 .. Len(file)
      /\ Plaintext(bs[i], bs[i].iv) = SubSeq(file, a[i] + 1, a[i + 1])
      /\ Len(SubSeq(file, a[i] + 1, a[i + 1])) = a[i + 1] - a[i]
  BY PieceProperties
<1>2. a[i + 1] - a[i] = maxBlobDataSize
  BY <1>1 DEF Full
<1>3. Len(file) \in Nat
  BY FileBytes
<1> QED
  BY <1>1, <1>2, <1>3, Sizes

(* Places that advance by M, and places that are the same.                 *)
Steady(a, K, M)   == \A i \in 1 .. K : a[i + 1] = a[i] + M
Together(a, c, K) == \A i \in 1 .. K + 1 : a[i] = c[i]

(* Places that start together and advance by the same steps stay together. *)
LEMMA SameSteps ==
    ASSUME NEW a, NEW c, NEW K \in Nat, NEW M, a[1] = c[1], Steady(a, K, M), Steady(c, K, M)
    PROVE  Together(a, c, K)
<1> DEFINE T == {k \in 1 .. K + 1 : a[k] # c[k]}
<1>1. T = {}
  <2> SUFFICES ASSUME T # {} PROVE FALSE
    OBVIOUS
  <2>1. T \subseteq Nat
    OBVIOUS
  <2>2. PICK k \in T : \A l \in T : k <= l
    <3> HIDE DEF T
    <3> QED
      BY <2>1, SmallestElement
  <2>3. k \in 1 .. K + 1 /\ a[k] # c[k] /\ k # 1
    OBVIOUS
  <2>4. k - 1 \in 1 .. K /\ k - 1 \in 1 .. K + 1 /\ (k - 1) + 1 = k /\ ~ (k <= k - 1)
    BY <2>3
  <2>5. a[k - 1] = c[k - 1]
    BY <2>2, <2>4
  <2>6. a[(k - 1) + 1] = a[k - 1] + M /\ c[(k - 1) + 1] = c[k - 1] + M
    BY <2>4 DEF Steady
  <2>7. a[k] = c[k]
    BY <2>4, <2>5, <2>6
  <2> QED
    BY <2>3, <2>7
<1> QED
  BY <1>1 DEF Together

(* All blobs are full, but for the last one of a stream that has ended.    *)
AllFull(bs, ended) == \A i \in 1 .. Len(bs) : Full(bs[i]) \/ (ended /\ i = Len(bs))

(* The stream that is made again has the blobs of the first one at the     *)
(* same places.                                                            *)
LEMMA SamePlaces ==
    ASSUME SourceOK, NEW bs \in Seq(BlobType), NEW cs \in Seq(BlobType), NEW clen,
           NEW a \in [1 .. Len(bs) + 1 -> 0 .. Len(file)], CutAt(bs, Len(file), a),
           NEW c \in [1 .. Len(cs) + 1 -> 0 .. Len(file)], CutAt(cs, clen, c),
           NEW complete \in BOOLEAN, complete => clen = Len(file),
           AllFull(bs, TRUE), AllFull(cs, complete)
    PROVE  /\ Len(cs) <= Len(bs)
           /\ \A i \in 1 .. Len(cs) + 1 : a[i] = c[i]
           /\ complete => Len(cs) = Len(bs)
<1> DEFINE n == Len(bs)
           m == Len(cs)
           F == Len(file)
           M == maxBlobDataSize
<1>1. n \in Nat /\ m \in Nat /\ F \in Nat /\ M \in Nat
  BY LenProperties, FileBytes, Sizes
<1>2. a[1] = 0 /\ c[1] = 0 /\ a[n + 1] = F /\ c[m + 1] = clen
  BY DEF CutAt
<1>3. /\ \A i \in 1 .. n + 1 : a[i] \in 0 .. F
      /\ \A i \in 1 .. m + 1 : c[i] \in 0 .. F
  OBVIOUS
<1>4. /\ \A i, j \in 1 .. n + 1 : i < j => a[i] < a[j]
      /\ \A i, j \in 1 .. m + 1 : i < j => c[i] < c[j]
  BY CutsIncrease
<1>5. /\ \A i \in 1 .. n : a[i + 1] <= a[i] + M
      /\ \A i \in 1 .. m : c[i + 1] <= c[i] + M
  <2>1. /\ \A i \in 1 .. n : a[i + 1] - a[i] \in 1 .. M
        /\ \A i \in 1 .. m : c[i + 1] - c[i] \in 1 .. M
    BY DEF CutAt
  <2>2. ASSUME NEW i \in 1 .. n PROVE a[i + 1] <= a[i] + M
    <3>1. i \in 1 .. n + 1 /\ i + 1 \in 1 .. n + 1
      BY <1>1
    <3>2. a[i] \in 0 .. F /\ a[i + 1] \in 0 .. F
      BY <1>3, <3>1
    <3>3. a[i + 1] - a[i] \in 1 .. M
      BY <2>1
    <3> HIDE DEF F, M
    <3> QED
      BY <1>1, <3>2, <3>3
  <2>3. ASSUME NEW i \in 1 .. m PROVE c[i + 1] <= c[i] + M
    <3>1. i \in 1 .. m + 1 /\ i + 1 \in 1 .. m + 1
      BY <1>1
    <3>2. c[i] \in 0 .. F /\ c[i + 1] \in 0 .. F
      BY <1>3, <3>1
    <3>3. c[i + 1] - c[i] \in 1 .. M
      BY <2>1
    <3> HIDE DEF F, M
    <3> QED
      BY <1>1, <3>2, <3>3
  <2> QED
    BY <2>2, <2>3
<1>6. /\ \A i \in 1 .. n - 1 : a[i + 1] = a[i] + M
      /\ \A i \in 1 .. m : c[i + 1] = c[i] + M \/ (complete /\ i = m)
  <2>1. ASSUME NEW i \in 1 .. n - 1 PROVE a[i + 1] = a[i] + M
    <3>1. i \in 1 .. n /\ i # n
      BY <1>1
    <3>2. Full(bs[i])
      BY <3>1 DEF AllFull
    <3> QED
      BY <3>1, <3>2, FullPiece
  <2>2. ASSUME NEW i \in 1 .. m PROVE c[i + 1] = c[i] + M \/ (complete /\ i = m)
    <3>1. Full(cs[i]) \/ (complete /\ i = m)
      BY DEF AllFull
    <3> QED
      BY <3>1, FullPiece
  <2> QED
    BY <2>1, <2>2
<1>7. ASSUME NEW k \in Nat, k >= 1, k <= n, k <= m
      PROVE  \A i \in 1 .. k : a[i] = c[i]
  <2> HIDE DEF n, m, F, M
  <2>1. PICK K \in Nat : k = K + 1
    <3>1. k - 1 \in Nat /\ k = (k - 1) + 1
      BY <1>7
    <3> QED
      BY <3>1
  <2>2. ASSUME NEW i \in 1 .. K PROVE a[i + 1] = a[i] + M /\ c[i + 1] = c[i] + M
    <3>1. i \in 1 .. n - 1 /\ i \in 1 .. m /\ i # m
      BY <1>1, <1>7, <2>1
    <3> QED
      BY <1>6, <3>1
  <2> QED
    <3>1. a[1] = c[1] /\ Steady(a, K, M) /\ Steady(c, K, M)
      BY <1>2, <2>2 DEF Steady
    <3>2. Together(a, c, K)
      BY <3>1, SameSteps, Zenon
    <3> QED
      BY <2>1, <3>2 DEF Together
<1> HIDE DEF n, m, F, M
<1>8. CASE m = 0
  <2>1. ASSUME complete PROVE n = 0
    <3>1. a[n + 1] = 0
      BY <1>2, <1>8, <2>1 DEF F
    <3>2. 1 \in 1 .. n + 1 /\ n + 1 \in 1 .. n + 1
      BY <1>1
    <3>3. ~ (1 < n + 1)
      BY <1>2, <1>4, <3>1, <3>2
    <3> QED
      BY <1>1, <3>3
  <2>2. \A i \in 1 .. m + 1 : a[i] = c[i]
    BY <1>2, <1>8
  <2> QED
    BY <1>1, <1>8, <2>1, <2>2 DEF n, m
<1>9. CASE n = 0 /\ m # 0
  <2>1. F = 0
    BY <1>2, <1>9
  <2>2. 1 \in 1 .. m + 1 /\ m + 1 \in 1 .. m + 1 /\ 1 < m + 1
    BY <1>1, <1>9
  <2>3. c[1] < c[m + 1] /\ c[m + 1] \in 0 .. F
    BY <1>3, <1>4, <2>2
  <2> QED
    BY <1>2, <2>1, <2>3
<1>10. CASE n # 0 /\ m # 0
  <2>1. n >= 1 /\ m >= 1
    BY <1>1, <1>10
  <2>2. m <= n
    <3> SUFFICES ASSUME n < m PROVE FALSE
      BY <1>1
    <3>1. n <= n /\ n <= m /\ n \in 1 .. n /\ n \in 1 .. m /\ n # m /\ n \in 1 .. n + 1
          /\ n \in 1 .. m + 1 /\ n + 1 \in 1 .. m + 1 /\ m + 1 \in 1 .. m + 1 /\ n + 1 < m + 1
      BY <1>1, <2>1
    <3>2. a[n] = c[n]
      BY <1>1, <1>7, <2>1, <3>1
    <3>3. c[n + 1] = c[n] + M /\ a[n + 1] <= a[n] + M
      BY <1>5, <1>6, <3>1
    <3>4. c[n + 1] < c[m + 1] /\ c[m + 1] \in 0 .. F /\ c[n + 1] \in 0 .. F
      BY <1>3, <1>4, <3>1
    <3>5. F <= c[n + 1]
      BY <1>2, <3>2, <3>3
    <3> QED
      BY <1>1, <3>4, <3>5
  <2>3. \A i \in 1 .. m : a[i] = c[i]
    <3>1. m <= m
      BY <1>1
    <3> QED
      BY <1>1, <1>7, <2>1, <2>2, <3>1
  <2>4. m \in 1 .. m /\ m \in 1 .. n /\ m \in 1 .. m + 1 /\ m + 1 \in 1 .. m + 1 /\ m + 1 \in 1 .. n + 1
        /\ n + 1 \in 1 .. n + 1
    BY <1>1, <2>1, <2>2
  <2>5. a[m] = c[m] /\ c[m] \in 0 .. F /\ c[m + 1] \in 0 .. F /\ a[m + 1] \in 0 .. F
    BY <1>3, <2>3, <2>4
  <2>6. c[m + 1] <= c[m] + M /\ a[m + 1] <= a[m] + M
    BY <1>5, <2>4
  <2>7. c[m + 1] = c[m] + M \/ complete
    BY <1>6, <2>4
  <2>8. complete => c[m + 1] = F
    BY <1>2 DEF F
  <2>9. CASE m < n
    <3>1. a[m + 1] = a[m] + M
      <4>1. m \in 1 .. n - 1
        BY <1>1, <2>1, <2>9
      <4> QED
        BY <1>6, <4>1
    <3>2. a[m + 1] < F
      <4>1. m + 1 < n + 1
        BY <1>1, <2>9
      <4> QED
        BY <1>2, <1>4, <2>4, <4>1
    <3>3. ~ complete
      BY <1>1, <2>5, <2>6, <2>8, <3>1, <3>2
    <3>4. a[m + 1] = c[m + 1]
      BY <2>5, <2>7, <3>1, <3>3
    <3>5. \A i \in 1 .. m + 1 : a[i] = c[i]
      <4>1. \A i \in 1 .. m + 1 : i \in 1 .. m \/ i = m + 1
        BY <1>1
      <4> QED
        BY <2>3, <3>4, <4>1
    <3> QED
      BY <2>2, <3>3, <3>5 DEF n, m
  <2>10. CASE m = n
    <3>1. a[m + 1] = F
      BY <1>2, <2>10
    <3>2. a[m + 1] = c[m + 1]
      BY <1>1, <2>5, <2>6, <2>7, <2>8, <3>1
    <3>3. \A i \in 1 .. m + 1 : a[i] = c[i]
      <4>1. \A i \in 1 .. m + 1 : i \in 1 .. m \/ i = m + 1
        BY <1>1
      <4> QED
        BY <2>3, <3>2, <4>1
    <3> QED
      BY <2>2, <2>10, <3>3 DEF n, m
  <2> QED
    BY <1>1, <2>2, <2>9, <2>10
<1> QED
  BY <1>8, <1>9, <1>10

(* What a prefix is, element by element.                                   *)
LEMMA PrefixByElement ==
    ASSUME NEW S, NEW s \in Seq(S), NEW t \in Seq(S), Len(s) <= Len(t),
           \A i \in 1 .. Len(s) : s[i] = t[i]
    PROVE  IsPrefix(s, t)
<1>1. Len(s) \in Nat /\ Len(t) \in Nat
  BY LenProperties
<1>2. SubSeq(s, 1, Len(s)) = s
  BY SubSeqFull
<1>3. \A i \in 1 .. Len(s) : t[i] \in S
  <2>1. \A i \in 1 .. Len(t) : t[i] \in S
    BY ElementOfSeq
  <2> QED
    BY <1>1, <2>1
<1>4. /\ SubSeq(t, 1, Len(s)) \in Seq(S)
      /\ Len(SubSeq(t, 1, Len(s))) = Len(s)
      /\ \A i \in 1 .. Len(s) : SubSeq(t, 1, Len(s))[i] = t[i]
  BY <1>1, <1>3, SubSeqProperties, Z3
<1>5. SubSeq(t, 1, Len(s)) = s
  BY <1>4, SeqEqual
<1> QED
  BY <1>2, <1>5 DEF IsPrefix

(* NewEncoderFromSD makes the same stream of the same file again, from a   *)
(* complete sd blob or a part of one, under the condition its comment      *)
(* states.                                                                 *)
THEOREM ReconstructsExactly == Spec => []Reconstructs
<1>1. ASSUME StreamInv, pc = "eof", orig.again, srcLen = Len(file),
             orig.complete => orig.srcLen = Len(file),
             \A i \in 1 .. Len(blobs) - 1 : Full(blobs[i]),
             \A i \in 1 .. Len(orig.blobs) :
                Full(orig.blobs[i]) \/ (orig.complete /\ i = Len(orig.blobs))
      PROVE  /\ IsPrefix(orig.blobs, blobs)
             /\ IsPrefix(orig.infos, infos)
             /\ orig.complete => infos = orig.infos
  <2> DEFINE bs == blobs
             is == infos
             cs == orig.blobs
             js == orig.infos
             n == Len(bs)
             m == Len(cs)
  <2>1. /\ SourceOK /\ Presets /\ is \in Seq(InfoType) /\ bs \in Seq(BlobType)
        /\ js \in Seq(InfoType) /\ cs \in Seq(BlobType) /\ orig.complete \in BOOLEAN
    BY <1>1 DEF StreamInv, Typed
  <2>2. Made(is, bs, srcLen, TRUE) /\ Made(js, cs, orig.srcLen, orig.complete)
    BY <1>1, Complete DEF StreamInv
  <2>3. PICK a \in [1 .. n + 1 -> 0 .. Len(file)] : CutAt(bs, Len(file), a)
    BY <1>1, <2>2 DEF Made
  <2>4. PICK c \in [1 .. m + 1 -> 0 .. Len(file)] : CutAt(cs, orig.srcLen, c)
    BY <2>2 DEF Made
  <2>5. n \in Nat /\ m \in Nat
    BY <2>1, LenProperties
  <2>6. m <= n /\ (\A i \in 1 .. m + 1 : a[i] = c[i]) /\ (orig.complete => m = n)
    <3> DEFINE clen == orig.srcLen
               complete == orig.complete
    <3>1. /\ complete => clen = Len(file)
          /\ AllFull(bs, TRUE) /\ AllFull(cs, complete)
      <4>1. \A i \in 1 .. Len(bs) : i \in 1 .. Len(bs) - 1 \/ i = Len(bs)
        BY <2>5
      <4> QED
        BY <1>1, <4>1 DEF AllFull
    <3>2. /\ SourceOK /\ bs \in Seq(BlobType) /\ cs \in Seq(BlobType) /\ complete \in BOOLEAN
          /\ a \in [1 .. Len(bs) + 1 -> 0 .. Len(file)] /\ CutAt(bs, Len(file), a)
          /\ c \in [1 .. Len(cs) + 1 -> 0 .. Len(file)] /\ CutAt(cs, clen, c)
      BY <2>1, <2>3, <2>4
    <3> HIDE DEF bs, cs, clen, complete
    <3>3. /\ Len(cs) <= Len(bs)
          /\ \A i \in 1 .. Len(cs) + 1 : a[i] = c[i]
          /\ complete => Len(cs) = Len(bs)
      BY <3>1, <3>2, SamePlaces
    <3> QED
      BY <3>3 DEF complete
  <2>7. Len(is) = n + 1 /\ Len(js) = (IF orig.complete THEN m + 1 ELSE m)
    BY <2>2 DEF Made
  <2>8. \A i \in 1 .. Len(is) : i <= Len(js) => is[i].iv = js[i].iv
    BY <1>1, <2>1 DEF Presets
  <2>9. ASSUME NEW i \in 1 .. m PROVE cs[i] = bs[i] /\ js[i] = is[i]
    <3>1. i \in 1 .. n /\ i \in 1 .. n + 1 /\ i \in 1 .. m + 1 /\ i + 1 \in 1 .. m + 1
          /\ i <= m /\ i <= m + 1
      BY <2>5, <2>6
    <3>2. is[i].iv = js[i].iv
      BY <2>7, <2>8, <3>1
    <3>3. is[i].iv = bs[i].iv
      BY <2>1, <2>2, <3>1, StreamInfos
    <3>4. js[i].iv = cs[i].iv
      BY <2>1, <2>2, StreamInfos
    <3>5. bs[i] = NewBlob(SubSeq(file, a[i] + 1, a[i + 1]), bs[i].iv)
      BY <2>3, <3>1 DEF CutAt
    <3>6. cs[i] = NewBlob(SubSeq(file, c[i] + 1, c[i + 1]), cs[i].iv)
      BY <2>4 DEF CutAt
    <3>7. cs[i] = bs[i]
      BY <2>6, <3>1, <3>2, <3>3, <3>4, <3>5, <3>6
    <3>8. is[i] = BlobInfo(i - 1, bs[i], bs[i].iv) /\ js[i] = BlobInfo(i - 1, cs[i], cs[i].iv)
      BY <2>2, <3>1 DEF Made
    <3> QED
      BY <3>7, <3>8
  <2>10. ASSUME orig.complete PROVE js[m + 1] = is[m + 1]
    <3>1. m = n /\ Len(is) = m + 1 /\ Len(js) = m + 1
      BY <2>6, <2>7, <2>10
    <3>2. is[m + 1].iv = js[m + 1].iv
      BY <2>5, <2>8, <3>1
    <3>3. /\ is[m + 1] = BlobInfo(m, EmptyBlob, is[m + 1].iv)
          /\ js[m + 1] = BlobInfo(m, EmptyBlob, js[m + 1].iv)
      BY <2>2, <2>10, <3>1 DEF Made
    <3> QED
      BY <3>2, <3>3
  <2>11. Len(js) <= Len(is) /\ (orig.complete => Len(js) = Len(is))
    BY <2>5, <2>6, <2>7
  <2>12. \A i \in 1 .. Len(js) : js[i] = is[i]
    <3>1. CASE orig.complete
      <4>1. \A i \in 1 .. m + 1 : i \in 1 .. m \/ i = m + 1
        BY <2>5
      <4> QED
        BY <2>7, <2>9, <2>10, <3>1, <4>1
    <3>2. CASE ~ orig.complete
      BY <2>7, <2>9, <3>2
    <3> QED
      BY <3>1, <3>2
  <2> HIDE DEF bs, is, cs, js, n, m
  <2>13. IsPrefix(cs, bs)
    BY <2>1, <2>6, <2>9, PrefixByElement DEF n, m
  <2>14. IsPrefix(js, is)
    BY <2>1, <2>11, <2>12, PrefixByElement
  <2>15. orig.complete => is = js
    BY <2>1, <2>11, <2>12, SeqEqual
  <2> QED
    BY <2>13, <2>14, <2>15 DEF bs, is, cs, js
<1>2. StreamInv => Reconstructs
  BY <1>1 DEF Reconstructs
<1> QED
  BY <1>2, StreamInvariance, PTL


-----------------------------------------------------------------------------
(* Messages.                                                               *)

(* Functions that are put together.                                        *)
LEMMA Joined ==
    ASSUME NEW f, NEW g
    PROVE  /\ DOMAIN (f ++ g) = DOMAIN f \cup DOMAIN g
           /\ \A x \in DOMAIN f : (f ++ g)[x] = f[x]
           /\ \A x \in DOMAIN g : x \notin DOMAIN f => (f ++ g)[x] = g[x]
BY DEF ++

(* A dictionary of one entry.                                              *)
LEMMA Single ==
    ASSUME NEW k, NEW v
    PROVE  DOMAIN Entry(k, v) = {k} /\ Entry(k, v)[k] = v
BY DEF Entry

(* The kinds of bencoded values.                                           *)
LEMMA Kinds ==
    ASSUME NEW x
    PROVE  /\ IsStr(StrValue(x)) /\ ~IsInt(StrValue(x)) /\ ~IsList(StrValue(x)) /\ ~IsDict(StrValue(x))
           /\ IsInt(IntValue(x)) /\ ~IsStr(IntValue(x)) /\ ~IsList(IntValue(x)) /\ ~IsDict(IntValue(x))
           /\ IsList(ListValue(x)) /\ ~IsStr(ListValue(x)) /\ ~IsInt(ListValue(x)) /\ ~IsDict(ListValue(x))
           /\ IsDict(DictValue(x)) /\ ~IsStr(DictValue(x)) /\ ~IsInt(DictValue(x)) /\ ~IsList(DictValue(x))
           /\ StrValue(x).s = x /\ IntValue(x).n = x /\ ListValue(x).l = x /\ DictValue(x).d = x
BY DEF IsStr, IsInt, IsList, IsDict, StrValue, IntValue, ListValue, DictValue

(* The fields have different names, none of which is made of bytes.        *)
LEMMA Names ==
    /\ headerTypeField # headerMessageIDField /\ headerTypeField # headerNodeIDField
    /\ headerTypeField # headerPayloadField /\ headerTypeField # headerArgsField
    /\ headerMessageIDField # headerNodeIDField /\ headerMessageIDField # headerPayloadField
    /\ headerMessageIDField # headerArgsField /\ headerNodeIDField # headerPayloadField
    /\ headerNodeIDField # headerArgsField /\ headerPayloadField # headerArgsField
    /\ contactsField # tokenField /\ contactsField # protocolVersionField
    /\ tokenField # protocolVersionField /\ tokenField # lbryidField /\ tokenField # portField
    /\ lbryidField # portField
BY DEF headerTypeField, headerMessageIDField, headerNodeIDField, headerPayloadField, headerArgsField,
       contactsField, tokenField, protocolVersionField, lbryidField, portField

ID == [1..IdBytes -> 0..(ByteBase - 1)]
MessageID == [1..MsgIdBytes -> 0..(ByteBase - 1)]

(* An id is a string of its length, and no name of a field.                *)
LEMMA IdNames ==
    ASSUME NEW id \in ID
    PROVE  /\ id \in Seq(0..(ByteBase - 1)) /\ Len(id) = IdBytes /\ id # EmptyString
           /\ id # contactsField /\ id # tokenField /\ id # protocolVersionField
           /\ ReadsBitmap(StrValue(id))
<1>1. IdBytes \in Nat /\ 1 \in 1..IdBytes /\ DOMAIN id = 1..IdBytes /\ ByteBase \in 4..500
  BY MessagesAssumption DEF ID
<1>2. id \in Seq(0..(ByteBase - 1)) /\ Len(id) = IdBytes
  BY <1>1, IntervalSeq DEF ID
<1>3. Len(id) = IdBytes
  BY <1>2
<1>4. id[1] < 500
  BY <1>1 DEF ID
<1>5. id # EmptyString
  BY <1>1, <1>3 DEF EmptyString
<1>6. id # contactsField /\ id # tokenField /\ id # protocolVersionField
  BY <1>4 DEF contactsField, tokenField, protocolVersionField
<1> QED
  BY <1>2, <1>3, <1>5, <1>6, Kinds DEF ReadsBitmap

(* A message id is read as it was written.                                 *)
LEMMA MessageIdRead ==
    ASSUME NEW id \in MessageID
    PROVE  ReadMessageID(StrValue(id)) = id
<1>1. MsgIdBytes \in Nat /\ DOMAIN id = 1..MsgIdBytes
  BY MessagesAssumption DEF MessageID
<1>3. Len(id) = MsgIdBytes
  BY <1>1, IntervalSeq DEF MessageID
<1>4. StrValue(id).s = id
  BY Kinds
<1>5. ReadMessageID(StrValue(id)) = [i \in 1..MsgIdBytes |-> id[i]]
  BY <1>3, <1>4 DEF ReadMessageID
<1> QED
  BY <1>1, <1>5 DEF MessageID

(* The header of a message is read as it was written.                      *)
LEMMA HeaderRead ==
    ASSUME NEW d, NEW m, m.id \in MessageID, m.nodeID \in ID,
           headerMessageIDField \in DOMAIN d, d[headerMessageIDField] = StrValue(m.id),
           headerNodeIDField \in DOMAIN d, d[headerNodeIDField] = StrValue(m.nodeID)
    PROVE  /\ ReadsHeader(DictValue(d))
           /\ HeaderID(DictValue(d)) = m.id
           /\ HeaderNodeID(DictValue(d)) = m.nodeID
<1>1. IsDict(DictValue(d)) /\ DictValue(d).d = d
  BY Kinds
<1>2. IsStr(StrValue(m.id)) /\ ReadsBitmap(StrValue(m.nodeID)) /\ StrValue(m.nodeID).s = m.nodeID
  BY Kinds, IdNames
<1>3. ReadMessageID(StrValue(m.id)) = m.id
  BY MessageIdRead
<1>4. ReadsHeader(DictValue(d))
  BY <1>1, <1>2 DEF ReadsHeader
<1>5. HeaderID(DictValue(d)) = m.id
  BY <1>1, <1>3 DEF HeaderID
<1>6. HeaderNodeID(DictValue(d)) = m.nodeID
  BY <1>1, <1>2 DEF HeaderNodeID
<1> QED
  BY <1>4, <1>5, <1>6

(* What is in a header.                                                    *)
LEMMA HeaderFields ==
    ASSUME NEW type, NEW m
    PROVE  /\ DOMAIN Header(type, m) = {headerTypeField, headerMessageIDField, headerNodeIDField}
           /\ Header(type, m)[headerMessageIDField] = StrValue(m.id)
           /\ Header(type, m)[headerNodeIDField] = StrValue(m.nodeID)
<1> DEFINE t == Entry(headerTypeField, IntValue(type))
           i == Entry(headerMessageIDField, StrValue(m.id))
           n == Entry(headerNodeIDField, StrValue(m.nodeID))
<1>1. /\ DOMAIN t = {headerTypeField} /\ DOMAIN i = {headerMessageIDField} /\ DOMAIN n = {headerNodeIDField}
      /\ i[headerMessageIDField] = StrValue(m.id) /\ n[headerNodeIDField] = StrValue(m.nodeID)
  BY Single
<1>2. Header(type, m) = (t ++ i) ++ n
  BY DEF Header
<1> HIDE DEF t, i, n
<1>3. /\ DOMAIN (t ++ i) = {headerTypeField, headerMessageIDField}
      /\ (t ++ i)[headerMessageIDField] = StrValue(m.id)
  <2>1. /\ DOMAIN (t ++ i) = DOMAIN t \cup DOMAIN i
        /\ \A k \in DOMAIN t : (t ++ i)[k] = t[k]
        /\ \A k \in DOMAIN i : k \notin DOMAIN t => (t ++ i)[k] = i[k]
    BY Joined
  <2> QED
    BY <1>1, <2>1, Names
<1>4. /\ DOMAIN ((t ++ i) ++ n) = {headerTypeField, headerMessageIDField, headerNodeIDField}
      /\ ((t ++ i) ++ n)[headerMessageIDField] = StrValue(m.id)
      /\ ((t ++ i) ++ n)[headerNodeIDField] = StrValue(m.nodeID)
  <2> DEFINE f == t ++ i
  <2>1. /\ DOMAIN (f ++ n) = DOMAIN f \cup DOMAIN n
        /\ \A k \in DOMAIN f : (f ++ n)[k] = f[k]
        /\ \A k \in DOMAIN n : k \notin DOMAIN f => (f ++ n)[k] = n[k]
    BY Joined
  <2> HIDE DEF f
  <2>2. DOMAIN f = {headerTypeField, headerMessageIDField} /\ f[headerMessageIDField] = StrValue(m.id)
    BY <1>3 DEF f
  <2>3. /\ DOMAIN (f ++ n) = {headerTypeField, headerMessageIDField, headerNodeIDField}
        /\ (f ++ n)[headerMessageIDField] = StrValue(m.id)
        /\ (f ++ n)[headerNodeIDField] = StrValue(m.nodeID)
    BY <1>1, <2>1, <2>2, Names
  <2> QED
    BY <2>3 DEF f
<1> QED
  BY <1>2, <1>4

(* A message with a payload.                                               *)
LEMMA OneField ==
    ASSUME NEW type, NEW m, m.id \in MessageID, m.nodeID \in ID, NEW x,
           NEW d, d = Header(type, m) ++ Entry(headerPayloadField, x)
    PROVE  /\ ReadsHeader(DictValue(d))
           /\ HeaderID(DictValue(d)) = m.id
           /\ HeaderNodeID(DictValue(d)) = m.nodeID
           /\ headerPayloadField \in DOMAIN d /\ d[headerPayloadField] = x
           /\ headerMessageIDField \in DOMAIN d /\ d[headerMessageIDField] = StrValue(m.id)
           /\ headerNodeIDField \in DOMAIN d /\ d[headerNodeIDField] = StrValue(m.nodeID)
           /\ headerArgsField \notin DOMAIN d
<1>1. /\ DOMAIN Entry(headerPayloadField, x) = {headerPayloadField}
      /\ Entry(headerPayloadField, x)[headerPayloadField] = x
  BY Single
<1>2. /\ headerPayloadField \in DOMAIN d /\ d[headerPayloadField] = x
      /\ headerMessageIDField \in DOMAIN d /\ d[headerMessageIDField] = StrValue(m.id)
      /\ headerNodeIDField \in DOMAIN d /\ d[headerNodeIDField] = StrValue(m.nodeID)
      /\ headerArgsField \notin DOMAIN d
  <2> DEFINE f == Header(type, m)
             g == Entry(headerPayloadField, x)
  <2>1. /\ DOMAIN (f ++ g) = DOMAIN f \cup DOMAIN g
        /\ \A k \in DOMAIN f : (f ++ g)[k] = f[k]
        /\ \A k \in DOMAIN g : k \notin DOMAIN f => (f ++ g)[k] = g[k]
    BY Joined
  <2>2. /\ DOMAIN f = {headerTypeField, headerMessageIDField, headerNodeIDField}
        /\ f[headerMessageIDField] = StrValue(m.id) /\ f[headerNodeIDField] = StrValue(m.nodeID)
    BY HeaderFields
  <2>3. d = f ++ g
    OBVIOUS
  <2> HIDE DEF f
  <2> QED
    BY <1>1, <2>1, <2>2, <2>3, Names
<1> QED
  BY <1>2, HeaderRead

(* A message with a payload and arguments.                                 *)
Message(type, m, x, y) ==
    (Header(type, m) ++ Entry(headerPayloadField, x)) ++ Entry(headerArgsField, y)

(* A message with two fields besides its header.                           *)
LEMMA TwoFields ==
    ASSUME NEW type, NEW m, m.id \in MessageID, m.nodeID \in ID, NEW x, NEW y
    PROVE  LET d == Message(type, m, x, y)
           IN  /\ ReadsHeader(DictValue(d))
               /\ HeaderID(DictValue(d)) = m.id
               /\ HeaderNodeID(DictValue(d)) = m.nodeID
               /\ headerPayloadField \in DOMAIN d /\ d[headerPayloadField] = x
               /\ headerArgsField \in DOMAIN d /\ d[headerArgsField] = y
               /\ headerMessageIDField \in DOMAIN d /\ d[headerMessageIDField] = StrValue(m.id)
               /\ headerNodeIDField \in DOMAIN d /\ d[headerNodeIDField] = StrValue(m.nodeID)
<1> DEFINE d == Message(type, m, x, y)
           c == Header(type, m) ++ Entry(headerPayloadField, x)
<1>1. /\ DOMAIN Entry(headerArgsField, y) = {headerArgsField}
      /\ Entry(headerArgsField, y)[headerArgsField] = y
  BY Single
<1>2. /\ headerPayloadField \in DOMAIN c /\ c[headerPayloadField] = x
      /\ headerMessageIDField \in DOMAIN c /\ c[headerMessageIDField] = StrValue(m.id)
      /\ headerNodeIDField \in DOMAIN c /\ c[headerNodeIDField] = StrValue(m.nodeID)
      /\ headerArgsField \notin DOMAIN c
  BY OneField
<1>3. d = c ++ Entry(headerArgsField, y)
  BY DEF Message
<1> HIDE DEF c, d
<1>4. /\ headerPayloadField \in DOMAIN d /\ d[headerPayloadField] = x
      /\ headerArgsField \in DOMAIN d /\ d[headerArgsField] = y
      /\ headerMessageIDField \in DOMAIN d /\ d[headerMessageIDField] = StrValue(m.id)
      /\ headerNodeIDField \in DOMAIN d /\ d[headerNodeIDField] = StrValue(m.nodeID)
  <2> DEFINE g == Entry(headerArgsField, y)
  <2>1. /\ DOMAIN (c ++ g) = DOMAIN c \cup DOMAIN g
        /\ \A k \in DOMAIN c : (c ++ g)[k] = c[k]
        /\ \A k \in DOMAIN g : k \notin DOMAIN c => (c ++ g)[k] = g[k]
    BY Joined
  <2> QED
    BY <1>1, <1>2, <1>3, <2>1
<1>5. /\ ReadsHeader(DictValue(d)) /\ HeaderID(DictValue(d)) = m.id
      /\ HeaderNodeID(DictValue(d)) = m.nodeID
  BY <1>4, HeaderRead
<1> QED
  BY <1>4, <1>5 DEF d

-----------------------------------------------------------------------------
(* Errors.                                                                 *)

String == Seq(Nat)
ErrorType == [id : MessageID, nodeID : ID, exceptionType : String, response : Seq(String)]

(* An Error is read as MarshalBencode wrote it.                            *)
LEMMA EveryErrorArrives ==
    ASSUME NEW e \in ErrorType
    PROVE  ErrorArrives(e)
<1> DEFINE x == StrValue(e.exceptionType)
           l == [i \in DOMAIN e.response |-> StrValue(e.response[i])]
           y == ListValue(l)
           d == Message(errorType, e, x, y)
           w == WriteError(e)
<1>1. /\ e.id \in MessageID /\ e.nodeID \in ID /\ e.response \in Seq(String)
      /\ e = [id |-> e.id, nodeID |-> e.nodeID, exceptionType |-> e.exceptionType, response |-> e.response]
  BY DEF ErrorType
<1>2. w = DictValue(d)
  BY DEF WriteError, Message
<1>3. /\ ReadsHeader(DictValue(d)) /\ HeaderID(DictValue(d)) = e.id /\ HeaderNodeID(DictValue(d)) = e.nodeID
      /\ headerPayloadField \in DOMAIN d /\ d[headerPayloadField] = x
      /\ headerArgsField \in DOMAIN d /\ d[headerArgsField] = y
  BY <1>1, TwoFields
<1>4. IsStr(x) /\ x.s = e.exceptionType /\ IsList(y) /\ y.l = l
  BY Kinds
<1>5. [i \in DOMAIN l |-> CastToString(l[i])] = e.response
  <2>1. DOMAIN l = DOMAIN e.response
    OBVIOUS
  <2>2. \A i \in DOMAIN l : CastToString(l[i]) = e.response[i]
    BY Kinds DEF CastToString
  <2>3. e.response = [i \in DOMAIN e.response |-> e.response[i]]
    BY <1>1
  <2> QED
    BY <2>1, <2>2, <2>3
<1> HIDE DEF d, x, y, l
<1>6. w.d = d
  BY <1>2, Kinds
<1>7. ReadsError(w)
  BY <1>2, <1>3, <1>4, <1>6 DEF ReadsError
<1>8. RequestMethod(w) = e.exceptionType
  BY <1>3, <1>4, <1>6 DEF RequestMethod
<1>9. ReadError(w) = e
  BY <1>1, <1>2, <1>3, <1>4, <1>5, <1>6, <1>8 DEF ReadError
<1> QED
  BY <1>7, <1>9 DEF ErrorArrives

-----------------------------------------------------------------------------
(* Requests.                                                               *)

StoreArgsType ==
    [blobHash : ID, token : String, lbryID : ID, port : Int, nodeID : ID, selfStore : BOOLEAN]

PlainRequest ==
    [id : MessageID, nodeID : ID, method : String \ {storeMethod}, storeArgs : {<<>>},
     arg : {<<>>} \cup {<<x>> : x \in ID}, version : {0}]

StoreRequest ==
    [id : MessageID, nodeID : ID, method : {storeMethod}, storeArgs : {<<a>> : a \in StoreArgsType},
     arg : {<<>>}, version : {0}]

ArgList(r) == [i \in DOMAIN r.arg |-> StrValue(r.arg[i])]

(* The argument list of a request without store arguments.                 *)
LEMMA ArgLists ==
    ASSUME NEW r \in PlainRequest
    PROVE  \/ r.arg = <<>> /\ ArgList(r) = <<>>
           \/ \E x \in ID : r.arg = <<x>> /\ ArgList(r) = <<StrValue(x)>>
<1>1. CASE r.arg = <<>>
  <2>1. ArgList(r) = <<>>
    BY <1>1 DEF ArgList
  <2> QED
    BY <1>1, <2>1
<1>2. ASSUME NEW x \in ID, r.arg = <<x>> PROVE ArgList(r) = <<StrValue(x)>>
  <2>1. DOMAIN <<x>> = {1} /\ <<x>>[1] = x
    OBVIOUS
  <2>2. ArgList(r) = [i \in {1} |-> StrValue(x)]
    BY <1>2, <2>1 DEF ArgList
  <2>3. <<StrValue(x)>> = [i \in {1} |-> StrValue(x)]
    OBVIOUS
  <2> QED
    BY <2>2, <2>3
<1>3. r.arg = <<>> \/ \E x \in ID : r.arg = <<x>>
  BY DEF PlainRequest
<1> QED
  BY <1>1, <1>2, <1>3

(* A request that is no store request is read by its arguments.            *)
LEMMA PlainRequestRead ==
    ASSUME NEW r \in PlainRequest, NEW d, NEW args, NEW v,
           ReadsHeader(DictValue(d)), HeaderID(DictValue(d)) = r.id, HeaderNodeID(DictValue(d)) = r.nodeID,
           headerPayloadField \in DOMAIN d, d[headerPayloadField] = StrValue(r.method),
           headerArgsField \in DOMAIN d, d[headerArgsField] = ListValue(args),
           PlainArgs(args) = ArgList(r),
           v = IF HasVersion(args) THEN Last(args).d[protocolVersionField].n ELSE 0
    PROVE  /\ ReadsRequest(DictValue(d))
           /\ ReadRequest(DictValue(d)) = [r EXCEPT !.version = v]
<1> DEFINE w == DictValue(d)
           al == IF NoArgs(ListValue(args)) THEN <<>> ELSE ListValue(args).l
<1>1. w.d = d /\ IsDict(w) /\ ListValue(args).l = args /\ IsList(ListValue(args)) /\ ~IsDict(ListValue(args))
      /\ IsStr(StrValue(r.method)) /\ StrValue(r.method).s = r.method /\ ~IsStr(ListValue(args))
      /\ IsStr(StrValue(EmptyString)) /\ ListValue(<<>>).l = <<>>
  BY Kinds
<1>2. al = args
  <2>1. NoArgs(ListValue(args)) => args = <<>>
    BY <1>1 DEF NoArgs
  <2> QED
    BY <1>1, <2>1
<1>3. RequestMethod(w) = r.method /\ r.method # storeMethod
  BY <1>1 DEF RequestMethod, PlainRequest
<1>4. /\ (IF ArgList(r) = <<>> THEN <<>> ELSE <<ArgList(r)[1].s>>) = r.arg
      /\ ArgList(r) # <<>> => ReadsBitmap(ArgList(r)[1])
  <2>1. CASE r.arg = <<>> /\ ArgList(r) = <<>>
    BY <2>1
  <2>2. ASSUME NEW x \in ID, r.arg = <<x>>, ArgList(r) = <<StrValue(x)>>
        PROVE  /\ ArgList(r) # <<>> /\ <<ArgList(r)[1].s>> = r.arg
               /\ ReadsBitmap(ArgList(r)[1])
    <3>1. ArgList(r)[1] = StrValue(x) /\ ArgList(r) # <<>>
      BY <2>2
    <3>2. StrValue(x).s = x /\ ReadsBitmap(StrValue(x))
      BY Kinds, IdNames
    <3> QED
      BY <2>2, <3>1, <3>2
  <2> QED
    BY <2>1, <2>2, ArgLists
<1>5. [r EXCEPT !.version = v] =
         [id |-> r.id, nodeID |-> r.nodeID, method |-> r.method, storeArgs |-> <<>>, arg |-> r.arg, version |-> v]
  BY DEF PlainRequest
<1> HIDE DEF w
<1>6. ReadsRequest(w)
  BY <1>1, <1>3, <1>4 DEF ReadsRequest, w
<1>7. ReadRequest(w) =
         [id |-> HeaderID(w), nodeID |-> HeaderNodeID(w), method |-> r.method, storeArgs |-> <<>>,
          arg |-> IF PlainArgs(al) = <<>> THEN <<>> ELSE <<PlainArgs(al)[1].s>>,
          version |-> IF HasVersion(al) THEN Last(al).d[protocolVersionField].n ELSE 0]
  BY <1>1, <1>3 DEF ReadRequest
<1> HIDE DEF al
<1>8. ReadRequest(w) = [r EXCEPT !.version = v]
  BY <1>2, <1>4, <1>5, <1>7 DEF w
<1> QED
  BY <1>6, <1>8 DEF w

(* The last argument is taken off again.                                   *)
LEMMA AppendedLast ==
    ASSUME NEW S, NEW l \in Seq(S), NEW p \in S
    PROVE  Append(l, p) # <<>> /\ Last(Append(l, p)) = p /\ Front(Append(l, p)) = l
<1>1. Len(l) \in Nat
  BY LenProperties
<1>2. /\ Append(l, p) \in Seq(S) /\ Len(Append(l, p)) = Len(l) + 1
      /\ \A i \in 1 .. Len(l) : Append(l, p)[i] = l[i] /\ Append(l, p)[i] \in S
      /\ Append(l, p)[Len(l) + 1] = p
  <2>1. \A i \in 1 .. Len(l) : l[i] \in S
    BY ElementOfSeq
  <2> QED
    BY <2>1, AppendProperties
<1>3. Append(l, p) # <<>> /\ Last(Append(l, p)) = p
  BY <1>1, <1>2 DEF Last
<1>4. Front(Append(l, p)) = SubSeq(Append(l, p), 1, Len(l))
  BY <1>1, <1>2 DEF Front
<1>5. /\ SubSeq(Append(l, p), 1, Len(l)) \in Seq(S)
      /\ Len(SubSeq(Append(l, p), 1, Len(l))) = Len(l)
      /\ \A i \in 1 .. Len(l) : SubSeq(Append(l, p), 1, Len(l))[i] = Append(l, p)[i]
  BY <1>1, <1>2, SubSeqProperties, Z3
<1>6. SubSeq(Append(l, p), 1, Len(l)) = l
  BY <1>2, <1>5, SeqEqual
<1> QED
  BY <1>3, <1>4, <1>6

(* A ping, findNode or findValue request is read as it was written.        *)
LEMMA PlainRequestArrives ==
    ASSUME NEW r \in PlainRequest
    PROVE  RequestArrives(r)
<1> DEFINE x == StrValue(r.method)
           l == ArgList(r)
           y == ListValue(l)
           pv == DictValue(Entry(protocolVersionField, IntValue(1)))
           lv == Append(l, pv)
           d == Message(requestType, r, x, y)
           dv == [d EXCEPT ![headerArgsField] = ListValue(lv)]
           w == WriteRequest(r)
<1>1. r.id \in MessageID /\ r.nodeID \in ID /\ r.storeArgs = <<>> /\ r.version = 0
  BY DEF PlainRequest
<1>2. w = DictValue(d)
  BY <1>1 DEF WriteRequest, ArgList, Message
<1>3. /\ ReadsHeader(DictValue(d)) /\ HeaderID(DictValue(d)) = r.id /\ HeaderNodeID(DictValue(d)) = r.nodeID
      /\ headerPayloadField \in DOMAIN d /\ d[headerPayloadField] = x
      /\ headerArgsField \in DOMAIN d /\ d[headerArgsField] = y
      /\ headerMessageIDField \in DOMAIN d /\ d[headerMessageIDField] = StrValue(r.id)
      /\ headerNodeIDField \in DOMAIN d /\ d[headerNodeIDField] = StrValue(r.nodeID)
  <2> HIDE DEF x, y
  <2> QED
    BY <1>1, TwoFields
<1>4. ~HasVersion(l)
  <2>1. CASE l = <<>>
    BY <2>1 DEF HasVersion
  <2>2. ASSUME NEW z \in ID, l = <<StrValue(z)>> PROVE ~HasVersion(l)
    <3>1. Last(l) = StrValue(z)
      BY <2>2 DEF Last
    <3>2. ~IsDict(StrValue(z))
      BY Kinds
    <3> QED
      BY <3>1, <3>2 DEF HasVersion
  <2> QED
    BY <2>1, <2>2, ArgLists
<1>5. PlainArgs(l) = l
  BY <1>4 DEF PlainArgs
<1>6. HasVersion(lv) /\ Last(lv) = pv /\ PlainArgs(lv) = l
  <2> DEFINE S == {StrValue(z) : z \in ID} \cup {pv}
  <2>1. l \in Seq(S)
    <3>1. CASE l = <<>>
      BY <3>1
    <3>2. ASSUME NEW z \in ID, l = <<StrValue(z)>> PROVE l \in Seq(S)
      BY <3>2
    <3> QED
      BY <3>1, <3>2, ArgLists
  <2>2. pv \in S
    OBVIOUS
  <2> HIDE DEF S
  <2>3. lv # <<>> /\ Last(lv) = pv /\ Front(lv) = l
    BY <2>1, <2>2, AppendedLast
  <2>4. IsDict(pv) /\ pv.d = Entry(protocolVersionField, IntValue(1)) /\ IsInt(IntValue(1))
    BY Kinds
  <2>5. /\ DOMAIN Entry(protocolVersionField, IntValue(1)) = {protocolVersionField}
        /\ Entry(protocolVersionField, IntValue(1))[protocolVersionField] = IntValue(1)
    BY Single
  <2> HIDE DEF lv, pv
  <2>6. HasVersion(lv)
    BY <2>3, <2>4, <2>5 DEF HasVersion
  <2> QED
    BY <2>3, <2>6 DEF PlainArgs
<1>7. Last(lv).d[protocolVersionField].n = 1
  <2>1. /\ pv.d = Entry(protocolVersionField, IntValue(1)) /\ IntValue(1).n = 1
        /\ Entry(protocolVersionField, IntValue(1))[protocolVersionField] = IntValue(1)
    BY Kinds, Single
  <2> HIDE DEF lv, pv
  <2> QED
    BY <1>6, <2>1
<1> HIDE DEF d, x, l, pv, lv
<1>8. ReadsRequest(DictValue(d)) /\ ReadRequest(DictValue(d)) = [r EXCEPT !.version = 0]
  BY <1>3, <1>4, <1>5, PlainRequestRead DEF x, l
<1>9. [r EXCEPT !.version = 0] = r
  BY <1>1 DEF PlainRequest
<1>10. RequestWithVersion(w, 1) = DictValue(dv)
  <2>1. w.d = d /\ d[headerArgsField].l = l
    BY <1>2, <1>3, Kinds
  <2> QED
    BY <2>1 DEF RequestWithVersion, pv, lv
<1>11. /\ DOMAIN dv = DOMAIN d /\ dv[headerArgsField] = ListValue(lv)
       /\ \A k \in DOMAIN d : k # headerArgsField => dv[k] = d[k]
  BY <1>3
<1> HIDE DEF dv
<1>12. /\ headerPayloadField \in DOMAIN dv /\ dv[headerPayloadField] = x
       /\ headerArgsField \in DOMAIN dv /\ dv[headerArgsField] = ListValue(lv)
       /\ headerMessageIDField \in DOMAIN dv /\ dv[headerMessageIDField] = StrValue(r.id)
       /\ headerNodeIDField \in DOMAIN dv /\ dv[headerNodeIDField] = StrValue(r.nodeID)
  BY <1>3, <1>11, Names
<1>13. ReadsHeader(DictValue(dv)) /\ HeaderID(DictValue(dv)) = r.id /\ HeaderNodeID(DictValue(dv)) = r.nodeID
  BY <1>1, <1>12, HeaderRead
<1>14. ReadsRequest(DictValue(dv)) /\ ReadRequest(DictValue(dv)) = [r EXCEPT !.version = 1]
  BY <1>6, <1>7, <1>12, <1>13, PlainRequestRead DEF x, l
<1> QED
  BY <1>2, <1>8, <1>9, <1>10, <1>14 DEF RequestArrives

(* The dictionary of the store arguments.                                  *)
LEMMA StoreFields ==
    ASSUME NEW x, NEW y, NEW z
    PROVE  LET v == Entry(tokenField, x) ++ Entry(lbryidField, y) ++ Entry(portField, z)
           IN  /\ tokenField \in DOMAIN v /\ v[tokenField] = x
               /\ lbryidField \in DOMAIN v /\ v[lbryidField] = y
               /\ portField \in DOMAIN v /\ v[portField] = z
<1> DEFINE t == Entry(tokenField, x)
           i == Entry(lbryidField, y)
           p == Entry(portField, z)
           f == t ++ i
<1>1. /\ DOMAIN t = {tokenField} /\ t[tokenField] = x /\ DOMAIN i = {lbryidField} /\ i[lbryidField] = y
      /\ DOMAIN p = {portField} /\ p[portField] = z
  BY Single
<1>2. /\ DOMAIN f = DOMAIN t \cup DOMAIN i
      /\ \A k \in DOMAIN t : f[k] = t[k]
      /\ \A k \in DOMAIN i : k \notin DOMAIN t => f[k] = i[k]
  <2> HIDE DEF t, i
  <2> QED
    BY Joined
<1>3. /\ DOMAIN (f ++ p) = DOMAIN f \cup DOMAIN p
      /\ \A k \in DOMAIN f : (f ++ p)[k] = f[k]
      /\ \A k \in DOMAIN p : k \notin DOMAIN f => (f ++ p)[k] = p[k]
  <2> HIDE DEF f, p
  <2> QED
    BY Joined
<1> HIDE DEF t, i, p, f
<1>4. DOMAIN f = {tokenField, lbryidField} /\ f[tokenField] = x /\ f[lbryidField] = y
  BY <1>1, <1>2, Names
<1>5. /\ tokenField \in DOMAIN (f ++ p) /\ (f ++ p)[tokenField] = x
      /\ lbryidField \in DOMAIN (f ++ p) /\ (f ++ p)[lbryidField] = y
      /\ portField \in DOMAIN (f ++ p) /\ (f ++ p)[portField] = z
  BY <1>1, <1>3, <1>4, Names
<1> QED
  BY <1>5 DEF f, t, i, p

(* storeArgs are read as they were written.                                *)
LEMMA StoreArgsRead ==
    ASSUME NEW a \in StoreArgsType
    PROVE  ReadsStoreArgs(WriteStoreArgs(a)) /\ ReadStoreArgs(WriteStoreArgs(a)) = a
<1> DEFINE v == Entry(tokenField, StrValue(a.token)) ++ Entry(lbryidField, StrValue(a.lbryID))
                  ++ Entry(portField, IntValue(a.port))
           n == IF a.selfStore THEN 1 ELSE 0
           q == <<StrValue(a.blobHash), DictValue(v), StrValue(a.nodeID), IntValue(n)>>
           w == WriteStoreArgs(a)
<1>1. /\ a.blobHash \in ID /\ a.lbryID \in ID /\ a.nodeID \in ID /\ a.selfStore \in BOOLEAN
      /\ a = [blobHash |-> a.blobHash, token |-> a.token, lbryID |-> a.lbryID, port |-> a.port,
              nodeID |-> a.nodeID, selfStore |-> a.selfStore]
  BY DEF StoreArgsType
<1>2. /\ tokenField \in DOMAIN v /\ v[tokenField] = StrValue(a.token)
      /\ lbryidField \in DOMAIN v /\ v[lbryidField] = StrValue(a.lbryID)
      /\ portField \in DOMAIN v /\ v[portField] = IntValue(a.port)
  BY StoreFields
<1>3. w = ListValue(q)
  BY DEF WriteStoreArgs
<1> HIDE DEF v
<1>4. n \in {0, 1} /\ (n = 1) = a.selfStore
  BY <1>1
<1> HIDE DEF n
<1>5. /\ Len(q) = 4 /\ q[1] = StrValue(a.blobHash) /\ q[2] = DictValue(v) /\ q[3] = StrValue(a.nodeID)
      /\ q[4] = IntValue(n)
  OBVIOUS
<1> HIDE DEF q, w
<1>6. IsList(w) /\ w.l = q /\ IsDict(DictValue(v)) /\ DictValue(v).d = v
  BY <1>3, Kinds
<1>7. /\ ReadsBitmap(StrValue(a.blobHash)) /\ ReadsBitmap(StrValue(a.lbryID)) /\ ReadsBitmap(StrValue(a.nodeID))
  BY <1>1, IdNames
<1>8. /\ IsStr(StrValue(a.token)) /\ IsInt(IntValue(a.port)) /\ IsInt(IntValue(n)) /\ IntValue(n).n = n
      /\ StrValue(a.token).s = a.token /\ StrValue(a.lbryID).s = a.lbryID /\ IntValue(a.port).n = a.port
      /\ StrValue(a.nodeID).s = a.nodeID /\ StrValue(a.blobHash).s = a.blobHash
  BY Kinds
<1>9. ReadsStoreArgs(w)
  BY <1>2, <1>4, <1>5, <1>6, <1>7, <1>8 DEF ReadsStoreArgs
<1>10. ReadStoreArgs(w) = [blobHash |-> a.blobHash, token |-> a.token, lbryID |-> a.lbryID, port |-> a.port,
                           nodeID |-> a.nodeID, selfStore |-> n = 1]
  BY <1>2, <1>5, <1>6, <1>8 DEF ReadStoreArgs
<1> QED
  BY <1>1, <1>4, <1>9, <1>10 DEF w

(* A store request is read as it was written.                              *)
LEMMA StoreRequestArrives ==
    ASSUME NEW r \in StoreRequest
    PROVE  RequestArrives(r)
<1>1. PICK a \in StoreArgsType : r.storeArgs = <<a>>
  BY DEF StoreRequest
<1> DEFINE x == StrValue(r.method)
           y == WriteStoreArgs(a)
           d == Message(requestType, r, x, y)
           w == WriteRequest(r)
<1>2. /\ r.id \in MessageID /\ r.nodeID \in ID /\ r.method = storeMethod /\ r.storeArgs # <<>>
      /\ r = [id |-> r.id, nodeID |-> r.nodeID, method |-> r.method, storeArgs |-> <<a>>, arg |-> <<>>,
              version |-> 0]
  BY <1>1 DEF StoreRequest
<1>3. w = DictValue(d)
  BY <1>1, <1>2 DEF WriteRequest, Message
<1>4. /\ ReadsHeader(DictValue(d)) /\ HeaderID(DictValue(d)) = r.id /\ HeaderNodeID(DictValue(d)) = r.nodeID
      /\ headerPayloadField \in DOMAIN d /\ d[headerPayloadField] = x
      /\ headerArgsField \in DOMAIN d /\ d[headerArgsField] = y
  BY <1>2, TwoFields
<1>5. ReadsStoreArgs(y) /\ ReadStoreArgs(y) = a
  BY StoreArgsRead
<1>6. IsStr(x) /\ x.s = storeMethod
  BY <1>2, Kinds
<1> HIDE DEF d, x, y, w
<1>7. w.d = d
  BY <1>3, Kinds
<1>8. RequestMethod(w) = storeMethod
  BY <1>4, <1>6, <1>7 DEF RequestMethod
<1>9. ReadsRequest(w)
  BY <1>3, <1>4, <1>5, <1>6, <1>7, <1>8 DEF ReadsRequest
<1>10. ~HasVersion(<<>>) /\ PlainArgs(<<>>) = <<>>
  BY DEF HasVersion, PlainArgs
<1>11. ReadRequest(w) = [id |-> r.id, nodeID |-> r.nodeID, method |-> storeMethod, storeArgs |-> <<a>>,
                         arg |-> <<>>, version |-> 0]
  BY <1>3, <1>4, <1>5, <1>7, <1>8, <1>10 DEF ReadRequest
<1> QED
  BY <1>2, <1>9, <1>11 DEF RequestArrives, w

-----------------------------------------------------------------------------
(* Contacts, as a list and in their compact form.                          *)

IP == 0..(ByteBase - 1) \cup {IPv6}

Contact == [id : ID, ip : IP, port : Int, peerPort : Int]

Listed(c) == [c EXCEPT !.peerPort = 0]

Compact(c) == [c EXCEPT !.port = 0]

(* An address is read as its IPv4 form, if it has one.                     *)
LEMMA AddressRead ==
    ASSUME NEW ip \in IP
    PROVE  ReadIP(WriteIP(ip)) = To4(ip) /\ (To4(ip) # NilIP => To4(ip) = ip)
<1>1. ByteBase \in 4..500
  BY MessagesAssumption
<1>2. ip \in Nat
  BY <1>1 DEF IP, IPv6
<1>3. Len(WriteIP(ip)) = 1 /\ WriteIP(ip)[1] = 2000 + ip
  BY DEF WriteIP
<1>4. CASE ip = 0
  BY <1>1, <1>2, <1>3, <1>4 DEF ReadIP, To4, NilIP
<1>5. CASE ip > 0
  <2>1. WriteIP(ip)[1] > 2000 /\ WriteIP(ip)[1] - 2000 = ip
    BY <1>2, <1>3, <1>5
  <2> QED
    BY <1>3, <2>1 DEF ReadIP, To4
<1> QED
  BY <1>2, <1>4, <1>5

(* A contact in a list is read but for its peer port, if it has an IPv4    *)
(* address.                                                                *)
LEMMA ContactRead ==
    ASSUME NEW c \in Contact
    PROVE  /\ ReadsContact(WriteContact(c)) <=> To4(c.ip) # NilIP
           /\ To4(c.ip) # NilIP => ReadContact(WriteContact(c)) = Listed(c)
<1> DEFINE q == <<StrValue(c.id), StrValue(WriteIP(c.ip)), IntValue(c.port)>>
           w == WriteContact(c)
<1>1. c.id \in ID /\ c.ip \in IP
  BY DEF Contact
<1>2. Len(q) = 3 /\ q[1] = StrValue(c.id) /\ q[2] = StrValue(WriteIP(c.ip)) /\ q[3] = IntValue(c.port)
  OBVIOUS
<1>3. IsList(w) /\ w.l = q
  BY Kinds DEF WriteContact
<1> HIDE DEF q, w
<1>4. /\ IsStr(StrValue(WriteIP(c.ip))) /\ IsInt(IntValue(c.port)) /\ StrValue(c.id).s = c.id
      /\ StrValue(WriteIP(c.ip)).s = WriteIP(c.ip) /\ IntValue(c.port).n = c.port
  BY Kinds
<1>5. ReadsBitmap(StrValue(c.id))
  BY <1>1, IdNames
<1>6. ReadIP(WriteIP(c.ip)) = To4(c.ip) /\ (To4(c.ip) # NilIP => To4(c.ip) = c.ip)
  BY <1>1, AddressRead
<1>7. ReadsContact(w) <=> To4(c.ip) # NilIP
  BY <1>2, <1>3, <1>4, <1>5, <1>6 DEF ReadsContact
<1>8. ReadContact(w) = [id |-> c.id, ip |-> To4(c.ip), port |-> c.port, peerPort |-> 0]
  BY <1>2, <1>3, <1>4, <1>6 DEF ReadContact
<1>9. Listed(c) = [id |-> c.id, ip |-> c.ip, port |-> c.port, peerPort |-> 0]
  BY DEF Listed, Contact
<1> QED
  BY <1>6, <1>7, <1>8, <1>9 DEF w

(* So is a list of them, and it is refused if one of them has none.        *)
LEMMA ContactsRead ==
    ASSUME NEW cs \in Seq(Contact)
    PROVE  /\ IsList(WriteContacts(cs))
           /\ ReadsContacts(WriteContacts(cs)) <=> \A i \in DOMAIN cs : To4(cs[i].ip) # NilIP
           /\ (\A i \in DOMAIN cs : To4(cs[i].ip) # NilIP) =>
                  ReadContacts(WriteContacts(cs)) = [i \in DOMAIN cs |-> Listed(cs[i])]
<1> DEFINE q == [i \in DOMAIN cs |-> WriteContact(cs[i])]
           w == WriteContacts(cs)
<1>1. \A i \in DOMAIN cs : cs[i] \in Contact
  OBVIOUS
<1>2. IsList(w) /\ w.l = q
  BY Kinds DEF WriteContacts
<1>3. DOMAIN q = DOMAIN cs /\ \A i \in DOMAIN cs : q[i] = WriteContact(cs[i])
  OBVIOUS
<1>4. \A i \in DOMAIN cs : /\ ReadsContact(q[i]) <=> To4(cs[i].ip) # NilIP
                           /\ To4(cs[i].ip) # NilIP => ReadContact(q[i]) = Listed(cs[i])
  BY <1>1, <1>3, ContactRead
<1> HIDE DEF q, w
<1>5. ReadsContacts(w) <=> \A i \in DOMAIN cs : To4(cs[i].ip) # NilIP
  BY <1>2, <1>3, <1>4 DEF ReadsContacts
<1>6. (\A i \in DOMAIN cs : To4(cs[i].ip) # NilIP) => ReadContacts(w) = [i \in DOMAIN cs |-> Listed(cs[i])]
  BY <1>2, <1>3, <1>4 DEF ReadContacts
<1> QED
  BY <1>2, <1>5, <1>6 DEF w

(* Two digits are a number again.                                          *)
LEMMA TwoDigits ==
    ASSUME NEW b \in Nat \ {0}, NEW n \in Nat, n < b * b
    PROVE  ((n \div b) % b) * b + (n % b) = n
<1> DEFINE q == n \div b
           m == n % b
<1>1. q \in Nat /\ m \in 0..(b - 1) /\ n = b * q + m
  OBVIOUS
<1> HIDE DEF q, m
<1>2. q < b
  <2> SUFFICES ASSUME q >= b PROVE FALSE
    BY <1>1
  <2>1. b * q >= b * b
    BY <1>1
  <2> QED
    BY <1>1, <2>1
<1>3. q % b = q
  BY <1>1, <1>2
<1>4. q * b + m = n
  BY <1>1
<1> QED
  BY <1>3, <1>4 DEF q, m

(* A compact contact that could be written is read but for its port.       *)
LEMMA CompactRead ==
    ASSUME NEW c \in Contact, WritesCompact(c)
    PROVE  /\ ReadsCompact(StrValue(WriteCompact(c)))
           /\ ReadCompact(StrValue(WriteCompact(c))) = Compact(c)
<1> DEFINE hi == (c.peerPort \div ByteBase) % ByteBase
           lo == c.peerPort % ByteBase
           h == <<To4(c.ip), hi, lo>>
           q == h \o c.id
           w == StrValue(WriteCompact(c))
<1>1. /\ c.id \in ID /\ c.ip \in IP /\ c.peerPort \in Nat /\ ByteBase \in Nat \ {0} /\ To4(c.ip) # NilIP
      /\ c.peerPort < ByteBase * ByteBase /\ IdBytes \in Nat
  BY MessagesAssumption DEF Contact, WritesCompact
<1>2. To4(c.ip) = c.ip
  BY <1>1, AddressRead
<1>3. hi * ByteBase + lo = c.peerPort /\ hi \in Int /\ lo \in Int
  BY <1>1, TwoDigits
<1>4. w = StrValue(q) /\ IsStr(w) /\ w.s = q
  BY Kinds DEF WriteCompact
<1> HIDE DEF hi, lo
<1>5. To4(c.ip) \in Int
  BY <1>1, <1>2, MessagesAssumption DEF IP, IPv6
<1>6. h \in Seq(Int) /\ Len(h) = 3 /\ h[1] = To4(c.ip) /\ h[2] = hi /\ h[3] = lo
  BY <1>3, <1>5
<1>7. c.id \in Seq(Int) /\ Len(c.id) = IdBytes
  <2>1. c.id \in [1..IdBytes -> Int]
    BY <1>1, MessagesAssumption DEF ID
  <2> QED
    BY <1>1, <2>1, IntervalSeq
<1> HIDE DEF h, w
<1>8. /\ q \in Seq(Int) /\ Len(q) = 3 + IdBytes
      /\ \A i \in 1..3 : q[i] = h[i]
      /\ \A i \in 1..IdBytes : q[3 + i] = c.id[i]
  <2>1. /\ h \o c.id \in Seq(Int) /\ Len(h \o c.id) = Len(h) + Len(c.id)
        /\ \A i \in 1..Len(h) + Len(c.id) :
              (h \o c.id)[i] = IF i <= Len(h) THEN h[i] ELSE c.id[i - Len(h)]
    BY <1>6, <1>7, ConcatProperties
  <2>2. \A i \in 1..3 + IdBytes : q[i] = IF i <= 3 THEN h[i] ELSE c.id[i - 3]
    BY <1>6, <1>7, <2>1
  <2>3. q \in Seq(Int) /\ Len(q) = 3 + IdBytes
    BY <1>6, <1>7, <2>1
  <2> HIDE DEF q
  <2>4. \A i \in 1..3 : q[i] = h[i]
    BY <1>1, <2>2
  <2>5. ASSUME NEW i \in 1..IdBytes PROVE q[3 + i] = c.id[i]
    <3>1. 3 + i \in 1..3 + IdBytes /\ ~(3 + i <= 3) /\ (3 + i) - 3 = i
      BY <1>1
    <3> QED
      BY <2>2, <3>1
  <2> QED
    BY <2>3, <2>4, <2>5
<1> HIDE DEF q
<1>9. q[1] = c.ip /\ q[2] = hi /\ q[3] = lo
  BY <1>2, <1>6, <1>8
<1>10. SubSeq(q, 4, compactNodeInfoLength) = c.id
  <2>1. SubSeq(q, 4, IdBytes + 3) = [i \in 1..IdBytes |-> q[i + 3]]
    BY <1>1, <1>8
  <2>2. c.id = [i \in 1..IdBytes |-> c.id[i]]
    BY <1>1 DEF ID
  <2>3. \A i \in 1..IdBytes : q[i + 3] = c.id[i]
    BY <1>1, <1>8
  <2> QED
    BY <2>1, <2>2, <2>3 DEF compactNodeInfoLength
<1>11. ReadsCompact(w)
  BY <1>1, <1>4, <1>8 DEF ReadsCompact, compactNodeInfoLength
<1>12. ReadCompact(w) = [ip |-> c.ip, port |-> 0, peerPort |-> c.peerPort, id |-> c.id]
  BY <1>3, <1>4, <1>9, <1>10 DEF ReadCompact
<1>13. Compact(c) = [ip |-> c.ip, port |-> 0, peerPort |-> c.peerPort, id |-> c.id]
  BY DEF Compact, Contact
<1> QED
  BY <1>11, <1>12, <1>13 DEF w

-----------------------------------------------------------------------------
(* Responses: a text, a list of contacts, a list of contacts with a token, *)
(* or what was found for a key.                                            *)

DataResponse ==
    [id : MessageID, nodeID : ID, data : String \ {EmptyString}, contacts : {<<>>},
     findValueKey : {EmptyString}, token : {EmptyString}, version : {0}]

ListResponse ==
    [id : MessageID, nodeID : ID, data : {EmptyString}, contacts : Seq(Contact),
     findValueKey : {EmptyString}, token : String, version : {0}]

FoundResponse ==
    [id : MessageID, nodeID : ID, data : {EmptyString}, contacts : Seq(Contact),
     findValueKey : ID, token : String, version : {0}]

ResponseOf(m, data, contacts, key, token, version) ==
    [id |-> m.id, nodeID |-> m.nodeID, data |-> data, contacts |-> contacts, findValueKey |-> key,
     token |-> token, version |-> version]

(* d is a message from m with the payload p.                               *)
Pays(d, m, p) ==
    /\ ReadsHeader(DictValue(d)) /\ HeaderID(DictValue(d)) = m.id /\ HeaderNodeID(DictValue(d)) = m.nodeID
    /\ headerPayloadField \in DOMAIN d /\ d[headerPayloadField] = p

(* What a payload that is a string is read as,                             *)
LEMMA DataRead ==
    ASSUME NEW d, NEW m, NEW x, Pays(d, m, StrValue(x))
    PROVE  ReadResponse(DictValue(d)) = {ResponseOf(m, x, <<>>, EmptyString, EmptyString, 0)}
<1>1. DictValue(d).d = d /\ IsStr(StrValue(x)) /\ StrValue(x).s = x
  BY Kinds
<1> DEFINE w == DictValue(d)
<1>2. ReadResponse(w) = {[EmptyResponse(w) EXCEPT !.data = x]}
  BY <1>1 DEF Pays, ReadResponse
<1>3. [EmptyResponse(w) EXCEPT !.data = x] = ResponseOf(m, x, <<>>, EmptyString, EmptyString, 0)
  BY DEF Pays, EmptyResponse, ResponseOf
<1> QED
  BY <1>2, <1>3

(* one that is a list,                                                     *)
LEMMA ListRead ==
    ASSUME NEW d, NEW m, NEW p, Pays(d, m, p), IsList(p), ~IsStr(p), ~IsDict(p)
    PROVE  ReadResponse(DictValue(d)) =
              IF ReadsContacts(p) THEN {ResponseOf(m, EmptyString, ReadContacts(p), EmptyString, EmptyString, 0)}
              ELSE {Unread}
<1>1. DictValue(d).d = d
  BY Kinds
<1> DEFINE w == DictValue(d)
<1>2. ReadResponse(w) = IF ReadsContacts(p) THEN {[EmptyResponse(w) EXCEPT !.contacts = ReadContacts(p)]} ELSE {Unread}
  BY <1>1 DEF Pays, ReadResponse, EmptyResponse
<1>3. [EmptyResponse(w) EXCEPT !.contacts = ReadContacts(p)] =
          ResponseOf(m, EmptyString, ReadContacts(p), EmptyString, EmptyString, 0)
  BY DEF Pays, EmptyResponse, ResponseOf
<1> QED
  BY <1>2, <1>3

(* A dictionary with a token, and with a version or without.               *)
Tokened(f, t, v) ==
    /\ tokenField \in DOMAIN f /\ f[tokenField] = StrValue(t)
    /\ \/ protocolVersionField \in DOMAIN f /\ f[protocolVersionField] = IntValue(v)
       \/ protocolVersionField \notin DOMAIN f /\ v = 0

(* the token and the version of one that is a dictionary,                  *)
LEMMA FoundRead ==
    ASSUME NEW d, NEW m, NEW p, NEW f, NEW t, NEW v, Pays(d, m, p), Tokened(f, t, v)
    PROVE  TokenResponse(DictValue(d), f) = ResponseOf(m, EmptyString, <<>>, EmptyString, t, v)
<1> DEFINE w == DictValue(d)
           x == IF tokenField \in DOMAIN f THEN f[tokenField].s ELSE EmptyString
           y == IF protocolVersionField \in DOMAIN f THEN f[protocolVersionField].n ELSE 0
<1>1. IsStr(StrValue(t)) /\ StrValue(t).s = t /\ IsInt(IntValue(v)) /\ IntValue(v).n = v
  BY Kinds
<1>2. x = t /\ y = v
  BY <1>1 DEF Tokened
<1>3. EmptyResponse(w) = ResponseOf(m, EmptyString, <<>>, EmptyString, EmptyString, 0)
  BY DEF EmptyResponse, Pays, ResponseOf
<1>4. TokenResponse(w, f) = [EmptyResponse(w) EXCEPT !.token = x, !.version = y]
  BY DEF TokenResponse
<1> HIDE DEF w, x, y
<1> DEFINE e == [EmptyResponse(w) EXCEPT !.token = t]
<1>5. e = ResponseOf(m, EmptyString, <<>>, EmptyString, t, 0)
  BY <1>3 DEF ResponseOf
<1>6. [EmptyResponse(w) EXCEPT !.token = t, !.version = v] = [e EXCEPT !.version = v]
  OBVIOUS
<1> HIDE DEF e
<1>7. [e EXCEPT !.version = v] = ResponseOf(m, EmptyString, <<>>, EmptyString, t, v)
  BY <1>5 DEF ResponseOf
<1> QED
  BY <1>2, <1>4, <1>6, <1>7 DEF w

(* one with contacts and a token,                                          *)
LEMMA ContactsWithTokenRead ==
    ASSUME NEW d, NEW m, NEW f, NEW t, NEW v, Pays(d, m, DictValue(f)), Tokened(f, t, v),
           contactsField \in DOMAIN f
    PROVE  ReadResponse(DictValue(d)) =
              IF ReadsContacts(f[contactsField])
              THEN {ResponseOf(m, EmptyString, ReadContacts(f[contactsField]), EmptyString, t, v)}
              ELSE {Unread}
<1>1. DictValue(d).d = d /\ DictValue(f).d = f /\ IsDict(DictValue(f)) /\ ~IsStr(DictValue(f))
      /\ ~IsList(DictValue(f))
  BY Kinds
<1>2. IsStr(StrValue(t)) /\ StrValue(t).s = t /\ IsInt(IntValue(v)) /\ IntValue(v).n = v
  BY Kinds
<1>3. ~ReadsContacts(DictValue(f))
  BY <1>1 DEF ReadsContacts
<1>4. /\ tokenField \in DOMAIN f /\ IsStr(f[tokenField]) /\ f[tokenField].s = t
      /\ protocolVersionField \in DOMAIN f => IsInt(f[protocolVersionField])
      /\ (IF protocolVersionField \in DOMAIN f THEN f[protocolVersionField].n ELSE 0) = v
  BY <1>2 DEF Tokened
<1> DEFINE w == DictValue(d)
           cs == ReadContacts(f[contactsField])
<1>5. ReadResponse(w) = IF ReadsContacts(f[contactsField])
                        THEN {[TokenResponse(w, f) EXCEPT !.contacts = cs]} ELSE {Unread}
  BY <1>1, <1>3, <1>4 DEF Pays, ReadResponse
<1> HIDE DEF cs
<1>6. [TokenResponse(w, f) EXCEPT !.contacts = cs] = ResponseOf(m, EmptyString, cs, EmptyString, t, v)
  BY FoundRead DEF ResponseOf
<1> QED
  BY <1>5, <1>6 DEF cs

(* and one with peers for a value.                                         *)
LEMMA ValueRead ==
    ASSUME NEW d, NEW m, NEW f, NEW t, NEW v, NEW k, Pays(d, m, DictValue(f)), Tokened(f, t, v),
           contactsField \notin DOMAIN f, ValueKeys(f) = {k}, ReadsValue(f, k)
    PROVE  ReadResponse(DictValue(d)) =
              {ResponseOf(m, EmptyString, [i \in DOMAIN f[k].l |-> ReadCompact(f[k].l[i])], k, t, v)}
<1>1. DictValue(d).d = d /\ DictValue(f).d = f /\ IsDict(DictValue(f)) /\ ~IsStr(DictValue(f))
      /\ ~IsList(DictValue(f))
  BY Kinds
<1>2. IsStr(StrValue(t)) /\ StrValue(t).s = t /\ IsInt(IntValue(v)) /\ IntValue(v).n = v
  BY Kinds
<1>3. ~ReadsContacts(DictValue(f))
  BY <1>1 DEF ReadsContacts
<1>4. /\ tokenField \in DOMAIN f /\ IsStr(f[tokenField]) /\ f[tokenField].s = t
      /\ protocolVersionField \in DOMAIN f => IsInt(f[protocolVersionField])
      /\ (IF protocolVersionField \in DOMAIN f THEN f[protocolVersionField].n ELSE 0) = v
  BY <1>2 DEF Tokened
<1> DEFINE w == DictValue(d)
           cs == [i \in DOMAIN f[k].l |-> ReadCompact(f[k].l[i])]
<1>5. ReadResponse(w) = {[TokenResponse(w, f) EXCEPT !.findValueKey = k, !.contacts = cs]}
  <2>1. ReadResponse(w) = {ValueResponse(w, f, j) : j \in ValueKeys(f)}
    BY <1>1, <1>3, <1>4 DEF Pays, ReadResponse
  <2>2. ReadResponse(w) = {ValueResponse(w, f, k)}
    BY <2>1
  <2> QED
    BY <2>2 DEF ValueResponse
<1> HIDE DEF cs
<1>6. TokenResponse(w, f) = ResponseOf(m, EmptyString, <<>>, EmptyString, t, v)
  BY FoundRead
<1> HIDE DEF w
<1> DEFINE e == [TokenResponse(w, f) EXCEPT !.findValueKey = k]
<1>7. e = ResponseOf(m, EmptyString, <<>>, k, t, v)
  BY <1>6 DEF ResponseOf
<1>8. [TokenResponse(w, f) EXCEPT !.findValueKey = k, !.contacts = cs] = [e EXCEPT !.contacts = cs]
  OBVIOUS
<1> HIDE DEF e
<1>9. [e EXCEPT !.contacts = cs] = ResponseOf(m, EmptyString, cs, k, t, v)
  BY <1>7 DEF ResponseOf
<1> QED
  BY <1>5, <1>8, <1>9 DEF cs, w

(* A response as it is sent, and with the version that others add.         *)
LEMMA ResponseSent ==
    ASSUME NEW r, r.id \in MessageID, r.nodeID \in ID
    PROVE  LET p == ResponsePayload(r)
               w == WriteResponse(r)
           IN  /\ \E d : w = DictValue(d) /\ Pays(d, r, p)
               /\ ~IsDict(p) => ResponseWithVersion(w, 1) = w
               /\ IsDict(p) => \E d : /\ ResponseWithVersion(w, 1) = DictValue(d)
                                      /\ Pays(d, r, DictValue(p.d ++ Entry(protocolVersionField, IntValue(1))))
<1> DEFINE p == ResponsePayload(r)
           w == WriteResponse(r)
           d == Header(responseType, r) ++ Entry(headerPayloadField, p)
           pv == DictValue(p.d ++ Entry(protocolVersionField, IntValue(1)))
           dv == [d EXCEPT ![headerPayloadField] = pv]
<1>1. w = DictValue(d) /\ w.d = d
  BY Kinds DEF WriteResponse
<1>2. /\ ReadsHeader(DictValue(d)) /\ HeaderID(DictValue(d)) = r.id /\ HeaderNodeID(DictValue(d)) = r.nodeID
      /\ headerPayloadField \in DOMAIN d /\ d[headerPayloadField] = p
      /\ headerMessageIDField \in DOMAIN d /\ d[headerMessageIDField] = StrValue(r.id)
      /\ headerNodeIDField \in DOMAIN d /\ d[headerNodeIDField] = StrValue(r.nodeID)
  BY OneField
<1> HIDE DEF p, w, d, pv
<1>3. Pays(d, r, p)
  BY <1>2 DEF Pays
<1>4. /\ DOMAIN dv = DOMAIN d /\ dv[headerPayloadField] = pv
      /\ \A k \in DOMAIN d : k # headerPayloadField => dv[k] = d[k]
  BY <1>2
<1>5. ~IsDict(p) => ResponseWithVersion(w, 1) = w
  BY <1>1, <1>2 DEF ResponseWithVersion
<1>6. IsDict(p) => ResponseWithVersion(w, 1) = DictValue(dv)
  BY <1>1, <1>2 DEF ResponseWithVersion, pv
<1> HIDE DEF dv
<1>7. /\ headerPayloadField \in DOMAIN dv /\ dv[headerPayloadField] = pv
      /\ headerMessageIDField \in DOMAIN dv /\ dv[headerMessageIDField] = StrValue(r.id)
      /\ headerNodeIDField \in DOMAIN dv /\ dv[headerNodeIDField] = StrValue(r.nodeID)
  BY <1>2, <1>4, Names
<1>8. Pays(dv, r, pv)
  BY <1>7, HeaderRead DEF Pays
<1> QED
  BY <1>1, <1>3, <1>5, <1>6, <1>8 DEF p, w, pv

(* The answer to a ping or a store request is read as it was written.      *)
LEMMA DataResponseArrives ==
    ASSUME NEW r \in DataResponse
    PROVE  ResponseArrives(r)
<1> DEFINE w == WriteResponse(r)
           p == ResponsePayload(r)
<1>1. /\ r.id \in MessageID /\ r.nodeID \in ID /\ r.contacts = <<>> /\ r.findValueKey = EmptyString
      /\ r = ResponseOf(r, r.data, <<>>, EmptyString, EmptyString, 0) /\ r.data # EmptyString
  BY DEF DataResponse, ResponseOf
<1>2. p = StrValue(r.data) /\ ~IsDict(p)
  BY <1>1, Kinds DEF ResponsePayload
<1>3. ResponseWithVersion(w, 1) = w /\ \E d : w = DictValue(d) /\ Pays(d, r, p)
  BY <1>1, <1>2, ResponseSent
<1>4. ReadResponse(w) = {ResponseOf(r, r.data, <<>>, EmptyString, EmptyString, 0)}
  BY <1>2, <1>3, DataRead
<1>5. Carried(r) = r /\ [Carried(r) EXCEPT !.version = 0] = r
  <2>1. [i \in DOMAIN r.contacts |->
            IF r.findValueKey # EmptyString THEN [r.contacts[i] EXCEPT !.port = 0]
            ELSE [r.contacts[i] EXCEPT !.peerPort = 0]] = <<>>
    BY <1>1
  <2>2. Carried(r) = [r EXCEPT !.contacts = <<>>]
    BY <2>1 DEF Carried
  <2> QED
    BY <1>1, <2>2 DEF DataResponse
<1>6. \A i \in DOMAIN r.contacts : FALSE
  BY <1>1
<1> HIDE DEF w
<1>7. ReadResponse(w) = {r}
  BY <1>1, <1>4
<1>8. ReadResponse(w) = {Carried(r)} /\ ReadResponse(w) = {[Carried(r) EXCEPT !.version = 0]}
  BY <1>5, <1>7
<1> QED
  BY <1>3, <1>6, <1>8 DEF ResponseArrives, w

(* A value and a token, and the version that others add.                   *)
LEMMA TokenFields ==
    ASSUME NEW k, k # tokenField, k # protocolVersionField, NEW x, NEW t
    PROVE  LET f  == Entry(k, x) ++ Entry(tokenField, StrValue(t))
               fv == f ++ Entry(protocolVersionField, IntValue(1))
           IN  /\ DOMAIN f = {k, tokenField} /\ f[k] = x /\ Tokened(f, t, 0)
               /\ DOMAIN fv = {k, tokenField, protocolVersionField} /\ fv[k] = x /\ Tokened(fv, t, 1)
<1> DEFINE a == Entry(k, x)
           b == Entry(tokenField, StrValue(t))
           c == Entry(protocolVersionField, IntValue(1))
           f == a ++ b
<1>1. /\ DOMAIN a = {k} /\ a[k] = x /\ DOMAIN b = {tokenField} /\ b[tokenField] = StrValue(t)
      /\ DOMAIN c = {protocolVersionField} /\ c[protocolVersionField] = IntValue(1)
  BY Single
<1>2. /\ DOMAIN f = DOMAIN a \cup DOMAIN b
      /\ \A j \in DOMAIN a : f[j] = a[j]
      /\ \A j \in DOMAIN b : j \notin DOMAIN a => f[j] = b[j]
  <2> HIDE DEF a, b
  <2> QED
    BY Joined
<1>3. /\ DOMAIN (f ++ c) = DOMAIN f \cup DOMAIN c
      /\ \A j \in DOMAIN f : (f ++ c)[j] = f[j]
      /\ \A j \in DOMAIN c : j \notin DOMAIN f => (f ++ c)[j] = c[j]
  <2> HIDE DEF f, c
  <2> QED
    BY Joined
<1> HIDE DEF a, b, c, f
<1>4. DOMAIN f = {k, tokenField} /\ f[k] = x /\ f[tokenField] = StrValue(t)
  BY <1>1, <1>2
<1>5. /\ DOMAIN (f ++ c) = {k, tokenField, protocolVersionField} /\ (f ++ c)[k] = x
      /\ (f ++ c)[tokenField] = StrValue(t) /\ (f ++ c)[protocolVersionField] = IntValue(1)
  BY <1>1, <1>3, <1>4, Names
<1>6. Tokened(f, t, 0)
  BY <1>4, Names DEF Tokened
<1>7. Tokened(f ++ c, t, 1)
  BY <1>5 DEF Tokened
<1> QED
  BY <1>4, <1>5, <1>6, <1>7 DEF f, a, b, c

(* A message with another payload is another message.                      *)
LEMMA VersionSeen ==
    ASSUME NEW d, NEW e, NEW m, NEW f, NEW g, Pays(d, m, DictValue(f)), Pays(e, m, DictValue(g)),
           protocolVersionField \notin DOMAIN f, protocolVersionField \in DOMAIN g
    PROVE  DictValue(d) # DictValue(e)
<1>1. DictValue(d).d = d /\ DictValue(e).d = e /\ DictValue(f).d = f /\ DictValue(g).d = g
  BY Kinds
<1> SUFFICES ASSUME DictValue(d) = DictValue(e) PROVE FALSE
  OBVIOUS
<1>2. d = e
  BY <1>1
<1>3. DictValue(f) = DictValue(g)
  BY <1>2 DEF Pays
<1> QED
  BY <1>1, <1>3

(* What is to be shown of a response that is a dictionary.                 *)
LEMMA ListResponseArrives ==
    ASSUME NEW r \in ListResponse
    PROVE  ResponseArrives(r)
<1> DEFINE w == WriteResponse(r)
           wv == ResponseWithVersion(w, 1)
           p == ResponsePayload(r)
           cs == r.contacts
           lc == [i \in DOMAIN cs |-> Listed(cs[i])]
           bad == \E i \in DOMAIN cs : To4(cs[i].ip) = NilIP
<1>1. /\ r.id \in MessageID /\ r.nodeID \in ID /\ cs \in Seq(Contact) /\ r.findValueKey = EmptyString
      /\ r.data = EmptyString /\ r.version = 0
      /\ r = ResponseOf(r, EmptyString, cs, EmptyString, r.token, 0)
  BY DEF ListResponse, ResponseOf
<1>2. /\ IsList(WriteContacts(cs))
      /\ ReadsContacts(WriteContacts(cs)) <=> ~bad
      /\ ~bad => ReadContacts(WriteContacts(cs)) = lc
  BY <1>1, ContactsRead
<1>3. Carried(r) = ResponseOf(r, EmptyString, lc, EmptyString, r.token, 0)
  <2>1. lc = [i \in DOMAIN r.contacts |->
                IF r.findValueKey # EmptyString THEN [r.contacts[i] EXCEPT !.port = 0]
                ELSE [r.contacts[i] EXCEPT !.peerPort = 0]]
    BY <1>1 DEF Listed
  <2>2. Carried(r) = [r EXCEPT !.contacts = lc]
    BY <2>1 DEF Carried
  <2> HIDE DEF lc
  <2> QED
    BY <2>2 DEF ListResponse, ResponseOf
<1>4. \A v : [Carried(r) EXCEPT !.version = v] = ResponseOf(r, EmptyString, lc, EmptyString, r.token, v)
  <2> HIDE DEF lc
  <2> QED
    BY <1>3 DEF ResponseOf
<1> HIDE DEF lc, bad
<1>5. CASE r.token = EmptyString
  <2>1. p = WriteContacts(cs)
    BY <1>1, <1>5 DEF ResponsePayload
  <2>2. ~IsDict(p) /\ ~IsStr(p)
    BY <2>1, Kinds DEF WriteContacts
  <2>3. wv = w /\ \E d : w = DictValue(d) /\ Pays(d, r, p)
    BY <1>1, <2>2, ResponseSent
  <2> PICK d : w = DictValue(d) /\ Pays(d, r, p)
    BY <2>3
  <2> HIDE DEF p, w, wv
  <2>4. ReadResponse(w) = IF ReadsContacts(p)
                          THEN {ResponseOf(r, EmptyString, ReadContacts(p), EmptyString, EmptyString, 0)}
                          ELSE {Unread}
    BY <1>2, <2>1, <2>2, <2>3, ListRead
  <2>5. ReadResponse(w) = IF bad THEN {Unread} ELSE {ResponseOf(r, EmptyString, lc, EmptyString, r.token, 0)}
    BY <1>2, <1>5, <2>1, <2>4
  <2>6. /\ ReadResponse(w) = IF bad THEN {Unread} ELSE {Carried(r)}
        /\ ReadResponse(wv) = IF bad THEN {Unread} ELSE {[Carried(r) EXCEPT !.version = IF wv = w THEN 0 ELSE 1]}
    BY <1>3, <1>4, <2>3, <2>5
  <2> QED
    BY <1>1, <2>6 DEF ResponseArrives, w, wv, bad
<1>6. CASE r.token # EmptyString
  <2> DEFINE f == Entry(contactsField, WriteContacts(cs)) ++ Entry(tokenField, StrValue(r.token))
             fv == f ++ Entry(protocolVersionField, IntValue(1))
  <2>1. p = DictValue(f)
    BY <1>1, <1>6 DEF ResponsePayload
  <2>2. IsDict(p) /\ p.d = f
    BY <2>1, Kinds
  <2>3. /\ DOMAIN f = {contactsField, tokenField} /\ f[contactsField] = WriteContacts(cs) /\ Tokened(f, r.token, 0)
        /\ DOMAIN fv = {contactsField, tokenField, protocolVersionField} /\ fv[contactsField] = WriteContacts(cs)
        /\ Tokened(fv, r.token, 1)
    BY Names, TokenFields
  <2>4. /\ \E d : w = DictValue(d) /\ Pays(d, r, p)
        /\ \E d : wv = DictValue(d) /\ Pays(d, r, DictValue(p.d ++ Entry(protocolVersionField, IntValue(1))))
    BY <1>1, <2>2, ResponseSent
  <2>5. PICK d : w = DictValue(d) /\ Pays(d, r, DictValue(f))
    BY <2>1, <2>4
  <2>6. PICK e : wv = DictValue(e) /\ Pays(e, r, DictValue(fv))
    BY <2>2, <2>4
  <2> HIDE DEF p, w, wv, f, fv
  <2>7. wv # w
    BY <2>3, <2>5, <2>6, Names, VersionSeen
  <2>8. ReadResponse(w) = IF bad THEN {Unread} ELSE {ResponseOf(r, EmptyString, lc, EmptyString, r.token, 0)}
    <3>1. contactsField \in DOMAIN f
      BY <2>3
    <3>2. ReadResponse(w) =
            IF ReadsContacts(f[contactsField])
            THEN {ResponseOf(r, EmptyString, ReadContacts(f[contactsField]), EmptyString, r.token, 0)}
            ELSE {Unread}
      BY <2>3, <2>5, <3>1, ContactsWithTokenRead
    <3> QED
      BY <1>2, <2>3, <3>2
  <2>9. ReadResponse(wv) = IF bad THEN {Unread} ELSE {ResponseOf(r, EmptyString, lc, EmptyString, r.token, 1)}
    <3>1. contactsField \in DOMAIN fv
      BY <2>3
    <3>2. ReadResponse(wv) =
            IF ReadsContacts(fv[contactsField])
            THEN {ResponseOf(r, EmptyString, ReadContacts(fv[contactsField]), EmptyString, r.token, 1)}
            ELSE {Unread}
      BY <2>3, <2>6, <3>1, ContactsWithTokenRead
    <3> QED
      BY <1>2, <2>3, <3>2
  <2>10. /\ ReadResponse(w) = IF bad THEN {Unread} ELSE {Carried(r)}
         /\ ReadResponse(wv) = IF bad THEN {Unread} ELSE {[Carried(r) EXCEPT !.version = IF wv = w THEN 0 ELSE 1]}
    BY <1>3, <1>4, <2>7, <2>8, <2>9
  <2> QED
    BY <1>1, <2>10 DEF ResponseArrives, w, wv, bad
<1> QED
  BY <1>5, <1>6

(* So is an answer with peers for a value.                                 *)
LEMMA FoundResponseArrives ==
    ASSUME NEW r \in FoundResponse
    PROVE  ResponseArrives(r)
<1> SUFFICES ASSUME WritesResponse(r) PROVE ResponseArrives(r)
  BY DEF ResponseArrives
<1> DEFINE w == WriteResponse(r)
           wv == ResponseWithVersion(w, 1)
           p == ResponsePayload(r)
           cs == r.contacts
           k == r.findValueKey
           lc == [i \in DOMAIN cs |-> Compact(cs[i])]
           q == [i \in DOMAIN cs |-> StrValue(WriteCompact(cs[i]))]
           f == Entry(k, ListValue(q)) ++ Entry(tokenField, StrValue(r.token))
           fv == f ++ Entry(protocolVersionField, IntValue(1))
<1>1. /\ r.id \in MessageID /\ r.nodeID \in ID /\ cs \in Seq(Contact) /\ k \in ID
      /\ r.data = EmptyString /\ r.version = 0
  BY DEF FoundResponse
<1>2. k # EmptyString /\ k # contactsField /\ k # tokenField /\ k # protocolVersionField
  BY <1>1, IdNames
<1>3. \A i \in DOMAIN cs : cs[i] \in Contact /\ WritesCompact(cs[i])
  <2>1. \A i \in DOMAIN cs : cs[i] \in Contact
    BY <1>1
  <2> QED
    BY <1>1, <1>2, <2>1 DEF WritesResponse
<1>4. /\ \A i \in DOMAIN q : ReadsCompact(q[i])
      /\ [i \in DOMAIN q |-> ReadCompact(q[i])] = lc
  <2>1. DOMAIN q = DOMAIN cs /\ \A i \in DOMAIN cs : q[i] = StrValue(WriteCompact(cs[i]))
    OBVIOUS
  <2>2. \A i \in DOMAIN cs : ReadsCompact(q[i]) /\ ReadCompact(q[i]) = Compact(cs[i])
    BY <1>3, <2>1, CompactRead
  <2> HIDE DEF q
  <2> QED
    BY <2>1, <2>2
<1>5. Carried(r) = ResponseOf(r, EmptyString, lc, k, r.token, 0)
  <2>1. lc = [i \in DOMAIN r.contacts |->
                IF r.findValueKey # EmptyString THEN [r.contacts[i] EXCEPT !.port = 0]
                ELSE [r.contacts[i] EXCEPT !.peerPort = 0]]
    BY <1>2 DEF Compact
  <2>2. Carried(r) = [r EXCEPT !.contacts = lc]
    BY <2>1 DEF Carried
  <2> HIDE DEF lc
  <2> QED
    BY <2>2 DEF FoundResponse, ResponseOf
<1>6. \A v : [Carried(r) EXCEPT !.version = v] = ResponseOf(r, EmptyString, lc, k, r.token, v)
  <2> HIDE DEF lc
  <2> QED
    BY <1>5 DEF ResponseOf
<1>7. p = DictValue(f)
  BY <1>1, <1>2 DEF ResponsePayload
<1> HIDE DEF lc, q, k
<1>8. IsDict(p) /\ p.d = f /\ ListValue(q).l = q /\ IsList(ListValue(q))
  BY <1>7, Kinds
<1>9. /\ DOMAIN f = {k, tokenField} /\ f[k] = ListValue(q) /\ Tokened(f, r.token, 0)
      /\ DOMAIN fv = {k, tokenField, protocolVersionField} /\ fv[k] = ListValue(q)
      /\ Tokened(fv, r.token, 1)
  BY <1>2, TokenFields
<1>10. /\ \E d : w = DictValue(d) /\ Pays(d, r, p)
       /\ \E d : wv = DictValue(d) /\ Pays(d, r, DictValue(p.d ++ Entry(protocolVersionField, IntValue(1))))
  BY <1>1, <1>8, ResponseSent
<1>11. PICK d : w = DictValue(d) /\ Pays(d, r, DictValue(f))
  BY <1>7, <1>10
<1>12. PICK e : wv = DictValue(e) /\ Pays(e, r, DictValue(fv))
  BY <1>8, <1>10
<1> HIDE DEF p, w, wv, f, fv
<1>13. wv # w
  BY <1>2, <1>9, <1>11, <1>12, Names, VersionSeen
<1>14. ValueKeys(f) = {k} /\ ValueKeys(fv) = {k} /\ contactsField \notin DOMAIN f /\ contactsField \notin DOMAIN fv
  BY <1>2, <1>9, Names DEF ValueKeys
<1>15. ReadsValue(f, k) /\ ReadsValue(fv, k)
  BY <1>4, <1>8, <1>9 DEF ReadsValue
<1>16. ReadResponse(w) = {ResponseOf(r, EmptyString, lc, k, r.token, 0)}
  <2>1. ReadResponse(w) =
          {ResponseOf(r, EmptyString, [i \in DOMAIN f[k].l |-> ReadCompact(f[k].l[i])], k, r.token, 0)}
    BY <1>9, <1>11, <1>14, <1>15, ValueRead
  <2> QED
    BY <1>4, <1>8, <1>9, <2>1
<1>17. ReadResponse(wv) = {ResponseOf(r, EmptyString, lc, k, r.token, 1)}
  <2>1. ReadResponse(wv) =
          {ResponseOf(r, EmptyString, [i \in DOMAIN fv[k].l |-> ReadCompact(fv[k].l[i])], k, r.token, 1)}
    BY <1>9, <1>12, <1>14, <1>15, ValueRead
  <2> QED
    BY <1>4, <1>8, <1>9, <2>1
<1>18. /\ ReadResponse(w) = {Carried(r)}
       /\ ReadResponse(wv) = {[Carried(r) EXCEPT !.version = IF wv = w THEN 0 ELSE 1]}
  BY <1>5, <1>6, <1>13, <1>16, <1>17
<1> QED
  BY <1>2, <1>18 DEF ResponseArrives, w, wv, k

-----------------------------------------------------------------------------
(* Every message that the DHT makes.                                       *)

(* UnmarshalBencode reads every Request, Response and Error that           *)
(* MarshalBencode writes, for all ids, tokens, contacts and ports, and the *)
(* same message with the protocol version other implementations add, as    *)
(* the message it was: but for the port that its form of a contact leaves  *)
(* out, and a list with a contact that has no IPv4 address is refused.     *)
THEOREM EveryMessageArrives ==
    /\ \A r \in PlainRequest \cup StoreRequest : RequestArrives(r)
    /\ \A r \in DataResponse \cup ListResponse \cup FoundResponse : ResponseArrives(r)
    /\ \A e \in ErrorType : ErrorArrives(e)
BY PlainRequestArrives, StoreRequestArrives, DataResponseArrives, ListResponseArrives,
   FoundResponseArrives, EveryErrorArrives

(* The messages of the run are such messages.                              *)
LEMMA RunIds == Ids \subseteq ID /\ MsgIds \subseteq MessageID
<1>1. ByteBase \in 4..500 /\ IdBytes \in Nat /\ MsgIdBytes \in Nat
  BY MessagesAssumption
<1>2. ASSUME NEW n \in 1..2 PROVE [i \in 1..IdBytes |-> IF i = 1 THEN n ELSE n - 1] \in ID
  BY <1>1 DEF ID
<1>3. ASSUME NEW n \in 0..1 PROVE [i \in 1..MsgIdBytes |-> n] \in MessageID
  BY <1>1 DEF MessageID
<1> QED
  BY <1>2, <1>3 DEF Ids, MsgIds

(* The contacts are contacts,                                              *)
LEMMA RunContacts == ContactLists \subseteq Seq(Contact)
<1>1. ByteBase \in 4..500 /\ IdBytes \in Nat
  BY MessagesAssumption
<1>2. [i \in 1..IdBytes |-> (1 + i) % 3] \in ID
  <2>1. \A i \in 1..IdBytes : (1 + i) % 3 \in 0..2
    BY <1>1
  <2> QED
    BY <1>1, <2>1 DEF ID
<1>3. [i \in 1..IdBytes |-> 3] \in ID
  BY <1>1 DEF ID
<1>4. NilIP \in IP /\ 1 \in IP /\ 2 \in IP /\ 3 \in IP /\ IPv6 \in IP
  BY <1>1 DEF IP, NilIP
<1>5. OneContact \subseteq Contact
  <2> DEFINE id == [i \in 1..IdBytes |-> (1 + i) % 3]
  <2>1. OneContact = [id : {id}, ip : {NilIP, 1, 3, IPv6}, port : {5}, peerPort : {0, 6, 15, 16}]
    BY DEF OneContact
  <2> HIDE DEF id
  <2>2. id \in ID
    BY <1>2 DEF id
  <2>3. {id} \subseteq ID /\ {NilIP, 1, 3, IPv6} \subseteq IP /\ {5} \subseteq Int /\ {0, 6, 15, 16} \subseteq Int
    BY <1>4, <2>2
  <2> QED
    BY <2>1, <2>3 DEF Contact
<1>6. OtherContact \in Contact
  BY <1>3, <1>4 DEF OtherContact, Contact
<1>7. \A c \in Contact : <<c>> \in Seq(Contact) /\ <<c, OtherContact>> \in Seq(Contact)
  BY <1>6
<1>8. <<>> \in Seq(Contact)
  OBVIOUS
<1> QED
  BY <1>5, <1>7, <1>8 DEF ContactLists

(* the strings strings,                                                    *)
LEMMA RunStrings ==
    /\ Tokens \subseteq String
    /\ {pingMethod, findNodeMethod, findValueMethod} \subseteq String \ {storeMethod}
    /\ {pingSuccessResponse, storeSuccessResponse} \subseteq String \ {EmptyString}
    /\ {EmptyString, <<3>>} \subseteq String
    /\ {<<>>, << <<1>> >>, << <<1>>, <<2>> >>} \subseteq Seq(String)
BY DEF Tokens, String, EmptyString, pingMethod, findNodeMethod, findValueMethod, storeMethod,
       pingSuccessResponse, storeSuccessResponse

(* the requests requests,                                                  *)
LEMMA RunRequests == Requests \subseteq PlainRequest \cup StoreRequest
<1>1. [blobHash : Ids, token : Tokens, lbryID : Ids, port : 0..1, nodeID : Ids, selfStore : BOOLEAN]
        \subseteq StoreArgsType
  BY RunIds, RunStrings DEF StoreArgsType
<1>2. [id : MsgIds, nodeID : Ids, method : {pingMethod, findNodeMethod, findValueMethod},
       storeArgs : {<<>>}, arg : {<<>>} \cup {<<x>> : x \in Ids}, version : {0}] \subseteq PlainRequest
  <2>1. {<<>>} \cup {<<x>> : x \in Ids} \subseteq {<<>>} \cup {<<x>> : x \in ID}
    BY RunIds
  <2> QED
    BY <2>1, RunIds, RunStrings DEF PlainRequest
<1>3. [id : MsgIds, nodeID : Ids, method : {storeMethod},
       storeArgs : {<<a>> : a \in [blobHash : Ids, token : Tokens, lbryID : Ids, port : 0..1,
                                   nodeID : Ids, selfStore : BOOLEAN]},
       arg : {<<>>}, version : {0}] \subseteq StoreRequest
  <2>1. {<<a>> : a \in [blobHash : Ids, token : Tokens, lbryID : Ids, port : 0..1,
                        nodeID : Ids, selfStore : BOOLEAN]} \subseteq {<<a>> : a \in StoreArgsType}
    BY <1>1
  <2> QED
    BY <2>1, RunIds DEF StoreRequest
<1> QED
  BY <1>2, <1>3 DEF Requests

(* the responses responses,                                                *)
LEMMA RunResponses == Responses \subseteq DataResponse \cup ListResponse \cup FoundResponse
<1>1. [id : MsgIds, nodeID : Ids, data : {pingSuccessResponse, storeSuccessResponse},
       contacts : {<<>>}, findValueKey : {EmptyString}, token : {EmptyString}, version : {0}]
        \subseteq DataResponse
  BY RunIds, RunStrings DEF DataResponse
<1>2. [i \in 1..IdBytes |-> 1] \in ID
  BY MessagesAssumption DEF ID
<1> DEFINE S == [id : MsgIds, nodeID : {[i \in 1..IdBytes |-> 1]}, data : {EmptyString}, contacts : ContactLists,
                 findValueKey : {EmptyString} \cup Ids, token : Tokens, version : {0}]
<1>3. ASSUME NEW r \in S PROVE r \in ListResponse \cup FoundResponse
  <2>1. CASE r.findValueKey = EmptyString
    BY <1>2, <2>1, RunIds, RunStrings, RunContacts DEF ListResponse
  <2>2. CASE r.findValueKey \in Ids
    BY <1>2, <2>2, RunIds, RunStrings, RunContacts DEF FoundResponse
  <2> QED
    BY <2>1, <2>2
<1> QED
  BY <1>1, <1>3 DEF Responses

(* and the errors errors.                                                  *)
LEMMA RunErrors == Errors \subseteq ErrorType
BY RunIds, RunStrings DEF Errors, ErrorType

-----------------------------------------------------------------------------
(* Claims.                                                                 *)

(* A string that was put together is taken apart again.                    *)
LEMMA TakenApart ==
    ASSUME NEW S, NEW a \in Seq(S), NEW b \in Seq(S)
    PROVE  /\ SubSeq(a \o b, 1, Len(a)) = a
           /\ SubSeq(a \o b, Len(a) + 1, Len(a \o b)) = b
<1> DEFINE q == a \o b
           m == Len(a)
           n == Len(b)
<1>1. m \in Nat /\ n \in Nat
  BY LenProperties
<1>2. /\ q \in Seq(S) /\ Len(q) = m + n
      /\ \A i \in 1 .. m + n : q[i] = IF i <= m THEN a[i] ELSE b[i - m]
  BY ConcatProperties
<1> HIDE DEF q
<1>3. /\ SubSeq(q, 1, m) = [i \in 1 .. m |-> q[i]]
      /\ SubSeq(q, m + 1, m + n) = [i \in 1 .. n |-> q[i + m]]
  BY <1>1, <1>2
<1>4. a = [i \in 1 .. m |-> a[i]] /\ b = [i \in 1 .. n |-> b[i]]
  BY LenProperties
<1> HIDE DEF m, n
<1>5. \A i \in 1 .. m : q[i] = a[i]
  BY <1>1, <1>2
<1>6. \A i \in 1 .. n : q[i + m] = b[i]
  <2> TAKE i \in 1 .. n
  <2>1. i + m \in 1 .. m + n /\ ~(i + m <= m) /\ (i + m) - m = i
    BY <1>1
  <2> QED
    BY <1>2, <2>1
<1>7. SubSeq(q, 1, m) = a
  BY <1>3, <1>4, <1>5
<1>8. SubSeq(q, m + 1, m + n) = b
  BY <1>3, <1>4, <1>6
<1> QED
  BY <1>2, <1>7, <1>8 DEF q, m

(* Strings that are equal have equal parts.                                *)
LEMMA SameParts ==
    ASSUME NEW S, NEW a \in Seq(S), NEW b \in Seq(S), NEW c \in Seq(S), NEW d \in Seq(S),
           Len(a) = Len(c), a \o b = c \o d
    PROVE  a = c /\ b = d
<1>1. SubSeq(a \o b, 1, Len(a)) = a /\ SubSeq(a \o b, Len(a) + 1, Len(a \o b)) = b
  BY TakenApart
<1>2. SubSeq(c \o d, 1, Len(c)) = c /\ SubSeq(c \o d, Len(c) + 1, Len(c \o d)) = d
  BY TakenApart
<1> QED
  BY <1>1, <1>2

(* A compiled value and its parts.                                         *)
Wrapped(v, id, sig, p) == <<v>> \o (id \o sig) \o p

Unwraps(raw, v, id, sig, p) ==
    /\ raw # <<>> /\ raw[1] = v
    /\ ~(Len(raw) < HeaderLen)
    /\ SubSeq(raw, 2, 1 + IdLen) = id
    /\ SubSeq(raw, 2 + IdLen, HeaderLen) = sig
    /\ SubSeq(raw, HeaderLen + 1, Len(raw)) = p

(* A signed value is taken apart into what it was put together from.       *)
LEMMA Unwrapped ==
    ASSUME NEW S, NEW v \in S, NEW id \in Seq(S), NEW sig \in Seq(S), NEW p \in Seq(S),
           Len(id) = IdLen, Len(sig) = SigLen
    PROVE  Unwraps(Wrapped(v, id, sig, p), v, id, sig, p)
<1> DEFINE raw == Wrapped(v, id, sig, p)
           k == Len(p)
<1>1. IdLen \in Nat /\ SigLen \in Nat /\ k \in Nat /\ HeaderLen = 1 + IdLen + SigLen
  BY LenProperties DEF HeaderLen
<1> DEFINE x == <<v>> \o (id \o sig)
<1>2. <<v>> \in Seq(S) /\ Len(<<v>>) = 1 /\ <<v>>[1] = v
  OBVIOUS
<1>3. id \o sig \in Seq(S) /\ Len(id \o sig) = IdLen + SigLen
      /\ \A i \in 1 .. IdLen + SigLen : (id \o sig)[i] = IF i <= IdLen THEN id[i] ELSE sig[i - IdLen]
  BY ConcatProperties
<1>4. x \in Seq(S) /\ Len(x) = 1 + (IdLen + SigLen)
      /\ \A i \in 1 .. 1 + (IdLen + SigLen) : x[i] = IF i <= 1 THEN v ELSE (id \o sig)[i - 1]
  <2>1. x \in Seq(S) /\ Len(x) = Len(<<v>>) + Len(id \o sig)
        /\ \A i \in 1 .. Len(<<v>>) + Len(id \o sig) : x[i] = IF i <= Len(<<v>>) THEN <<v>>[i] ELSE (id \o sig)[i - Len(<<v>>)]
    BY <1>2, <1>3, ConcatProperties
  <2> HIDE DEF x
  <2>2. ASSUME NEW i \in 1 .. 1 + (IdLen + SigLen) PROVE x[i] = IF i <= 1 THEN v ELSE (id \o sig)[i - 1]
    <3>1. CASE i <= 1
      BY <1>1, <1>2, <1>3, <2>1, <3>1
    <3>2. CASE ~(i <= 1)
      BY <1>1, <1>2, <1>3, <2>1, <3>2
    <3> QED
      BY <3>1, <3>2
  <2> QED
    BY <1>2, <1>3, <2>1, <2>2
<1>5. raw = x \o p
  BY DEF Wrapped
<1> HIDE DEF x
<1>6. Len(x) = HeaderLen
  BY <1>1, <1>4
<1>7. raw \in Seq(S) /\ Len(raw) = HeaderLen + k
      /\ \A i \in 1 .. HeaderLen + k : raw[i] = IF i <= HeaderLen THEN x[i] ELSE p[i - HeaderLen]
  <2>0. x \in Seq(S)
    BY <1>4
  <2>1. /\ x \o p \in Seq(S) /\ Len(x \o p) = Len(x) + Len(p)
        /\ \A i \in 1 .. Len(x) + Len(p) : (x \o p)[i] = IF i <= Len(x) THEN x[i] ELSE p[i - Len(x)]
    BY <2>0, ConcatProperties
  <2> QED
    BY <1>5, <1>6, <2>1
<1>8. SubSeq(raw, HeaderLen + 1, Len(raw)) = p
  BY <1>4, <1>5, <1>6, TakenApart
<1> HIDE DEF raw, k
<1>9. raw[1] = v /\ raw # <<>>
  <2>1. 1 \in 1 .. HeaderLen + k /\ 1 \in 1 .. 1 + (IdLen + SigLen) /\ 1 <= HeaderLen
    BY <1>1
  <2>2. raw[1] = v
    BY <1>4, <1>7, <2>1
  <2>3. Len(raw) # 0
    BY <1>1, <1>7
  <2> QED
    BY <2>2, <2>3
<1>10. \A i \in 1 .. IdLen + SigLen : raw[1 + i] = (id \o sig)[i]
  <2> TAKE i \in 1 .. IdLen + SigLen
  <2>1. /\ 1 + i \in 1 .. HeaderLen + k /\ 1 + i \in 1 .. 1 + (IdLen + SigLen) /\ 1 + i <= HeaderLen
        /\ ~(1 + i <= 1) /\ (1 + i) - 1 = i
    BY <1>1
  <2> QED
    BY <1>4, <1>7, <2>1
<1>11. SubSeq(raw, 2, 1 + IdLen) = id
  <2>1. SubSeq(raw, 2, 1 + IdLen) = [i \in 1 .. IdLen |-> raw[i + 1]]
    BY <1>1, <1>7
  <2>2. id = [i \in 1 .. IdLen |-> id[i]]
    BY LenProperties
  <2>3. \A i \in 1 .. IdLen : raw[i + 1] = id[i]
    <3> TAKE i \in 1 .. IdLen
    <3>1. i \in 1 .. IdLen + SigLen /\ i <= IdLen /\ i + 1 = 1 + i
      BY <1>1
    <3> QED
      BY <1>3, <1>10, <3>1
  <2> QED
    BY <2>1, <2>2, <2>3
<1>12. SubSeq(raw, 2 + IdLen, HeaderLen) = sig
  <2>1. SubSeq(raw, 2 + IdLen, HeaderLen) = [i \in 1 .. SigLen |-> raw[i + (1 + IdLen)]]
    BY <1>1, <1>7
  <2>2. sig = [i \in 1 .. SigLen |-> sig[i]]
    BY LenProperties
  <2>3. \A i \in 1 .. SigLen : raw[i + (1 + IdLen)] = sig[i]
    <3> TAKE i \in 1 .. SigLen
    <3>1. IdLen + i \in 1 .. IdLen + SigLen /\ ~(IdLen + i <= IdLen) /\ i + (1 + IdLen) = 1 + (IdLen + i)
          /\ (IdLen + i) - IdLen = i
      BY <1>1
    <3> QED
      BY <1>3, <1>10, <3>1
  <2> QED
    BY <2>1, <2>2, <2>3
<1>13. ~(Len(raw) < HeaderLen)
  BY <1>1, <1>7
<1> QED
  BY <1>8, <1>9, <1>11, <1>12, <1>13 DEF raw, Unwraps

-----------------------------------------------------------------------------
(* The messages of claims and supports, and the helpers that hold them:    *)
(* what protobuf can write, the certificate of a channel being a key.      *)

Claim(M) ==
    {c \in [type : M, title : M, key : M, extra : {FALSE}, meta : M] :
        c.type = "channel" => GetPublicKeyFromBytes(c.key) # "none"}

HelperType(M, B) ==
    {h \in [claim : Claim(M) \cup {NilClaim}, support : M, legacy : {<<>>},
            claimID : {<<>>} \cup [1..IdLen -> B], version : {"NoSig", "WithSig"},
            signature : {<<>>} \cup [1..SigLen -> B], payload : {<<>>}] :
        /\ h.support # NilSupport <=> h.claim = NilClaim
        /\ IF h.version = "NoSig" THEN h.claimID = <<>> /\ h.signature = <<>>
           ELSE h.claimID \in [1..IdLen -> B] /\ h.signature \in [1..SigLen -> B]}

(* What a helper is written as is read as the same message.                *)
LEMMA MessageRead ==
    ASSUME NEW M, NEW B, NEW h \in HelperType(M, B)
    PROVE  /\ Len(serialized(h)) <= 1
           /\ \E S : serialized(h) \in Seq(S)
           /\ IF h.support # NilSupport
              THEN UnmarshalsSupport(serialized(h)) /\ UnmarshalSupport(serialized(h)) = h.support
              ELSE UnmarshalsClaim(serialized(h)) /\ UnmarshalClaim(serialized(h)) = h.claim
<1>1. h.legacy = <<>> /\ h.support \in M /\ h.claim \in Claim(M) \cup {NilClaim}
  BY DEF HelperType
<1>2. CASE h.support # NilSupport
  <2>1. serialized(h) = MarshalSupport(h.support)
    BY <1>1, <1>2 DEF serialized, IsSupport
  <2>2. CASE h.support = ""
    <3>1. serialized(h) = <<>>
      BY <2>1, <2>2 DEF MarshalSupport
    <3>2. <<>> \in Seq({}) /\ Len(<<>>) = 0
      OBVIOUS
    <3>3. UnmarshalsSupport(serialized(h)) /\ UnmarshalSupport(serialized(h)) = h.support
      BY <2>2, <3>1 DEF UnmarshalsSupport, UnmarshalSupport
    <3> QED
      BY <1>2, <3>1, <3>2, <3>3
  <2>3. CASE h.support # ""
    <3> DEFINE x == [support |-> h.support]
    <3>1. serialized(h) = <<x>> /\ "support" \in DOMAIN x /\ x.support = h.support
      BY <2>1, <2>3 DEF MarshalSupport
    <3> HIDE DEF x
    <3>2. Len(<<x>>) = 1 /\ <<x>>[1] = x /\ <<x>> # <<>> /\ <<x>> \in Seq({x})
      OBVIOUS
    <3>3. UnmarshalsSupport(serialized(h)) /\ UnmarshalSupport(serialized(h)) = h.support
      BY <3>1, <3>2 DEF UnmarshalsSupport, UnmarshalSupport
    <3>4. Len(serialized(h)) <= 1 /\ serialized(h) \in Seq({x})
      BY <3>1, <3>2
    <3>5. \E S : serialized(h) \in Seq(S)
      BY <3>4, Zenon
    <3> QED
      BY <1>2, <3>3, <3>4, <3>5
  <2> QED
    BY <2>2, <2>3
<1>3. CASE h.support = NilSupport
  <2>1. serialized(h) = MarshalClaim(h.claim)
    <3>1. h.claim \in Claim(M)
      BY <1>1, <1>3 DEF HelperType
    <3>2. getClaimProtobuf(h) = h.claim
      BY <3>1 DEF getClaimProtobuf, Claim
    <3> QED
      BY <1>1, <1>3, <3>2 DEF serialized, IsSupport
  <2>2. CASE h.claim = EmptyClaim
    <3>1. serialized(h) = <<>>
      BY <2>1, <2>2 DEF MarshalClaim
    <3>2. <<>> \in Seq({}) /\ Len(<<>>) = 0
      OBVIOUS
    <3>3. UnmarshalsClaim(serialized(h)) /\ UnmarshalClaim(serialized(h)) = h.claim
      BY <2>2, <3>1 DEF UnmarshalsClaim, UnmarshalClaim
    <3> QED
      BY <1>3, <3>1, <3>2, <3>3
  <2>3. CASE h.claim # EmptyClaim
    <3> DEFINE x == [claim |-> h.claim]
    <3>1. serialized(h) = <<x>> /\ "claim" \in DOMAIN x /\ x.claim = h.claim
      BY <2>1, <2>3 DEF MarshalClaim
    <3> HIDE DEF x
    <3>2. Len(<<x>>) = 1 /\ <<x>>[1] = x /\ <<x>> # <<>> /\ <<x>> \in Seq({x})
      OBVIOUS
    <3>3. UnmarshalsClaim(serialized(h)) /\ UnmarshalClaim(serialized(h)) = h.claim
      BY <3>1, <3>2 DEF UnmarshalsClaim, UnmarshalClaim
    <3>4. Len(serialized(h)) <= 1 /\ serialized(h) \in Seq({x})
      BY <3>1, <3>2
    <3>5. \E S : serialized(h) \in Seq(S)
      BY <3>4, Zenon
    <3> QED
      BY <1>3, <3>3, <3>4, <3>5
  <2> QED
    BY <2>2, <2>3
<1> QED
  BY <1>2, <1>3

(* What loadFromBytes makes of the parts of a value.                       *)
HelperOf(v, isSupport, id, sig, p) ==
    [claim     |-> IF isSupport THEN NilClaim ELSE UnmarshalClaim(p),
     support   |-> IF isSupport THEN UnmarshalSupport(p) ELSE NilSupport,
     legacy    |-> <<>>,
     claimID   |-> id,
     version   |-> v,
     signature |-> sig,
     payload   |-> p]

(* The byte of a version tells the version.                                *)
LEMMA Versions ==
    /\ getVersionFromByte(VersionByte("NoSig")) = "NoSig"
    /\ getVersionFromByte(VersionByte("WithSig")) = "WithSig"
BY DEF getVersionFromByte, VersionByte, Byte

(* What loadFromBytes makes of a signed value,                             *)
LEMMA SignedLoaded ==
    ASSUME NEW c, NEW isSupport \in BOOLEAN, isSupport \/ ~ClaimPrints(c.claim),
           NEW raw, NEW id, NEW sig, NEW p, Unwraps(raw, VersionByte("WithSig"), id, sig, p),
           IF isSupport THEN UnmarshalsSupport(p) ELSE UnmarshalsClaim(p)
    PROVE  loadFromBytes(c, raw, isSupport) = ValidateCertificate(HelperOf("WithSig", isSupport, id, sig, p))
BY Versions DEF loadFromBytes, HelperOf, Unwraps

(* and of one without a signature.                                         *)
LEMMA UnsignedLoaded ==
    ASSUME NEW c, NEW isSupport \in BOOLEAN, isSupport \/ ~ClaimPrints(c.claim),
           NEW raw, NEW p, raw # <<>>, raw[1] = VersionByte("NoSig"), Tail(raw) = p,
           IF isSupport THEN UnmarshalsSupport(p) ELSE UnmarshalsClaim(p)
    PROVE  loadFromBytes(c, raw, isSupport) = ValidateCertificate(HelperOf("NoSig", isSupport, <<>>, <<>>, p))
BY Versions DEF loadFromBytes, HelperOf

(* The certificate of a helper that was loaded is not refused.             *)
LEMMA CertificateTaken ==
    ASSUME NEW M, NEW h, h.claim \in Claim(M) \cup {NilClaim}, h.support = NilSupport \/ h.claim = NilClaim
    PROVE  ValidateCertificate(h) = Done(h)
<1>1. CASE h.claim = NilClaim
  BY <1>1 DEF ValidateCertificate, IsClaim
<1>2. CASE h.claim \in Claim(M) /\ h.claim.type = "channel" /\ IsClaim(h)
  <2>1. GetPublicKeyFromBytes(h.claim.key) # "none"
    BY <1>2 DEF Claim
  <2> QED
    BY <1>2, <2>1 DEF ValidateCertificate, GetPublicKey
<1>3. CASE h.claim.type # "channel" \/ ~IsClaim(h)
  BY <1>3 DEF ValidateCertificate
<1> QED
  BY <1>1, <1>2, <1>3

(* A new helper holds no claim.                                            *)
LEMMA NoClaimYet == ~ClaimPrints(NewHelper.claim)
BY DEF ClaimPrints, NewHelper

(* DecodeClaimBytes and DecodeSupportBytes load every helper of a claim or *)
(* support, signed or not, as CompileValue wrote it, and compiling it      *)
(* again changes nothing.                                                  *)
THEOREM EveryHelperReloads ==
    ASSUME NEW M, NEW B, NEW h \in HelperType(M, B)
    PROVE  Reloads(h)
<1> DEFINE p == serialized(h)
           raw == CompileValue(h)
           v == h.version
           isSupport == h.support # NilSupport
           hp == HelperOf(v, isSupport, h.claimID, h.signature, p)
           c == IF isSupport THEN [NewHelper EXCEPT !.claim = NilClaim] ELSE NewHelper
<1>1. /\ h.legacy = <<>> /\ v \in {"NoSig", "WithSig"} /\ h.claim \in Claim(M) \cup {NilClaim}
      /\ isSupport <=> h.claim = NilClaim
  BY DEF HelperType
<1>2. /\ \E S : p \in Seq(S)
      /\ IF isSupport THEN UnmarshalsSupport(p) /\ UnmarshalSupport(p) = h.support
         ELSE UnmarshalsClaim(p) /\ UnmarshalClaim(p) = h.claim
  BY MessageRead
<1>3. PICK S : p \in Seq(S)
  BY <1>2
<1>4. hp = [h EXCEPT !.payload = p]
  <2>1. /\ (IF isSupport THEN NilClaim ELSE UnmarshalClaim(p)) = h.claim
        /\ (IF isSupport THEN UnmarshalSupport(p) ELSE NilSupport) = h.support
    BY <1>1, <1>2
  <2>2. hp = [claim |-> h.claim, support |-> h.support, legacy |-> <<>>, claimID |-> h.claimID, version |-> v,
              signature |-> h.signature, payload |-> p]
    BY <2>1 DEF HelperOf
  <2> HIDE DEF p
  <2> QED
    BY <2>2 DEF HelperType
<1>5. ValidateCertificate(hp) = Done(hp)
  <2>1. hp.claim = h.claim /\ hp.support = h.support
    <3> HIDE DEF p, hp
    <3> QED
      BY <1>4 DEF HelperType
  <2> HIDE DEF hp
  <2> QED
    BY <1>1, <2>1, CertificateTaken
<1>6. /\ isSupport \/ ~ClaimPrints(c.claim)
      /\ isSupport \in BOOLEAN
      /\ IF isSupport THEN UnmarshalsSupport(p) ELSE UnmarshalsClaim(p)
  BY <1>2, NoClaimYet
<1>7. loadFromBytes(c, raw, isSupport) = Done(hp)
  <2>1. CASE v = "NoSig"
    <3>1. h.claimID = <<>> /\ h.signature = <<>>
      BY <2>1 DEF HelperType
    <3>2. raw = (<<VersionByte("NoSig")>> \o <<>>) \o p
      BY <2>1 DEF CompileValue
    <3> DEFINE x == VersionByte("NoSig")
               T == S \cup {x}
    <3>3. raw # <<>> /\ raw[1] = x /\ Tail(raw) = p
      <4>1. <<x>> \in Seq(T) /\ Len(<<x>>) = 1 /\ <<x>>[1] = x /\ <<x>> \o <<>> = <<x>>
        OBVIOUS
      <4>2. p \in Seq(T)
        BY <1>3
      <4> HIDE DEF x, T, p
      <4>3. raw = <<x>> \o p
        BY <3>2, <4>1 DEF x
      <4>4. raw \in Seq(T) /\ Len(raw) = 1 + Len(p) /\ raw[1] = x
        BY <4>1, <4>2, <4>3
      <4>5. SubSeq(raw, 2, Len(raw)) = p
        BY <4>1, <4>2, <4>3, TakenApart
      <4> QED
        BY <4>4, <4>5
    <3> HIDE DEF raw, p, isSupport, c, x
    <3>4. loadFromBytes(c, raw, isSupport) = ValidateCertificate(HelperOf("NoSig", isSupport, <<>>, <<>>, p))
      BY <1>6, <3>3, UnsignedLoaded DEF x
    <3> QED
      BY <1>5, <2>1, <3>1, <3>4
  <2>2. CASE v = "WithSig"
    <3>1. h.claimID \in [1..IdLen -> B] /\ h.signature \in [1..SigLen -> B]
      BY <2>2 DEF HelperType
    <3> DEFINE x == VersionByte("WithSig")
               T == S \cup B \cup {x}
    <3>2. raw = Wrapped(x, h.claimID, h.signature, p)
      BY <2>2 DEF CompileValue, Wrapped
    <3>3. IdLen \in Nat /\ SigLen \in Nat
      BY ClaimsAssumption DEF SigLen
    <3>4. h.claimID \in [1..IdLen -> T] /\ h.signature \in [1..SigLen -> T] /\ p \in Seq(T) /\ x \in T
      BY <1>3, <3>1
    <3> HIDE DEF T, x, p
    <3>5. /\ h.claimID \in Seq(T) /\ Len(h.claimID) = IdLen
          /\ h.signature \in Seq(T) /\ Len(h.signature) = SigLen
      BY <3>3, <3>4, IntervalSeq
    <3>6. Unwraps(raw, x, h.claimID, h.signature, p)
      BY <3>2, <3>4, <3>5, Unwrapped
    <3> HIDE DEF raw, isSupport, c
    <3>8. loadFromBytes(c, raw, isSupport) =
             ValidateCertificate(HelperOf("WithSig", isSupport, h.claimID, h.signature, p))
      BY <1>6, <3>6, SignedLoaded DEF x
    <3> QED
      BY <1>5, <2>2, <3>8
  <2> QED
    BY <1>1, <2>1, <2>2
<1>8. LoadBytes(h, raw) = Done(hp)
  <2>1. CASE isSupport
    BY <1>7, <2>1 DEF LoadBytes, DecodeSupportBytes
  <2>2. CASE ~isSupport
    <3>1. loadFromBytes(NewHelper, raw, FALSE) = Done(hp)
      BY <1>7, <2>2
    <3>2. Done(hp).ok
      BY DEF Done
    <3> HIDE DEF raw, hp
    <3> QED
      BY <2>2, <3>1, <3>2 DEF LoadBytes, DecodeClaimBytes
  <2> QED
    BY <2>1, <2>2
<1>9. CompileValue([h EXCEPT !.payload = p]) = raw
  <2> HIDE DEF p
  <2> DEFINE g == [h EXCEPT !.payload = p]
  <2>1. /\ g.version = h.version /\ g.claimID = h.claimID /\ g.signature = h.signature
        /\ g.claim = h.claim /\ g.support = h.support /\ g.legacy = h.legacy
    BY DEF HelperType
  <2> HIDE DEF g
  <2>2. serialized(g) = serialized(h)
    BY <2>1 DEF serialized, IsSupport, getClaimProtobuf
  <2>3. CompileValue(g) = CompileValue(h)
    BY <2>1, <2>2 DEF CompileValue
  <2> QED
    BY <2>3 DEF g
<1> HIDE DEF p, raw, hp
<1>10. Done(hp).ok /\ Done(hp).h = hp
  BY DEF Done
<1> QED
  BY <1>4, <1>8, <1>9, <1>10 DEF Reloads, raw, p

-----------------------------------------------------------------------------
(* Claims in JSON.                                                         *)

JSONClaim(F) ==
    [ver : F, title : F, contentDashType : F, content_type : F, nsfw : BOOLEAN,
     licenseUrl : F, fee : {<<>>} \cup {<<x>> : x \in SUBSET {"BTC", "LBC", "USD"}}, hexHash : BOOLEAN]

(* No protobuf reads JSON.                                                 *)
LEMMA JSONRefused ==
    ASSUME NEW json
    PROVE  loadFromBytes(NewHelper, <<Byte("{"), [json |-> json]>>, FALSE).ok = FALSE
<1> DEFINE x == [json |-> json]
           raw == <<Byte("{"), x>>
<1>1. raw # <<>> /\ raw[1] = Byte("{") /\ Tail(raw) = <<x>> /\ Len(<<x>>) = 1 /\ <<x>>[1] = x /\ <<x>> # <<>>
  OBVIOUS
<1>2. "claim" \notin DOMAIN x
  OBVIOUS
<1> HIDE DEF x
<1>3. getVersionFromByte(raw[1]) = "UNKNOWN"
  BY <1>1 DEF getVersionFromByte, Byte
<1>4. ~UnmarshalsClaim(<<x>>)
  BY <1>1, <1>2 DEF UnmarshalsClaim
<1>5. ~UnmarshalsLegacy(raw)
  BY <1>1 DEF UnmarshalsLegacy, Byte
<1> HIDE DEF raw
<1>6. loadFromBytes(NewHelper, raw, FALSE) = Refused(NewHelper)
  BY <1>1, <1>3, <1>4, <1>5, NoClaimYet DEF loadFromBytes
<1>7. Refused(NewHelper).ok = FALSE
  BY DEF Refused
<1>8. loadFromBytes(NewHelper, raw, FALSE).ok = FALSE
  BY <1>6, <1>7
<1> QED
  BY <1>8 DEF raw, x

(* setFee keeps whether there is a fee, and a currency that had a price.   *)
LEMMA FeeKept ==
    ASSUME NEW F, NEW json \in JSONClaim(F)
    PROVE  /\ (setFee(json.fee) = <<>>) <=> (json.fee = <<>>)
           /\ setFee(json.fee) # <<>> /\ json.fee[1] # {} => setFee(json.fee)[1].currency \in json.fee[1]
<1>1. CASE json.fee = <<>>
  BY <1>1 DEF setFee
<1>2. ASSUME NEW x \in SUBSET {"BTC", "LBC", "USD"}, json.fee = <<x>>
      PROVE  /\ (setFee(json.fee) = <<>>) <=> (json.fee = <<>>)
             /\ setFee(json.fee) # <<>> /\ json.fee[1] # {} => setFee(json.fee)[1].currency \in json.fee[1]
  <2>1. json.fee # <<>> /\ json.fee[1] = x
    BY <1>2
  <2>2. CASE x = {}
    <3>1. setFee(json.fee) = <<[currency |-> "LBC", amount |-> 0]>>
      BY <2>1, <2>2 DEF setFee
    <3> QED
      BY <2>1, <2>2, <3>1
  <2>3. CASE x # {}
    <3> DEFINE cur == IF "BTC" \in x THEN "BTC" ELSE IF "LBC" \in x THEN "LBC" ELSE "USD"
    <3>1. setFee(json.fee) = <<[currency |-> cur, amount |-> 1]>>
      BY <2>1, <2>3 DEF setFee
    <3>2. cur \in x
      BY <2>3
    <3> HIDE DEF cur
    <3>3. setFee(json.fee) # <<>> /\ setFee(json.fee)[1].currency = cur
      BY <3>1
    <3> QED
      BY <2>1, <3>2, <3>3
  <2> QED
    BY <2>2, <2>3
<1> QED
  BY <1>1, <1>2 DEF JSONClaim

(* DecodeClaimBytes migrates every JSON claim by the version it names:     *)
(* nothing that the version can say is lost, and nothing is said that it   *)
(* cannot say.                                                             *)
THEOREM EveryJSONClaimMigrates ==
    ASSUME NEW F, NEW json \in JSONClaim(F)
    PROVE  Migrates(json)
<1> DEFINE raw == <<Byte("{"), [json |-> json]>>
           r == DecodeClaimBytes(raw)
           v == JSONVersion(json)
           mt == Meta(IF v = "0.0.1" THEN FALSE ELSE json.nsfw,
                      IF v = "0.0.3" THEN json.content_type ELSE json.contentDashType,
                      IF v = "0.0.1" THEN "" ELSE json.licenseUrl,
                      setFee(json.fee))
           cl == migrateJSON(json)
           hp == [NewHelper EXCEPT !.claim = cl, !.support = NilSupport]
<1>1. json.nsfw \in BOOLEAN /\ json.hexHash \in BOOLEAN
  BY DEF JSONClaim
<1>2. IsJSON(raw) /\ raw[2].json = json
  BY DEF IsJSON
<1>3. r = IF MigratesJSON(json) THEN Done(hp) ELSE Refused(NewHelper)
  <2>1. loadFromBytes(NewHelper, raw, FALSE).ok = FALSE
    BY JSONRefused
  <2> HIDE DEF raw
  <2> QED
    BY <1>2, <2>1 DEF DecodeClaimBytes
<1>4. MigratesJSON(json) <=> json.hexHash /\ json.ver \in {"", "0.0.1", "0.0.2", "0.0.3"}
  BY <1>1 DEF MigratesJSON, JSONVersion
<1>5. /\ (Done(hp).ok <=> TRUE) /\ Done(hp).h = hp /\ (Refused(NewHelper).ok <=> FALSE)
  BY DEF Done, Refused
<1>6. cl.title = json.title /\ cl.meta = <<mt>>
  <2> HIDE DEF mt
  <2>1. cl = [EmptyClaim EXCEPT !.type = "stream", !.title = json.title, !.meta = <<mt>>]
    BY DEF migrateJSON, mt
  <2> QED
    BY <2>1 DEF EmptyClaim, NilClaim
<1>7. hp.claim = cl
  <2> HIDE DEF cl
  <2> QED
    BY DEF NewHelper
<1>8. /\ mt.mediaType = IF v = "0.0.3" THEN json.content_type ELSE json.contentDashType
      /\ mt.mature = IF v = "0.0.1" THEN FALSE ELSE json.nsfw
      /\ mt.fee = setFee(json.fee)
  BY DEF Meta
<1> HIDE DEF mt, cl, hp, r, raw
<1>9. ASSUME MigratesJSON(json)
      PROVE  /\ r.h.claim.title = json.title /\ r.h.claim.meta[1] = mt
             /\ mt.mediaType = IF json.ver = "0.0.3" THEN json.content_type ELSE json.contentDashType
             /\ mt.mature => json.nsfw /\ json.ver \in {"0.0.2", "0.0.3"}
             /\ (mt.fee = <<>>) <=> (json.fee = <<>>)
             /\ mt.fee # <<>> /\ json.fee[1] # {} => mt.fee[1].currency \in json.fee[1]
  <2>1. r.h = hp
    BY <1>3, <1>5, <1>9
  <2>2. r.h.claim.title = json.title /\ r.h.claim.meta[1] = mt
    BY <1>6, <1>7, <2>1
  <2>3. v = IF json.ver = "" THEN "0.0.1" ELSE json.ver
    BY DEF JSONVersion
  <2>4. mt.mediaType = IF json.ver = "0.0.3" THEN json.content_type ELSE json.contentDashType
    BY <1>8, <2>3
  <2>5. mt.mature => json.nsfw /\ json.ver \in {"0.0.2", "0.0.3"}
    <3>1. ASSUME mt.mature PROVE v # "0.0.1" /\ json.nsfw
      BY <1>8, <3>1
    <3> QED
      BY <1>4, <1>9, <2>3, <3>1
  <2> QED
    BY <1>8, <2>2, <2>4, <2>5, FeeKept
<1>10. r.ok = (json.hexHash /\ json.ver \in {"", "0.0.1", "0.0.2", "0.0.3"})
  <2>1. r.ok \in BOOLEAN
    BY <1>3 DEF Done, Refused
  <2>2. r.ok <=> MigratesJSON(json)
    BY <1>3, <1>5
  <2> QED
    BY <1>1, <1>4, <2>1, <2>2
<1>11. (mt.fee = <<>>) = (json.fee = <<>>)
  BY <1>8, FeeKept
<1>12. r.ok => MigratesJSON(json)
  BY <1>3, <1>5
<1> QED
  BY <1>9, <1>10, <1>11, <1>12 DEF Migrates, r, raw

-----------------------------------------------------------------------------
(* Signatures.                                                             *)

NumberByte(which, key, digest, i) == [of |-> which, key |-> key, digest |-> digest, at |-> i]

NumberByteSet(which, key, digest) == {NumberByte(which, key, digest, i) : i \in Nat}

(* The bytes of a number: how many, and which.                             *)
LEMMA NumberBytesType ==
    ASSUME NEW which, NEW key, NEW digest, NEW z \in 0..HalfLen
    PROVE  /\ NumberBytes(which, key, digest, z) \in Seq(NumberByteSet(which, key, digest))
           /\ Len(NumberBytes(which, key, digest, z)) = HalfLen - z
           /\ \A i \in 1..(HalfLen - z) :
                 NumberBytes(which, key, digest, z)[i] = NumberByte(which, key, digest, i + z)
<1> DEFINE n == HalfLen - z
           S == NumberByteSet(which, key, digest)
           f == NumberBytes(which, key, digest, z)
<1>1. n \in Nat /\ z \in Nat
  BY ClaimsAssumption
<1>2. f = [i \in 1..n |-> NumberByte(which, key, digest, i + z)]
  BY DEF NumberBytes, NumberByte
<1>3. \A i \in 1..n : NumberByte(which, key, digest, i + z) \in S
  BY <1>1 DEF NumberByteSet
<1> HIDE DEF n, S, f
<1>4. f \in [1..n -> S]
  BY <1>2, <1>3
<1>5. f \in Seq(S) /\ Len(f) = n
  BY <1>1, <1>4, IntervalSeq
<1> QED
  BY <1>2, <1>5 DEF n, S, f

(* A byte is no part of a number, and different parts are different.       *)
LEMMA NumberByteParts ==
    ASSUME NEW w, NEW k, NEW d, NEW i, NEW x, NEW l, NEW e, NEW j, NEW y
    PROVE  /\ NumberByte(w, k, d, i) # Byte(y)
           /\ NumberByte(w, k, d, i) = NumberByte(x, l, e, j) => w = x /\ k = l /\ d = e /\ i = j
<1>1. "of" \in DOMAIN NumberByte(w, k, d, i) /\ "of" \notin DOMAIN Byte(y)
  BY DEF NumberByte, Byte
<1>2. /\ NumberByte(w, k, d, i).of = w /\ NumberByte(w, k, d, i).key = k
      /\ NumberByte(w, k, d, i).digest = d /\ NumberByte(w, k, d, i).at = i
      /\ NumberByte(x, l, e, j).of = x /\ NumberByte(x, l, e, j).key = l
      /\ NumberByte(x, l, e, j).digest = e /\ NumberByte(x, l, e, j).at = j
  BY DEF NumberByte
<1> QED
  BY <1>1, <1>2

(* A number that is verified ends with its last byte or is 0.              *)
LEMMA LastByte ==
    ASSUME NEW bytes, NEW which, NEW key, NEW digest, IsNumber(bytes, which, key, digest)
    PROVE  bytes[HalfLen] \in {Byte("0"), NumberByte(which, key, digest, HalfLen)}
<1>1. PICK z \in 0..HalfLen : bytes = [i \in 1..z |-> Byte("0")] \o NumberBytes(which, key, digest, z)
  BY DEF IsNumber
<1> DEFINE a == [i \in 1..z |-> Byte("0")]
           b == NumberBytes(which, key, digest, z)
           S == NumberByteSet(which, key, digest) \cup {Byte("0")}
<1>2. z \in Nat /\ HalfLen \in Nat \ {0} /\ z <= HalfLen
  BY ClaimsAssumption
<1>3. a \in Seq(S) /\ Len(a) = z
  <2>1. a \in [1..z -> S]
    OBVIOUS
  <2> HIDE DEF S, a
  <2> QED
    BY <1>2, <2>1, IntervalSeq
<1>4. b \in Seq(S) /\ Len(b) = HalfLen - z /\ \A i \in 1..(HalfLen - z) : b[i] = NumberByte(which, key, digest, i + z)
  <2>1. b \in Seq(NumberByteSet(which, key, digest))
    BY NumberBytesType
  <2>2. b \in Seq(S)
    BY <2>1
  <2> QED
    BY <2>2, NumberBytesType
<1>5. \A i \in 1..z : a[i] = Byte("0")
  OBVIOUS
<1> HIDE DEF a, b
<1>6. \A i \in 1 .. z + (HalfLen - z) : (a \o b)[i] = IF i <= z THEN a[i] ELSE b[i - z]
  <2> HIDE DEF S
  <2>1. \A i \in 1 .. Len(a) + Len(b) : (a \o b)[i] = IF i <= Len(a) THEN a[i] ELSE b[i - Len(a)]
    <3>1. a \in Seq(S) /\ b \in Seq(S)
      BY <1>3, <1>4
    <3> QED
      BY <3>1, ConcatProperties
  <2> QED
    BY <1>3, <1>4, <2>1
<1>7. HalfLen \in 1 .. z + (HalfLen - z)
  BY <1>2
<1>8. CASE z = HalfLen
  <2>1. HalfLen <= z /\ HalfLen \in 1..z
    BY <1>2, <1>8
  <2>2. (a \o b)[HalfLen] = Byte("0")
    BY <1>5, <1>6, <1>7, <2>1
  <2> QED
    BY <1>1, <2>2 DEF a, b
<1>9. CASE z < HalfLen
  <2>1. ~(HalfLen <= z) /\ HalfLen - z \in 1..(HalfLen - z) /\ (HalfLen - z) + z = HalfLen
    BY <1>2, <1>9
  <2>2. (a \o b)[HalfLen] = b[HalfLen - z]
    BY <1>6, <1>7, <2>1
  <2>3. b[HalfLen - z] = NumberByte(which, key, digest, HalfLen)
    BY <1>4, <2>1
  <2> QED
    BY <1>1, <2>2, <2>3 DEF a, b
<1> QED
  BY <1>2, <1>8, <1>9

(* The bytes of a number without leading zeros are that number for its own *)
(* key and digest only.                                                    *)
LEMMA FullNumber ==
    ASSUME NEW which, NEW key, NEW digest, NEW l, NEW e
    PROVE  IsNumber(NumberBytes(which, key, digest, 0), which, l, e) <=> key = l /\ digest = e
<1> DEFINE f == NumberBytes(which, key, digest, 0)
<1>1. HalfLen \in Nat \ {0} /\ 0 \in 0..HalfLen /\ HalfLen \in 1..(HalfLen - 0) /\ HalfLen + 0 = HalfLen
  BY ClaimsAssumption
<1>2. f[HalfLen] = NumberByte(which, key, digest, HalfLen)
  BY <1>1, NumberBytesType
<1>3. f \in Seq(NumberByteSet(which, key, digest))
  BY <1>1, NumberBytesType
<1>4. ASSUME IsNumber(f, which, l, e) PROVE key = l /\ digest = e
  <2>1. f[HalfLen] \in {Byte("0"), NumberByte(which, l, e, HalfLen)}
    BY <1>4, LastByte
  <2> QED
    BY <1>2, <2>1, NumberByteParts
<1>5. IsNumber(f, which, key, digest)
  <2>1. [i \in 1..0 |-> Byte("0")] = <<>>
    OBVIOUS
  <2>2. <<>> \o f = f
    BY <1>3, ConcatEmptySeq
  <2>3. f = [i \in 1..0 |-> Byte("0")] \o NumberBytes(which, key, digest, 0)
    BY <2>1, <2>2
  <2> HIDE DEF f
  <2> QED
    BY <1>1, <2>3 DEF IsNumber
<1> QED
  BY <1>4, <1>5

(* A signature of the right length is verified half by half.               *)
LEMMA Verified ==
    ASSUME NEW S, NEW sig \in Seq(S), Len(sig) = SigLen, NEW certificate, NEW digest
    PROVE  VerifyDigest(certificate, sig, digest) <=>
              /\ GetPublicKey(certificate) # "none"
              /\ IsNumber(SubSeq(sig, 1, HalfLen), "R", GetPublicKey(certificate), digest)
              /\ IsNumber(SubSeq(sig, HalfLen + 1, SigLen), "S", GetPublicKey(certificate), digest)
<1>1. SigLen \in Nat
  BY ClaimsAssumption DEF SigLen
<1>2. [i \in 1..SigLen |-> IF i <= Len(sig) THEN sig[i] ELSE Byte("0")] = sig
  <2>1. sig = [i \in 1..SigLen |-> sig[i]]
    BY LenProperties
  <2>2. \A i \in 1..SigLen : (IF i <= Len(sig) THEN sig[i] ELSE Byte("0")) = sig[i]
    BY <1>1
  <2> QED
    BY <2>1, <2>2
<1> QED
  BY <1>2 DEF VerifyDigest

(* The certificate of a channel is its key.                                *)
LEMMA ChannelKey ==
    ASSUME NEW k, k \notin {"", "junk"}
    PROVE  GetPublicKey(Channel(k)) = k
<1> DEFINE c == Channel(k)
<1>1. c.claim = [type |-> "channel", title |-> "", key |-> k, extra |-> FALSE, meta |-> <<>>]
  BY DEF Channel, NewHelper, EmptyClaim, NilClaim
<1>2. c.claim.type = "channel" /\ c.claim.key = k
  <2> DEFINE x == [type |-> "channel", title |-> "", key |-> k, extra |-> FALSE, meta |-> <<>>]
  <2>1. x.type = "channel" /\ x.key = k
    OBVIOUS
  <2>2. c.claim = x
    BY <1>1
  <2> HIDE DEF x, c
  <2> QED
    BY <2>1, <2>2
<1>3. IsClaim(c)
  <2>1. NilClaim.type = "nil" /\ EmptyClaim.type = "none"
    BY DEF NilClaim, EmptyClaim
  <2> QED
    BY <1>2, <2>1 DEF IsClaim, ClaimPrints
<1> HIDE DEF c
<1> QED
  BY <1>2, <1>3 DEF GetPublicKey, GetPublicKeyFromBytes, c

(* An id is written backwards, and nothing of it is lost.                  *)
LEMMA Reversed ==
    ASSUME NEW B, NEW a \in [1..IdLen -> B], NEW b \in [1..IdLen -> B]
    PROVE  /\ reverseBytes(a) \in [1..IdLen -> B]
           /\ reverseBytes(a) = reverseBytes(b) => a = b
<1>1. IdLen \in Nat /\ IdLen % 2 = 0
  BY ClaimsAssumption
<1>2. Len(a) = IdLen /\ Len(b) = IdLen /\ DOMAIN a = 1..IdLen /\ DOMAIN b = 1..IdLen
  BY <1>1, IntervalSeq
<1>3. ASSUME NEW i \in 1..IdLen PROVE 2 * i # IdLen + 1 /\ IdLen + 1 - i \in 1..IdLen /\ IdLen + 1 - (IdLen + 1 - i) = i
  BY <1>1
<1>4. ASSUME NEW c \in [1..IdLen -> B], Len(c) = IdLen
      PROVE  reverseBytes(c) = [i \in 1..IdLen |-> c[IdLen + 1 - i]]
  BY <1>3, <1>4 DEF reverseBytes
<1>5. /\ reverseBytes(a) = [i \in 1..IdLen |-> a[IdLen + 1 - i]]
      /\ reverseBytes(b) = [i \in 1..IdLen |-> b[IdLen + 1 - i]]
  BY <1>2, <1>4
<1>6. reverseBytes(a) \in [1..IdLen -> B]
  BY <1>3, <1>5
<1>7. ASSUME reverseBytes(a) = reverseBytes(b) PROVE a = b
  <2>1. ASSUME NEW i \in 1..IdLen PROVE a[i] = b[i]
    <3> DEFINE j == IdLen + 1 - i
    <3>1. j \in 1..IdLen /\ IdLen + 1 - j = i
      BY <1>3
    <3> HIDE DEF j
    <3>2. reverseBytes(a)[j] = a[i] /\ reverseBytes(b)[j] = b[i]
      BY <1>5, <3>1
    <3> QED
      BY <1>7, <3>2
  <2>2. a = [i \in 1..IdLen |-> a[i]] /\ b = [i \in 1..IdLen |-> b[i]]
    OBVIOUS
  <2> QED
    BY <2>1, <2>2
<1> QED
  BY <1>6, <1>7

(* A value is loaded by what the helper is, or refused when it is short.   *)
LEMMA SignedDecoded ==
    ASSUME NEW h, NEW raw, NEW id, NEW sig, NEW p, Unwraps(raw, VersionByte("WithSig"), id, sig, p),
           IF h.support # NilSupport THEN UnmarshalsSupport(p) ELSE UnmarshalsClaim(p),
           NEW hp, hp = HelperOf("WithSig", h.support # NilSupport, id, sig, p),
           ValidateCertificate(hp) = Done(hp)
    PROVE  LoadBytes(h, raw) = Done(hp)
<1>1. Done(hp).ok
  BY DEF Done
<1> DEFINE is == h.support # NilSupport
           c == IF is THEN [NewHelper EXCEPT !.claim = NilClaim] ELSE NewHelper
<1>2. is \in BOOLEAN /\ (is \/ ~ClaimPrints(c.claim))
  BY NoClaimYet
<1>3. (IF is THEN UnmarshalsSupport(p) ELSE UnmarshalsClaim(p)) /\ hp = HelperOf("WithSig", is, id, sig, p)
  OBVIOUS
<1>4. is => c = [NewHelper EXCEPT !.claim = NilClaim]
  OBVIOUS
<1>5. ~is => c = NewHelper
  OBVIOUS
<1> HIDE DEF is, c
<1>6. loadFromBytes(c, raw, is) = Done(hp)
  BY <1>2, <1>3, SignedLoaded
<1>7. CASE is
  <2>1. loadFromBytes([NewHelper EXCEPT !.claim = NilClaim], raw, TRUE) = Done(hp)
    BY <1>2, <1>4, <1>6, <1>7
  <2> QED
    BY <1>7, <2>1 DEF LoadBytes, DecodeSupportBytes, is
<1>8. CASE ~is
  <2>1. loadFromBytes(NewHelper, raw, FALSE) = Done(hp)
    BY <1>2, <1>5, <1>6, <1>8
  <2> QED
    BY <1>1, <1>8, <2>1 DEF LoadBytes, DecodeClaimBytes, is
<1> QED
  BY <1>7, <1>8

(* A value that is signed and too short is refused.                        *)
LEMMA ShortRefused ==
    ASSUME NEW h, NEW raw, raw # <<>>, raw[1] = VersionByte("WithSig"), Len(raw) < HeaderLen
    PROVE  ~LoadBytes(h, raw).ok
<1>1. \A c : ~Refused(c).ok
  BY DEF Refused
<1>2. ASSUME NEW c, NEW isSupport PROVE loadFromBytes(c, raw, isSupport) = Refused(c)
  BY Versions DEF loadFromBytes
<1>3. ~IsJSON(raw)
  <2>1. VersionByte("WithSig") # Byte("{")
    BY DEF VersionByte, Byte
  <2> QED
    BY <2>1 DEF IsJSON
<1>4. ~DecodeSupportBytes(raw).ok
  BY <1>1, <1>2 DEF DecodeSupportBytes
<1>5. ~DecodeClaimBytes(raw).ok
  <2>1. loadFromBytes(NewHelper, raw, FALSE) = Refused(NewHelper)
    BY <1>2
  <2> QED
    BY <1>1, <1>3, <2>1 DEF DecodeClaimBytes
<1> QED
  BY <1>4, <1>5 DEF LoadBytes

(* A signing of a helper that is not signed yet.  The transaction ids have *)
(* one length, and the keys are keys.                                      *)
Signing(M, B, n) ==
    [helper : {h \in HelperType(M, B) : h.version = "NoSig"}, key : M \ {"", "junk", "none"},
     txid : [1..n -> B], channel : [1..IdLen -> B], r : 0..(HalfLen - 1), s : 0..(HalfLen - 1)]

(* The fields of a signing.                                                *)
LEMMA SigningFields ==
    ASSUME NEW M, NEW B, NEW n, NEW s \in Signing(M, B, n)
    PROVE  /\ s.helper \in HelperType(M, B) /\ s.helper.version = "NoSig"
           /\ s.key \notin {"", "junk"} /\ s.key # "none"
           /\ s.txid \in [1..n -> B] /\ s.channel \in [1..IdLen -> B]
           /\ s.r \in 0..(HalfLen - 1) /\ s.s \in 0..(HalfLen - 1)
BY DEF Signing

DigestOf(s) == s.txid \o reverseBytes(s.channel) \o serialized(s.helper)

SignatureOf(s) == LBRYSDKEncode(s.key, DigestOf(s), s.r, s.s)

(* What Sign and CompileValue make of a helper.                            *)
LEMMA SignedParts ==
    ASSUME NEW M, NEW B, NEW n, NEW s \in Signing(M, B, n)
    PROVE  /\ CompileValue(Signed(s)) =
                 Wrapped(VersionByte("WithSig"), reverseBytes(s.channel), SignatureOf(s), serialized(s.helper))
<1> DEFINE h == [s.helper EXCEPT !.claimID = reverseBytes(s.channel), !.version = "WithSig"]
           sg == LBRYSDKEncode(s.key, signDigest(h, s.txid), s.r, s.s)
           g == [h EXCEPT !.signature = sg]
<1>1. s.helper \in HelperType(M, B)
  BY DEF Signing
<1>2. /\ s.helper.legacy = <<>>
      /\ s.helper = [claim |-> s.helper.claim, support |-> s.helper.support, legacy |-> <<>>,
                     claimID |-> s.helper.claimID, version |-> s.helper.version,
                     signature |-> s.helper.signature, payload |-> <<>>]
  BY <1>1 DEF HelperType
<1>3. h = [claim |-> s.helper.claim, support |-> s.helper.support, legacy |-> <<>>,
           claimID |-> reverseBytes(s.channel), version |-> "WithSig",
           signature |-> s.helper.signature, payload |-> <<>>]
  <2> DEFINE x == reverseBytes(s.channel)
             e == [s.helper EXCEPT !.claimID = x]
  <2> HIDE DEF x
  <2>1. e = [claim |-> s.helper.claim, support |-> s.helper.support, legacy |-> <<>>,
             claimID |-> x, version |-> s.helper.version,
             signature |-> s.helper.signature, payload |-> <<>>]
    BY <1>2
  <2>2. h = [e EXCEPT !.version = "WithSig"]
    BY DEF x
  <2> HIDE DEF e, h
  <2>3. h = [claim |-> s.helper.claim, support |-> s.helper.support, legacy |-> <<>>,
             claimID |-> x, version |-> "WithSig",
             signature |-> s.helper.signature, payload |-> <<>>]
    BY <2>1, <2>2
  <2> QED
    BY <2>3 DEF x
<1> HIDE DEF h
<1>4. serialized(h) = serialized(s.helper)
  BY <1>2, <1>3 DEF serialized, IsSupport, getClaimProtobuf
<1>5. h.claimID = reverseBytes(s.channel)
  BY <1>3
<1>6. sg = SignatureOf(s)
  BY <1>4, <1>5 DEF SignatureOf, DigestOf, signDigest
<1> HIDE DEF sg
<1>7. g = [claim |-> s.helper.claim, support |-> s.helper.support, legacy |-> <<>>,
           claimID |-> reverseBytes(s.channel), version |-> "WithSig",
           signature |-> sg, payload |-> <<>>]
  BY <1>3
<1>8. Signed(s) = g
  BY DEF Signed, h, sg
<1> HIDE DEF g
<1>9. serialized(g) = serialized(s.helper)
  BY <1>2, <1>7 DEF serialized, IsSupport, getClaimProtobuf
<1>10. g.version = "WithSig" /\ g.claimID = reverseBytes(s.channel) /\ g.signature = SignatureOf(s)
  BY <1>6, <1>7
<1> QED
  BY <1>8, <1>9, <1>10 DEF CompileValue, Wrapped

(* The strings of two signings, over one alphabet.                         *)
Strings(T, s, t, n) ==
    /\ VersionByte("WithSig") \in T
    /\ s.txid \in Seq(T) /\ Len(s.txid) = n
    /\ t.txid \in Seq(T) /\ Len(t.txid) = n
    /\ reverseBytes(s.channel) \in Seq(T) /\ Len(reverseBytes(s.channel)) = IdLen
    /\ reverseBytes(t.channel) \in Seq(T) /\ Len(reverseBytes(t.channel)) = IdLen
    /\ serialized(s.helper) \in Seq(T)
    /\ serialized(t.helper) \in Seq(T)
    /\ NumberByteSet("R", s.key, DigestOf(s)) \subseteq T
    /\ NumberByteSet("S", s.key, DigestOf(s)) \subseteq T

(* The strings of two signings are strings over one set of bytes.          *)
LEMMA StringsExist ==
    ASSUME NEW M, NEW B, NEW n \in Nat, NEW s \in Signing(M, B, n), NEW t \in Signing(M, B, n)
    PROVE  \E T : Strings(T, s, t, n)
<1>1. /\ s.helper \in HelperType(M, B) /\ s.txid \in [1..n -> B] /\ s.channel \in [1..IdLen -> B]
      /\ t.helper \in HelperType(M, B) /\ t.txid \in [1..n -> B] /\ t.channel \in [1..IdLen -> B]
  BY DEF Signing
<1>2. PICK P : serialized(s.helper) \in Seq(P)
  BY <1>1, MessageRead
<1>3. PICK Q : serialized(t.helper) \in Seq(Q)
  BY <1>1, MessageRead
<1> DEFINE R == NumberByteSet("R", s.key, DigestOf(s))
           S == NumberByteSet("S", s.key, DigestOf(s))
           v == VersionByte("WithSig")
           T == P \cup Q \cup B \cup R \cup S \cup {v}
<1>4. IdLen \in Nat
  BY ClaimsAssumption
<1>5. reverseBytes(s.channel) \in [1..IdLen -> B] /\ reverseBytes(t.channel) \in [1..IdLen -> B]
  BY <1>1, Reversed
<1> HIDE DEF R, S, v
<1>6. P \subseteq T /\ Q \subseteq T /\ B \subseteq T /\ R \subseteq T /\ S \subseteq T /\ v \in T
  OBVIOUS
<1> HIDE DEF T
<1>7. /\ s.txid \in [1..n -> T] /\ t.txid \in [1..n -> T]
      /\ reverseBytes(s.channel) \in [1..IdLen -> T] /\ reverseBytes(t.channel) \in [1..IdLen -> T]
  BY <1>1, <1>5, <1>6
<1>8. /\ s.txid \in Seq(T) /\ Len(s.txid) = n
      /\ t.txid \in Seq(T) /\ Len(t.txid) = n
      /\ reverseBytes(s.channel) \in Seq(T) /\ Len(reverseBytes(s.channel)) = IdLen
      /\ reverseBytes(t.channel) \in Seq(T) /\ Len(reverseBytes(t.channel)) = IdLen
  BY <1>4, <1>7, IntervalSeq
<1>9. serialized(s.helper) \in Seq(T) /\ serialized(t.helper) \in Seq(T)
  BY <1>2, <1>3, <1>6
<1>10. Strings(T, s, t, n)
  BY <1>6, <1>8, <1>9 DEF Strings, R, S, v
<1> QED
  BY <1>10

(* Only the same parts have the same digest.                               *)
LEMMA SameDigest ==
    ASSUME NEW M, NEW B, NEW n \in Nat, NEW s \in Signing(M, B, n), NEW t \in Signing(M, B, n)
    PROVE  DigestOf(s) = DigestOf(t) <=>
              /\ s.txid = t.txid /\ s.channel = t.channel
              /\ serialized(s.helper) = serialized(t.helper)
<1> DEFINE a == s.txid
           b == reverseBytes(s.channel)
           c == serialized(s.helper)
           d == t.txid
           e == reverseBytes(t.channel)
           f == serialized(t.helper)
<1>1. PICK T : Strings(T, s, t, n)
  BY StringsExist
<1>2. /\ a \in Seq(T) /\ b \in Seq(T) /\ c \in Seq(T) /\ d \in Seq(T) /\ e \in Seq(T) /\ f \in Seq(T)
      /\ Len(a) = n /\ Len(d) = n /\ Len(b) = IdLen /\ Len(e) = IdLen
  BY <1>1 DEF Strings
<1>3. s.channel \in [1..IdLen -> B] /\ t.channel \in [1..IdLen -> B]
  BY DEF Signing
<1>4. DigestOf(s) = (a \o b) \o c /\ DigestOf(t) = (d \o e) \o f
  BY DEF DigestOf
<1> HIDE DEF a, b, c, d, e, f
<1>5. a \o b \in Seq(T) /\ Len(a \o b) = n + IdLen /\ d \o e \in Seq(T) /\ Len(d \o e) = n + IdLen
  <2>1. a \o b \in Seq(T) /\ Len(a \o b) = Len(a) + Len(b)
    <3>1. a \in Seq(T) /\ b \in Seq(T)
      BY <1>2
    <3> QED
      BY <3>1, ConcatProperties
  <2>2. d \o e \in Seq(T) /\ Len(d \o e) = Len(d) + Len(e)
    <3>1. d \in Seq(T) /\ e \in Seq(T)
      BY <1>2
    <3> QED
      BY <3>1, ConcatProperties
  <2> QED
    BY <1>2, <2>1, <2>2
<1>6. ASSUME DigestOf(s) = DigestOf(t) PROVE a = d /\ b = e /\ c = f
  <2>1. a \o b = d \o e /\ c = f
    BY <1>2, <1>4, <1>5, <1>6, SameParts
  <2>2. a = d /\ b = e
    BY <1>2, <2>1, SameParts
  <2> QED
    BY <2>1, <2>2
<1>7. b = e => s.channel = t.channel
  BY <1>3, Reversed DEF b, e
<1>8. ASSUME DigestOf(s) = DigestOf(t)
      PROVE  s.txid = t.txid /\ s.channel = t.channel /\ serialized(s.helper) = serialized(t.helper)
  BY <1>6, <1>7, <1>8 DEF a, c, d, f
<1>9. ASSUME s.txid = t.txid, s.channel = t.channel, serialized(s.helper) = serialized(t.helper)
      PROVE  DigestOf(s) = DigestOf(t)
  BY <1>9 DEF DigestOf
<1> QED
  BY <1>8, <1>9

(* Content that is exchanged after the signing.                            *)
Exchange(raw, p, q) == SubSeq(raw, 1, Len(raw) - Len(p)) \o q

(* The content of a value is exchanged and the rest stays.                 *)
LEMMA Exchanged ==
    ASSUME NEW S, NEW v \in S, NEW id \in Seq(S), NEW sig \in Seq(S), NEW p \in Seq(S), NEW q \in Seq(S)
    PROVE  Exchange(Wrapped(v, id, sig, p), p, q) = Wrapped(v, id, sig, q)
<1> DEFINE x == <<v>> \o (id \o sig)
<1>1. id \o sig \in Seq(S)
  BY ConcatProperties
<1>2. x \in Seq(S)
  BY <1>1, ConcatProperties
<1>3. Wrapped(v, id, sig, p) = x \o p /\ Wrapped(v, id, sig, q) = x \o q
  BY DEF Wrapped
<1> HIDE DEF x
<1>4. SubSeq(x \o p, 1, Len(x)) = x
  BY <1>2, TakenApart
<1>5. Len(x \o p) - Len(p) = Len(x)
  <2>1. Len(x \o p) = Len(x) + Len(p) /\ Len(x) \in Nat /\ Len(p) \in Nat
    BY <1>2, ConcatProperties, LenProperties
  <2> QED
    BY <2>1
<1> QED
  BY <1>3, <1>4, <1>5 DEF Exchange

(* A message that takes the place of a byte of the signature.              *)
LEMMA Shifted ==
    ASSUME NEW S, NEW v \in S, NEW id \in Seq(S), NEW sig \in Seq(S), NEW q \in Seq(S)
    PROVE  /\ Wrapped(v, id, sig, q) = Wrapped(v, id, sig \o q, <<>>)
           /\ Wrapped(v, id, sig, q) # <<>> /\ Wrapped(v, id, sig, q)[1] = v
           /\ Len(Wrapped(v, id, sig, q)) = 1 + Len(id) + Len(sig) + Len(q)
<1>1. <<v>> \in Seq(S) /\ Len(<<v>>) = 1 /\ <<v>>[1] = v /\ <<>> \in Seq(S)
  OBVIOUS
<1>2. id \o sig \in Seq(S) /\ sig \o q \in Seq(S) /\ id \o (sig \o q) = (id \o sig) \o q
  BY ConcatProperties, ConcatAssociative
<1> DEFINE y == id \o sig
           z == id \o (sig \o q)
<1>3. z \in Seq(S) /\ <<v>> \o z \in Seq(S)
  BY <1>1, <1>2, ConcatProperties
<1>4. (<<v>> \o z) \o <<>> = <<v>> \o z
  BY <1>3, ConcatEmptySeq
<1>5. <<v>> \o (y \o q) = (<<v>> \o y) \o q
  BY <1>1, <1>2, ConcatAssociative
<1>6. Wrapped(v, id, sig, q) = <<v>> \o z
  BY <1>2, <1>5 DEF Wrapped
<1>7. Wrapped(v, id, sig \o q, <<>>) = <<v>> \o z
  BY <1>4 DEF Wrapped
<1>8. Len(z) = Len(id) + (Len(sig) + Len(q)) /\ Len(id) \in Nat /\ Len(sig) \in Nat /\ Len(q) \in Nat
  <2>1. Len(sig \o q) = Len(sig) + Len(q)
    BY ConcatProperties
  <2>2. Len(z) = Len(id) + Len(sig \o q)
    BY <1>2, ConcatProperties
  <2> QED
    BY <2>1, <2>2, LenProperties
<1> HIDE DEF z
<1>9. Len(<<v>> \o z) = 1 + Len(z) /\ (<<v>> \o z)[1] = v /\ <<v>> \o z # <<>>
  <2>1. Len(<<v>> \o z) = Len(<<v>>) + Len(z)
        /\ \A i \in 1 .. Len(<<v>>) + Len(z) : (<<v>> \o z)[i] = IF i <= Len(<<v>>) THEN <<v>>[i] ELSE z[i - Len(<<v>>)]
    BY <1>1, <1>3, ConcatProperties
  <2>2. Len(z) \in Nat
    BY <1>3, LenProperties
  <2>3. 1 \in 1 .. Len(<<v>>) + Len(z) /\ 1 <= Len(<<v>>)
    BY <1>1, <2>2
  <2>4. (<<v>> \o z)[1] = <<v>>[1] /\ Len(<<v>> \o z) = 1 + Len(z)
    BY <1>1, <2>1, <2>3
  <2> QED
    BY <1>1, <2>2, <2>4
<1> QED
  BY <1>6, <1>7, <1>8, <1>9

(* The signature of a signing.                                             *)
LEMMA SignatureParts ==
    ASSUME NEW M, NEW B, NEW n \in Nat, NEW s \in Signing(M, B, n), NEW t, NEW T, Strings(T, s, t, n)
    PROVE  LET a == NumberBytes("R", s.key, DigestOf(s), s.r)
               b == NumberBytes("S", s.key, DigestOf(s), s.s)
           IN  /\ SignatureOf(s) = a \o b
               /\ a \in Seq(T) /\ Len(a) = HalfLen - s.r
               /\ b \in Seq(T) /\ Len(b) = HalfLen - s.s
               /\ a \o b \in Seq(T) /\ Len(a \o b) = SigLen - (s.r + s.s)
<1> DEFINE a == NumberBytes("R", s.key, DigestOf(s), s.r)
           b == NumberBytes("S", s.key, DigestOf(s), s.s)
<1>1. s.r \in 0..HalfLen /\ s.s \in 0..HalfLen /\ HalfLen \in Nat
  <2>1. s.r \in 0..(HalfLen - 1) /\ s.s \in 0..(HalfLen - 1)
    BY SigningFields
  <2> QED
    BY <2>1, ClaimsAssumption
<1>2. a \in Seq(NumberByteSet("R", s.key, DigestOf(s))) /\ Len(a) = HalfLen - s.r
  BY <1>1, NumberBytesType
<1>3. b \in Seq(NumberByteSet("S", s.key, DigestOf(s))) /\ Len(b) = HalfLen - s.s
  BY <1>1, NumberBytesType
<1>4. NumberByteSet("R", s.key, DigestOf(s)) \subseteq T /\ NumberByteSet("S", s.key, DigestOf(s)) \subseteq T
  BY DEF Strings
<1>5. SignatureOf(s) = a \o b
  BY DEF SignatureOf, LBRYSDKEncode
<1> HIDE DEF a, b
<1>6. a \in Seq(T) /\ b \in Seq(T)
  BY <1>2, <1>3, <1>4
<1>7. a \o b \in Seq(T) /\ Len(a \o b) = Len(a) + Len(b)
  BY <1>6, ConcatProperties
<1>8. Len(a \o b) = SigLen - (s.r + s.s)
  BY <1>1, <1>2, <1>3, <1>7 DEF SigLen
<1> QED
  BY <1>2, <1>3, <1>5, <1>6, <1>7, <1>8 DEF a, b

(* What ValidateClaimSignature asks of a helper of this version.           *)
LEMMA Validated ==
    ASSUME NEW M, NEW B, NEW n, NEW t \in Signing(M, B, n), NEW is, NEW id, NEW p,
           NEW S, NEW sig \in Seq(S), Len(sig) = SigLen
    PROVE  LET hp == HelperOf("WithSig", is, id, sig, p)
           IN  ValidateClaimSignature(hp, Channel(t.key), t.txid, t.channel) <=>
                  /\ IsNumber(SubSeq(sig, 1, HalfLen), "R", t.key, t.txid \o reverseBytes(t.channel) \o p)
                  /\ IsNumber(SubSeq(sig, HalfLen + 1, SigLen), "S", t.key, t.txid \o reverseBytes(t.channel) \o p)
<1> DEFINE hp == HelperOf("WithSig", is, id, sig, p)
           dg == t.txid \o reverseBytes(t.channel) \o p
<1>1. t.key \notin {"", "junk"} /\ t.key # "none"
  BY DEF Signing
<1>2. GetPublicKey(Channel(t.key)) = t.key
  BY <1>1, ChannelKey
<1>3. hp.legacy = <<>> /\ hp.signature = sig /\ hp.payload = p
  BY DEF HelperOf
<1>4. sig # <<>>
  BY ClaimsAssumption DEF SigLen
<1> HIDE DEF hp
<1>5. ValidateClaimSignature(hp, Channel(t.key), t.txid, t.channel) <=>
         VerifyDigest(Channel(t.key), sig, dg)
  BY <1>3, <1>4 DEF ValidateClaimSignature, validateClaimSignature
<1> HIDE DEF dg
<1>6. VerifyDigest(Channel(t.key), sig, dg) <=>
              /\ IsNumber(SubSeq(sig, 1, HalfLen), "R", t.key, dg)
              /\ IsNumber(SubSeq(sig, HalfLen + 1, SigLen), "S", t.key, dg)
  BY <1>1, <1>2, Verified
<1> QED
  BY <1>5, <1>6 DEF hp, dg

(* A message is no byte.                                                   *)
LEMMA NoByte ==
    ASSUME NEW M, NEW B, NEW h \in HelperType(M, B), Len(serialized(h)) = 1, NEW y, NEW w, NEW k, NEW d, NEW i
    PROVE  serialized(h)[1] # Byte(y) /\ serialized(h)[1] # NumberByte(w, k, d, i)
<1> DEFINE x == serialized(h)[1]
<1>1. serialized(h) # <<>>
  OBVIOUS
<1>2. UnmarshalsSupport(serialized(h)) \/ UnmarshalsClaim(serialized(h))
  BY MessageRead
<1>3. "support" \in DOMAIN x \/ "claim" \in DOMAIN x
  BY <1>1, <1>2 DEF UnmarshalsSupport, UnmarshalsClaim
<1>4. /\ "support" \notin DOMAIN Byte(y) /\ "claim" \notin DOMAIN Byte(y)
      /\ "support" \notin DOMAIN NumberByte(w, k, d, i) /\ "claim" \notin DOMAIN NumberByte(w, k, d, i)
  BY DEF Byte, NumberByte
<1> QED
  BY <1>3, <1>4

Valid(got, t) == got.ok /\ ValidateClaimSignature(got.h, Channel(t.key), t.txid, t.channel)

(* A signature of full length.                                             *)
LEMMA FullSignature ==
    ASSUME NEW M, NEW B, NEW n \in Nat, NEW s \in Signing(M, B, n), NEW t \in Signing(M, B, n),
           s.r = 0, s.s = 0,
           NEW raw, raw = Wrapped(VersionByte("WithSig"), reverseBytes(s.channel), SignatureOf(s), serialized(t.helper))
    PROVE  Valid(LoadBytes(t.helper, raw), t) <=> s.key = t.key /\ DigestOf(s) = DigestOf(t)
<1> DEFINE a == NumberBytes("R", s.key, DigestOf(s), 0)
           b == NumberBytes("S", s.key, DigestOf(s), 0)
           sig == a \o b
           id == reverseBytes(s.channel)
           q == serialized(t.helper)
           is == t.helper.support # NilSupport
           hp == HelperOf("WithSig", is, id, sig, q)
           v == VersionByte("WithSig")
<1>1. PICK T : Strings(T, s, t, n)
  BY StringsExist
<1>2. HalfLen \in Nat /\ SigLen = HalfLen + HalfLen /\ t.helper \in HelperType(M, B)
  <2>1. HalfLen \in Nat /\ SigLen = HalfLen + HalfLen
    BY ClaimsAssumption DEF SigLen
  <2> QED
    BY <2>1, SigningFields
<1>3. /\ SignatureOf(s) = sig /\ a \in Seq(T) /\ Len(a) = HalfLen /\ b \in Seq(T) /\ Len(b) = HalfLen
      /\ sig \in Seq(T) /\ Len(sig) = SigLen
  <2>1. /\ SignatureOf(s) = sig /\ a \in Seq(T) /\ Len(a) = HalfLen - 0 /\ b \in Seq(T) /\ Len(b) = HalfLen - 0
        /\ sig \in Seq(T) /\ Len(sig) = SigLen - (0 + 0)
    BY <1>1, SignatureParts
  <2> HIDE DEF a, b, sig
  <2> QED
    BY <1>2, <2>1
<1>4. v \in T /\ id \in Seq(T) /\ Len(id) = IdLen /\ q \in Seq(T)
  BY <1>1 DEF Strings
<1>5. IF is THEN UnmarshalsSupport(q) ELSE UnmarshalsClaim(q)
  BY <1>2, MessageRead
<1>6. hp.claim = t.helper.claim /\ hp.support = t.helper.support
  <2>1. /\ (IF is THEN NilClaim ELSE UnmarshalClaim(q)) = t.helper.claim
        /\ (IF is THEN UnmarshalSupport(q) ELSE NilSupport) = t.helper.support
    <3>1. IF is THEN UnmarshalSupport(q) = t.helper.support ELSE UnmarshalClaim(q) = t.helper.claim
      BY <1>2, MessageRead
    <3>2. is <=> t.helper.claim = NilClaim
      BY <1>2 DEF HelperType
    <3> QED
      BY <3>1, <3>2
  <2> HIDE DEF is, q, sig, id
  <2> QED
    BY <2>1 DEF HelperOf
<1>7. ValidateCertificate(hp) = Done(hp)
  <2>1. /\ t.helper.claim \in Claim(M) \cup {NilClaim}
        /\ t.helper.support = NilSupport \/ t.helper.claim = NilClaim
    BY <1>2 DEF HelperType
  <2> HIDE DEF hp
  <2> QED
    BY <1>6, <2>1, CertificateTaken
<1> HIDE DEF sig, id, q, v
<1>8. Unwraps(raw, v, id, sig, q)
  BY <1>3, <1>4, Unwrapped DEF v, id, q
<1>9. LoadBytes(t.helper, raw) = Done(hp)
  BY <1>5, <1>7, <1>8, SignedDecoded DEF v
<1>10. Valid(Done(hp), t) <=> ValidateClaimSignature(hp, Channel(t.key), t.txid, t.channel)
  <2> HIDE DEF hp
  <2> QED
    BY DEF Valid, Done
<1>11. ValidateClaimSignature(hp, Channel(t.key), t.txid, t.channel) <=>
         /\ IsNumber(SubSeq(sig, 1, HalfLen), "R", t.key, t.txid \o reverseBytes(t.channel) \o q)
         /\ IsNumber(SubSeq(sig, HalfLen + 1, SigLen), "S", t.key, t.txid \o reverseBytes(t.channel) \o q)
  BY <1>3, Validated
<1>12. t.txid \o reverseBytes(t.channel) \o q = DigestOf(t)
  BY DEF DigestOf, q
<1>13. SubSeq(sig, 1, HalfLen) = a /\ SubSeq(sig, HalfLen + 1, SigLen) = b
  <2> HIDE DEF a, b
  <2>1. SubSeq(a \o b, 1, Len(a)) = a /\ SubSeq(a \o b, Len(a) + 1, Len(a \o b)) = b
    BY <1>3, TakenApart
  <2> QED
    BY <1>3, <2>1 DEF sig
<1>14. /\ IsNumber(a, "R", t.key, DigestOf(t)) <=> s.key = t.key /\ DigestOf(s) = DigestOf(t)
       /\ IsNumber(b, "S", t.key, DigestOf(t)) <=> s.key = t.key /\ DigestOf(s) = DigestOf(t)
  BY FullNumber
<1> HIDE DEF a, b, hp, is
<1> QED
  BY <1>9, <1>10, <1>11, <1>12, <1>13, <1>14

(* Without its message a value is loaded all the same.                     *)
LEMMA EmptyTaken ==
    ASSUME NEW is \in BOOLEAN, NEW id, NEW sig
    PROVE  LET hp == HelperOf("WithSig", is, id, sig, <<>>)
           IN  /\ ValidateCertificate(hp) = Done(hp)
               /\ IF is THEN UnmarshalsSupport(<<>>) ELSE UnmarshalsClaim(<<>>)
<1> DEFINE hp == HelperOf("WithSig", is, id, sig, <<>>)
<1>1. UnmarshalClaim(<<>>) = EmptyClaim /\ UnmarshalsSupport(<<>>) /\ UnmarshalsClaim(<<>>)
  BY DEF UnmarshalClaim, UnmarshalsSupport, UnmarshalsClaim
<1>2. hp.claim \in {NilClaim, EmptyClaim}
  BY <1>1 DEF HelperOf
<1> HIDE DEF hp
<1>3. ~IsClaim(hp)
  BY <1>2 DEF IsClaim, ClaimPrints
<1>4. ValidateCertificate(hp) = Done(hp)
  BY <1>3 DEF ValidateCertificate
<1> QED
  BY <1>1, <1>4 DEF hp

(* A signature that was written too short.                                 *)
LEMMA ShortSignature ==
    ASSUME NEW M, NEW B, NEW n \in Nat, NEW s \in Signing(M, B, n), NEW t \in Signing(M, B, n),
           s.r # 0 \/ s.s # 0,
           NEW raw, raw = Wrapped(VersionByte("WithSig"), reverseBytes(s.channel), SignatureOf(s), serialized(t.helper))
    PROVE  ~Valid(LoadBytes(t.helper, raw), t)
<1> DEFINE a == NumberBytes("R", s.key, DigestOf(s), s.r)
           b == NumberBytes("S", s.key, DigestOf(s), s.s)
           sig == a \o b
           id == reverseBytes(s.channel)
           q == serialized(t.helper)
           is == t.helper.support # NilSupport
           v == VersionByte("WithSig")
           long == sig \o q
           hp == HelperOf("WithSig", is, id, long, <<>>)
<1>1. PICK T : Strings(T, s, t, n)
  BY StringsExist
<1>2. HalfLen \in Nat \ {0} /\ SigLen = HalfLen + HalfLen /\ IdLen \in Nat /\ HeaderLen = 1 + IdLen + SigLen
  BY ClaimsAssumption DEF SigLen, HeaderLen
<1>3. /\ SignatureOf(s) = sig /\ a \in Seq(T) /\ Len(a) = HalfLen - s.r /\ b \in Seq(T) /\ Len(b) = HalfLen - s.s
      /\ sig \in Seq(T) /\ Len(sig) = SigLen - (s.r + s.s)
  BY <1>1, SignatureParts
<1>4. v \in T /\ id \in Seq(T) /\ Len(id) = IdLen /\ q \in Seq(T)
  BY <1>1 DEF Strings
<1>5. s.r \in 0..(HalfLen - 1) /\ s.s \in 0..(HalfLen - 1) /\ t.helper \in HelperType(M, B)
  BY SigningFields
<1>6. Len(q) \in Nat /\ Len(q) <= 1
  BY <1>4, <1>5, MessageRead, LenProperties
<1>7. /\ \A i \in 1..(HalfLen - s.s) : b[i] = NumberByte("S", s.key, DigestOf(s), i + s.s)
  <2>1. s.s \in 0..HalfLen
    BY <1>2, <1>5
  <2> QED
    BY <2>1, NumberBytesType
<1> HIDE DEF a, b, sig, id, q, v
<1>8. /\ raw = Wrapped(v, id, long, <<>>) /\ raw # <<>> /\ raw[1] = v
      /\ Len(raw) = 1 + IdLen + Len(sig) + Len(q)
  <2>1. raw = Wrapped(v, id, sig, q)
    BY <1>3 DEF v, id, q
  <2>2. /\ Wrapped(v, id, sig, q) = Wrapped(v, id, sig \o q, <<>>)
        /\ Wrapped(v, id, sig, q) # <<>> /\ Wrapped(v, id, sig, q)[1] = v
        /\ Len(Wrapped(v, id, sig, q)) = 1 + Len(id) + Len(sig) + Len(q)
    <3>1. v \in T /\ id \in Seq(T) /\ sig \in Seq(T) /\ q \in Seq(T)
      BY <1>3, <1>4
    <3> QED
      BY <3>1, Shifted
  <2> QED
    BY <1>4, <2>1, <2>2
<1>9. CASE Len(raw) < HeaderLen
  <2>1. ~LoadBytes(t.helper, raw).ok
    BY <1>8, <1>9, ShortRefused DEF v
  <2> QED
    BY <2>1 DEF Valid
<1>10. CASE ~(Len(raw) < HeaderLen)
  <2>1. Len(q) = 1 /\ s.r + s.s = 1 /\ Len(sig) = SigLen - 1
    <3>1. Len(raw) = 1 + IdLen + (SigLen - (s.r + s.s)) + Len(q)
      BY <1>3, <1>8
    <3>2. s.r + s.s >= 1
      BY <1>2, <1>5
    <3>3. s.r + s.s = 1 /\ Len(q) = 1
      <4> DEFINE x == s.r + s.s
                 l == Len(q)
      <4>1. x \in Nat /\ x >= 1 /\ l \in Nat /\ l <= 1 /\ SigLen \in Nat
        BY <1>2, <1>5, <1>6, <3>2
      <4>2. ~(1 + IdLen + (SigLen - x) + l < 1 + IdLen + SigLen)
        BY <1>2, <1>10, <3>1
      <4> HIDE DEF x, l
      <4>3. x = 1 /\ l = 1
        BY <1>2, <4>1, <4>2
      <4> QED
        BY <4>3 DEF x, l
    <3> QED
      BY <1>3, <3>3
  <2>2. /\ long \in Seq(T) /\ Len(long) = SigLen
        /\ \A i \in 1 .. SigLen : long[i] = IF i <= SigLen - 1 THEN sig[i] ELSE q[i - (SigLen - 1)]
    <3>1. /\ sig \o q \in Seq(T) /\ Len(sig \o q) = Len(sig) + Len(q)
          /\ \A i \in 1 .. Len(sig) + Len(q) : (sig \o q)[i] = IF i <= Len(sig) THEN sig[i] ELSE q[i - Len(sig)]
      <4>1. sig \in Seq(T) /\ q \in Seq(T)
        BY <1>3, <1>4
      <4> QED
        BY <4>1, ConcatProperties
    <3>2. Len(sig) + Len(q) = SigLen
      BY <1>2, <2>1
    <3> QED
      BY <2>1, <3>1, <3>2
  <2> HIDE DEF long
  <2>3. Unwraps(raw, v, id, long, <<>>)
    <3>1. <<>> \in Seq(T)
      OBVIOUS
    <3> QED
      BY <1>4, <1>8, <2>2, <3>1, Unwrapped
  <2>4. ValidateCertificate(hp) = Done(hp) /\ IF is THEN UnmarshalsSupport(<<>>) ELSE UnmarshalsClaim(<<>>)
    BY EmptyTaken
  <2>5. LoadBytes(t.helper, raw) = Done(hp)
    BY <2>3, <2>4, SignedDecoded DEF v
  <2> DEFINE dg == t.txid \o reverseBytes(t.channel) \o <<>>
  <2>6. ValidateClaimSignature(hp, Channel(t.key), t.txid, t.channel) <=>
         /\ IsNumber(SubSeq(long, 1, HalfLen), "R", t.key, dg)
         /\ IsNumber(SubSeq(long, HalfLen + 1, SigLen), "S", t.key, dg)
    BY <2>2, Validated
  <2> HIDE DEF dg
  <2>7. SubSeq(long, 1, HalfLen)[HalfLen] = long[HalfLen] /\ SubSeq(long, HalfLen + 1, SigLen)[HalfLen] = long[SigLen]
    <3>1. /\ SubSeq(long, 1, HalfLen) = [i \in 1..HalfLen |-> long[i]]
          /\ SubSeq(long, HalfLen + 1, SigLen) = [i \in 1..HalfLen |-> long[i + HalfLen]]
      BY <1>2, <2>2
    <3> QED
      BY <1>2, <3>1
  <2>8. CASE s.r = 1
    <3>1. s.s = 0
      BY <1>5, <2>1, <2>8
    <3>2. long[HalfLen] = sig[HalfLen]
      BY <1>2, <1>5, <2>2, <2>8
    <3>3. sig[HalfLen] = b[1]
      <4>1. \A i \in 1 .. Len(a) + Len(b) : (a \o b)[i] = IF i <= Len(a) THEN a[i] ELSE b[i - Len(a)]
        <5>1. a \in Seq(T) /\ b \in Seq(T)
          BY <1>3
        <5> QED
          BY <5>1, ConcatProperties
      <4>2. Len(a) = HalfLen - 1 /\ Len(b) = HalfLen
        BY <1>2, <1>3, <2>8, <3>1
      <4>3. HalfLen \in 1 .. Len(a) + Len(b) /\ ~(HalfLen <= Len(a)) /\ HalfLen - Len(a) = 1
        BY <1>2, <1>5, <2>8, <4>2
      <4> QED
        BY <4>1, <4>3 DEF sig
    <3>4. b[1] = NumberByte("S", s.key, DigestOf(s), 1)
      <4>1. 1 \in 1..(HalfLen - s.s) /\ 1 + s.s = 1
        BY <1>2, <3>1
      <4> QED
        BY <1>7, <4>1
    <3>5. ~IsNumber(SubSeq(long, 1, HalfLen), "R", t.key, dg)
      <4>1. long[HalfLen] \notin {Byte("0"), NumberByte("R", t.key, dg, HalfLen)}
        BY <3>2, <3>3, <3>4, NumberByteParts
      <4> QED
        BY <2>7, <4>1, LastByte
    <3>6. ~ValidateClaimSignature(hp, Channel(t.key), t.txid, t.channel)
      BY <2>6, <3>5
    <3> HIDE DEF hp
    <3> QED
      BY <2>5, <3>6 DEF Valid, Done
  <2>9. CASE s.r = 0
    <3>1. long[SigLen] = q[1]
      <4>1. SigLen \in 1 .. SigLen /\ ~(SigLen <= SigLen - 1) /\ SigLen - (SigLen - 1) = 1
        BY <1>2
      <4> QED
        BY <2>2, <4>1
    <3>2. long[SigLen] \notin {Byte("0"), NumberByte("S", t.key, dg, HalfLen)}
      BY <1>5, <2>1, <3>1, NoByte DEF q
    <3>3. ~IsNumber(SubSeq(long, HalfLen + 1, SigLen), "S", t.key, dg)
      BY <2>7, <3>2, LastByte
    <3>4. ~ValidateClaimSignature(hp, Channel(t.key), t.txid, t.channel)
      BY <2>6, <3>3
    <3> HIDE DEF hp
    <3> QED
      BY <2>5, <3>4 DEF Valid, Done
  <2> QED
    BY <1>2, <1>5, <2>1, <2>8, <2>9
<1> QED
  BY <1>9, <1>10

(* The signature that Sign makes, sent by CompileValue with the content it *)
(* was made for or any other, is found valid by ValidateClaimSignature     *)
(* for no key, transaction, channel and content but those it was made for, *)
(* and for these if it has all its bytes.  Where one of its numbers begins *)
(* with zero bytes LBRYSDKEncode writes it too short, and what is then     *)
(* taken for its second number does not end with that number's last byte.  *)
THEOREM EverySignatureBinds ==
    ASSUME NEW M, NEW B, NEW n \in Nat, NEW s \in Signing(M, B, n), NEW t \in Signing(M, B, n)
    PROVE  Binds(s, t)
<1> DEFINE raw == CompileValue(Signed(s))
           v == VersionByte("WithSig")
           id == reverseBytes(s.channel)
           p == serialized(s.helper)
           q == serialized(t.helper)
           sig == SignatureOf(s)
           sent == SubSeq(raw, 1, Len(raw) - Len(p)) \o q
           same == s.key = t.key /\ s.txid = t.txid /\ s.channel = t.channel /\ p = q
           got == LoadBytes(t.helper, sent)
<1>1. raw = Wrapped(v, id, sig, p)
  BY SignedParts
<1>2. PICK T : Strings(T, s, t, n)
  BY StringsExist
<1>3. v \in T /\ id \in Seq(T) /\ p \in Seq(T) /\ q \in Seq(T)
  BY <1>2 DEF Strings
<1>4. sig \in Seq(T)
  BY <1>2, SignatureParts
<1>5. sent = Wrapped(v, id, sig, q)
  <2> HIDE DEF v, id, sig, p, q, raw
  <2>1. v \in T /\ id \in Seq(T) /\ sig \in Seq(T) /\ p \in Seq(T) /\ q \in Seq(T)
    BY <1>3, <1>4
  <2>2. Exchange(Wrapped(v, id, sig, p), p, q) = Wrapped(v, id, sig, q)
    BY <2>1, Exchanged
  <2> QED
    BY <1>1, <2>2 DEF Exchange
<1>6. DigestOf(s) = DigestOf(t) <=> s.txid = t.txid /\ s.channel = t.channel /\ p = q
  BY SameDigest
<1> HIDE DEF sent, raw
<1>7. CASE s.r = 0 /\ s.s = 0
  <2>1. Valid(got, t) <=> s.key = t.key /\ DigestOf(s) = DigestOf(t)
    BY <1>5, <1>7, FullSignature
  <2> QED
    BY <1>6, <2>1 DEF Valid, Binds, raw, sent
<1>8. CASE s.r # 0 \/ s.s # 0
  <2>1. ~Valid(got, t)
    BY <1>5, <1>8, ShortSignature
  <2> QED
    BY <1>8, <2>1 DEF Valid, Binds, raw, sent
<1> QED
  BY <1>7, <1>8

-----------------------------------------------------------------------------
(* Claims of the first protobuf.                                           *)

LegacyStream(F) ==
    [type : {"stream"}, title : F, key : F, nsfw : BOOLEAN, mediaType : F, licenseUrl : F, fee : F, certificateId : {<<>>}, signature : {<<>>}]

LegacyHelper(l) ==
    [claim     |-> migrateV1PBClaim(l),
     support   |-> NilSupport,
     legacy    |-> <<l>>,
     claimID   |-> l.certificateId,
     version   |-> IF l.signature # <<>> THEN "WithSig" ELSE "UNKNOWN",
     signature |-> l.signature,
     payload   |-> <<[legacy |-> l]>>]

(* A claim of the first protobuf that is loaded.                           *)
LEMMA LegacyLoaded ==
    ASSUME NEW l, l.type = "stream"
    PROVE  loadFromBytes(NewHelper, MarshalLegacy(l), FALSE) = Done(LegacyHelper(l))
<1> DEFINE x == [legacy |-> l]
           raw == MarshalLegacy(l)
           hp == LegacyHelper(l)
<1>1. /\ raw # <<>> /\ raw[1] = Byte("8") /\ raw[2] = x /\ Len(raw) = 2 /\ Tail(raw) = <<x>>
      /\ Len(<<x>>) = 1 /\ <<x>>[1] = x /\ <<x>> # <<>>
  BY DEF MarshalLegacy
<1>2. "claim" \notin DOMAIN x /\ "legacy" \in DOMAIN x /\ x.legacy = l
  OBVIOUS
<1> HIDE DEF x, raw
<1>3. getVersionFromByte(raw[1]) = "UNKNOWN"
  BY <1>1 DEF getVersionFromByte, Byte
<1>4. ~UnmarshalsClaim(<<x>>)
  BY <1>1, <1>2 DEF UnmarshalsClaim
<1>5. UnmarshalsLegacy(raw)
  BY <1>1, <1>2 DEF UnmarshalsLegacy
<1>6. loadFromBytes(NewHelper, raw, FALSE) = ValidateCertificate(hp)
  <2>1. hp = [claim     |-> migrateV1PBClaim(l),
              support   |-> NilSupport,
              legacy    |-> <<l>>,
              claimID   |-> l.certificateId,
              version   |-> IF l.type = "certificate" THEN "NoSig"
                            ELSE IF l.signature # <<>> THEN "WithSig" ELSE "UNKNOWN",
              signature |-> l.signature,
              payload   |-> <<x>>]
    BY DEF LegacyHelper, x
  <2> HIDE DEF hp
  <2> QED
    BY <1>1, <1>2, <1>3, <1>4, <1>5, <2>1, NoClaimYet DEF loadFromBytes
<1>7. ValidateCertificate(hp) = Done(hp)
  <2>1. migrateV1PBClaim(l).type = "stream"
    BY DEF migrateV1PBClaim, EmptyClaim, NilClaim
  <2>2. hp.claim = migrateV1PBClaim(l)
    BY DEF LegacyHelper
  <2> HIDE DEF hp
  <2> QED
    BY <2>1, <2>2 DEF ValidateCertificate
<1> QED
  BY <1>6, <1>7 DEF raw

(* What is signed is the claim without channel and signature.              *)
SerializesAlike(l, id, sig) ==
    LET carried == [l EXCEPT !.certificateId = id, !.signature = sig]
    IN  /\ serializedNoSignature(LegacyHelper(l)) = MarshalLegacy(l)
        /\ serializedNoSignature(LegacyHelper(carried)) = MarshalLegacy(l)
        /\ carried.type = "stream" /\ carried.signature = sig

(* It is signed without the channel and the signature it carries.          *)
LEMMA LegacySerialized ==
    ASSUME NEW F, NEW l \in LegacyStream(F), NEW id, NEW sig, sig # <<>>
    PROVE  SerializesAlike(l, id, sig)
<1> DEFINE carried == [l EXCEPT !.certificateId = id, !.signature = sig]
           g == LegacyHelper(l)
           h == LegacyHelper(carried)
<1>1. /\ l.type = "stream" /\ l.signature = <<>>
      /\ l = [type |-> "stream", title |-> l.title, key |-> l.key, nsfw |-> l.nsfw, mediaType |-> l.mediaType,
              licenseUrl |-> l.licenseUrl, fee |-> l.fee, certificateId |-> <<>>, signature |-> <<>>]
  BY DEF LegacyStream
<1>2. g.signature = <<>> /\ g.legacy = <<l>>
  BY <1>1 DEF LegacyHelper
<1>3. <<l>> # <<>> /\ <<l>>[1] = l
  OBVIOUS
<1>4. serializedNoSignature(g) = MarshalLegacy(l)
  <2> HIDE DEF g
  <2> QED
    BY <1>2, <1>3 DEF serializedNoSignature, serialized
<1>5. carried = [type |-> "stream", title |-> l.title, key |-> l.key, nsfw |-> l.nsfw, mediaType |-> l.mediaType,
                 licenseUrl |-> l.licenseUrl, fee |-> l.fee, certificateId |-> id, signature |-> sig]
  <2> DEFINE e == [l EXCEPT !.certificateId = id]
  <2>1. e = [type |-> "stream", title |-> l.title, key |-> l.key, nsfw |-> l.nsfw, mediaType |-> l.mediaType,
             licenseUrl |-> l.licenseUrl, fee |-> l.fee, certificateId |-> id, signature |-> <<>>]
    BY <1>1
  <2>2. carried = [e EXCEPT !.signature = sig]
    OBVIOUS
  <2> HIDE DEF e, carried
  <2> QED
    BY <2>1, <2>2
<1> HIDE DEF carried
<1>6. [carried EXCEPT !.certificateId = <<>>, !.signature = <<>>] = l
  <2> DEFINE e == [carried EXCEPT !.certificateId = <<>>]
  <2>1. e = [type |-> "stream", title |-> l.title, key |-> l.key, nsfw |-> l.nsfw, mediaType |-> l.mediaType,
             licenseUrl |-> l.licenseUrl, fee |-> l.fee, certificateId |-> <<>>, signature |-> sig]
    BY <1>5
  <2>2. [carried EXCEPT !.certificateId = <<>>, !.signature = <<>>] = [e EXCEPT !.signature = <<>>]
    OBVIOUS
  <2> HIDE DEF e
  <2>3. [e EXCEPT !.signature = <<>>] =
            [type |-> "stream", title |-> l.title, key |-> l.key, nsfw |-> l.nsfw, mediaType |-> l.mediaType,
             licenseUrl |-> l.licenseUrl, fee |-> l.fee, certificateId |-> <<>>, signature |-> <<>>]
    BY <2>1
  <2> QED
    BY <1>1, <2>2, <2>3
<1>7. carried.type = "stream" /\ carried.signature = sig
  BY <1>5
<1>8. h.signature = sig /\ h.legacy = <<carried>>
  BY <1>7 DEF LegacyHelper
<1>9. <<carried>> # <<>> /\ <<carried>>[1] = carried
  OBVIOUS
<1>10. serializedNoSignature(h) = MarshalLegacy(l)
  <2> HIDE DEF h
  <2> QED
    BY <1>6, <1>8, <1>9 DEF serializedNoSignature
<1> QED
  BY <1>4, <1>7, <1>10 DEF carried, SerializesAlike

(* The same for the claims of the first protobuf, which                    *)
(* validateV1ClaimSignature checks: valid for no key, address and channel  *)
(* but those that signed, and for these, without a panic, if the signature *)
(* has all its bytes.                                                      *)
THEOREM EveryV1SignatureBinds ==
    ASSUME NEW M, NEW B, NEW F, NEW n \in Nat, NEW legacy \in LegacyStream(F),
           NEW s \in Signing(M, B, n), NEW t \in Signing(M, B, n)
    PROVE  BindsV1(legacy, s, t)
<1> DEFINE m == MarshalLegacy(legacy)
           ds == s.txid \o m \o s.channel
           dt == t.txid \o m \o t.channel
           a == NumberBytes("R", s.key, ds, s.r)
           b == NumberBytes("S", s.key, ds, s.s)
           full == s.r = 0 /\ s.s = 0
           sig == a \o b
           carried == [legacy EXCEPT !.certificateId = s.channel, !.signature = sig]
           hp == LegacyHelper(carried)
           N == NumberByteSet("R", s.key, ds) \cup NumberByteSet("S", s.key, ds)
<1>1. /\ HalfLen \in Nat \ {0} /\ SigLen = HalfLen + HalfLen /\ IdLen \in Nat
      /\ s.r \in 0..(HalfLen - 1) /\ s.s \in 0..(HalfLen - 1)
  <2>1. HalfLen \in Nat \ {0} /\ SigLen = HalfLen + HalfLen /\ IdLen \in Nat
    BY ClaimsAssumption DEF SigLen
  <2>2. s.r \in 0..(HalfLen - 1) /\ s.s \in 0..(HalfLen - 1)
    BY SigningFields
  <2> QED
    BY <2>1, <2>2
<1>2. a \in Seq(N) /\ Len(a) = HalfLen - s.r /\ b \in Seq(N) /\ Len(b) = HalfLen - s.s
  <2>1. s.r \in 0..HalfLen /\ s.s \in 0..HalfLen
    BY <1>1
  <2>2. a \in Seq(NumberByteSet("R", s.key, ds)) /\ Len(a) = HalfLen - s.r
    BY <1>1, <2>1, NumberBytesType
  <2>3. b \in Seq(NumberByteSet("S", s.key, ds)) /\ Len(b) = HalfLen - s.s
    BY <1>1, <2>1, NumberBytesType
  <2> HIDE DEF a, b
  <2> QED
    BY <2>2, <2>3
<1>3. full => /\ IsNumber(a, "R", t.key, dt) <=> s.key = t.key /\ ds = dt
              /\ IsNumber(b, "S", t.key, dt) <=> s.key = t.key /\ ds = dt
  <2> HIDE DEF ds, dt
  <2> QED
    BY FullNumber
<1>4. LBRYSDKEncode(s.key, ds, s.r, s.s) = sig
  BY DEF LBRYSDKEncode
<1> HIDE DEF a, b, N, ds, dt, m
<1>5. sig \in Seq(N) /\ sig # <<>> /\ (IF full THEN Len(sig) = SigLen ELSE Len(sig) < SigLen)
  <2>1. a \in Seq(N) /\ b \in Seq(N)
    BY <1>2
  <2>2. sig \in Seq(N) /\ Len(sig) = Len(a) + Len(b)
    BY <2>1, ConcatProperties
  <2> HIDE DEF sig
  <2> DEFINE x == s.r
             y == s.s
             l == Len(sig)
             k == SigLen
             h == HalfLen
  <2>3. l # 0 /\ (IF x = 0 /\ y = 0 THEN l = k ELSE l < k)
    <3>1. /\ h \in Nat \ {0} /\ k = h + h /\ x \in 0..(h - 1) /\ y \in 0..(h - 1)
          /\ l = (h - x) + (h - y)
      BY <1>1, <1>2, <2>2
    <3> HIDE DEF x, y, l, k, h
    <3> QED
      BY <3>1
  <2> QED
    BY <2>2, <2>3
<1>6. ASSUME full PROVE SubSeq(sig, 1, HalfLen) = a /\ SubSeq(sig, HalfLen + 1, SigLen) = b
  <2>1. SubSeq(a \o b, 1, Len(a)) = a /\ SubSeq(a \o b, Len(a) + 1, Len(a \o b)) = b
    BY <1>2, TakenApart
  <2> QED
    BY <1>1, <1>2, <1>5, <1>6, <2>1
<1> HIDE DEF sig
<1>7. /\ serializedNoSignature(LegacyHelper(legacy)) = m
      /\ serializedNoSignature(hp) = m
      /\ carried.type = "stream" /\ carried.signature = sig /\ legacy.type = "stream"
  <2>1. legacy \in LegacyStream(F) /\ sig # <<>>
    BY <1>5
  <2>2. SerializesAlike(legacy, s.channel, sig)
    BY <2>1, LegacySerialized
  <2>3. /\ serializedNoSignature(LegacyHelper(legacy)) = MarshalLegacy(legacy)
        /\ serializedNoSignature(hp) = MarshalLegacy(legacy)
        /\ carried.type = "stream" /\ carried.signature = sig
    BY <2>2 DEF SerializesAlike
  <2>4. legacy.type = "stream"
    BY <2>1 DEF LegacyStream
  <2> QED
    BY <2>3, <2>4 DEF m
<1>8. hp.legacy # <<>> /\ hp.signature = sig
  BY <1>7 DEF LegacyHelper
<1>9. loadFromBytes(NewHelper, MarshalLegacy(legacy), FALSE) = Done(LegacyHelper(legacy))
  BY <1>7, LegacyLoaded
<1> HIDE DEF carried, hp
<1>10. DecodeClaimBytes(MarshalLegacy(carried)) = Done(hp)
  <2>1. loadFromBytes(NewHelper, MarshalLegacy(carried), FALSE) = Done(hp)
    BY <1>7, LegacyLoaded DEF hp
  <2>2. Done(hp).ok
    BY DEF Done
  <2> QED
    BY <2>1, <2>2 DEF DecodeClaimBytes
<1>11. ASSUME full PROVE ValidateClaimSignature(hp, Channel(t.key), t.txid, t.channel) <=> s.key = t.key /\ ds = dt
  <2>1. t.key \notin {"", "junk"} /\ t.key # "none"
    BY DEF Signing
  <2>2. GetPublicKey(Channel(t.key)) = t.key
    BY <2>1, ChannelKey
  <2>3. Len(sig) = SigLen /\ ~(Len(sig) < SigLen)
    BY <1>1, <1>5, <1>11
  <2>4. ValidateClaimSignature(hp, Channel(t.key), t.txid, t.channel) <=> VerifyDigest(Channel(t.key), sig, dt)
    BY <1>5, <1>7, <1>8, <2>3 DEF ValidateClaimSignature, validateV1ClaimSignature, ValidationPanics, dt
  <2>5. VerifyDigest(Channel(t.key), sig, dt) <=>
           /\ IsNumber(SubSeq(sig, 1, HalfLen), "R", t.key, dt)
           /\ IsNumber(SubSeq(sig, HalfLen + 1, SigLen), "S", t.key, dt)
    BY <1>5, <2>1, <2>2, <2>3, Verified
  <2> QED
    BY <1>3, <1>6, <1>11, <2>4, <2>5
<1>12. ds = dt <=> s.txid = t.txid /\ s.channel = t.channel
  <2> DEFINE T == B \cup {Byte("8"), [legacy |-> legacy]}
  <2>1. /\ s.txid \in [1..n -> B] /\ t.txid \in [1..n -> B]
        /\ s.channel \in [1..IdLen -> B] /\ t.channel \in [1..IdLen -> B]
    BY SigningFields
  <2>2. /\ s.txid \in [1..n -> T] /\ t.txid \in [1..n -> T]
        /\ s.channel \in [1..IdLen -> T] /\ t.channel \in [1..IdLen -> T]
    BY <2>1
  <2>3. m \in Seq(T)
    BY DEF m, MarshalLegacy
  <2> HIDE DEF T
  <2>4. /\ s.txid \in Seq(T) /\ t.txid \in Seq(T) /\ Len(s.txid) = n /\ Len(t.txid) = n
        /\ s.channel \in Seq(T) /\ t.channel \in Seq(T)
    BY <1>1, <2>2, IntervalSeq
  <2> DEFINE u == s.txid \o m
             w == t.txid \o m
  <2>5. u \in Seq(T) /\ Len(u) = n + Len(m)
    <3>1. s.txid \in Seq(T) /\ m \in Seq(T)
      BY <2>3, <2>4
    <3>2. u \in Seq(T) /\ Len(u) = Len(s.txid) + Len(m)
      BY <3>1, ConcatProperties
    <3> HIDE DEF u
    <3> QED
      BY <2>4, <3>2
  <2>6. w \in Seq(T) /\ Len(w) = n + Len(m)
    <3>1. t.txid \in Seq(T) /\ m \in Seq(T)
      BY <2>3, <2>4
    <3>2. w \in Seq(T) /\ Len(w) = Len(t.txid) + Len(m)
      BY <3>1, ConcatProperties
    <3> HIDE DEF w
    <3> QED
      BY <2>4, <3>2
  <2>7. ds = u \o s.channel /\ dt = w \o t.channel
    BY DEF ds, dt
  <2>8. ASSUME ds = dt PROVE s.txid = t.txid /\ s.channel = t.channel
    <3> HIDE DEF u, w
    <3>1. u = w /\ s.channel = t.channel
      BY <2>4, <2>5, <2>6, <2>7, <2>8, SameParts
    <3>2. s.txid \o m = t.txid \o m
      BY <3>1 DEF u, w
    <3>3. s.txid = t.txid
      BY <2>3, <2>4, <3>2, SameParts
    <3> QED
      BY <3>1, <3>3
  <2>9. ASSUME s.txid = t.txid, s.channel = t.channel PROVE ds = dt
    BY <2>9 DEF ds, dt
  <2> QED
    BY <2>8, <2>9
<1>13. Done(LegacyHelper(legacy)).h = LegacyHelper(legacy) /\ Done(hp).ok /\ Done(hp).h = hp
  BY DEF Done
<1>14. signV1Digest(LegacyHelper(legacy), s.channel, s.txid) = ds
  BY <1>7 DEF signV1Digest, ds
<1>15. carried = [legacy EXCEPT !.certificateId = s.channel, !.signature = LBRYSDKEncode(s.key, ds, s.r, s.s)]
  BY <1>4 DEF carried
<1>16. ASSUME ~full PROVE ~ValidateClaimSignature(hp, Channel(t.key), t.txid, t.channel)
  BY <1>5, <1>8, <1>16 DEF ValidateClaimSignature, validateV1ClaimSignature, ValidationPanics
<1>17. ASSUME full PROVE ~ValidationPanics(hp)
  BY <1>1, <1>5, <1>8, <1>17 DEF ValidationPanics
<1> DEFINE same == s.key = t.key /\ s.txid = t.txid /\ s.channel = t.channel
           valid == ValidateClaimSignature(hp, Channel(t.key), t.txid, t.channel)
<1>18. valid => same
  BY <1>11, <1>12, <1>16
<1>19. full => (same => valid) /\ ~ValidationPanics(hp)
  BY <1>11, <1>12, <1>17
<1> QED
  BY <1>9, <1>10, <1>13, <1>14, <1>15, <1>18, <1>19 DEF BindsV1

-----------------------------------------------------------------------------
(* The claims of the run are such claims.                                  *)

RunBytes == {Byte("i"), Byte("j"), Byte("t"), Byte("u")} \cup {SomeSignature[i] : i \in 1..SigLen}

RunTexts == {"none", "nil", "", "a", "b", "x", "y", "stream", "repost", "channel", "k1", "k2", <<>>}

(* A claim that has a type is a claim.                                     *)
LEMMA ClaimMade ==
    ASSUME NEW M, NEW y \in M, NEW n \in M, NEW k \in M, NEW x \in M,
           y = "channel" => GetPublicKeyFromBytes(k) # "none", y # "nil"
    PROVE  [type |-> y, title |-> n, key |-> k, extra |-> FALSE, meta |-> x] \in Claim(M) \ {NilClaim}
<1> DEFINE c == [type |-> y, title |-> n, key |-> k, extra |-> FALSE, meta |-> x]
<1>1. c \in [type : M, title : M, key : M, extra : {FALSE}, meta : M]
  OBVIOUS
<1>2. c.type = y /\ c.key = k
  OBVIOUS
<1> HIDE DEF c
<1>3. c \in Claim(M)
  BY <1>1, <1>2 DEF Claim
<1>4. NilClaim.type = "nil"
  BY DEF NilClaim
<1>5. c # NilClaim
  BY <1>2, <1>4
<1> QED
  BY <1>3, <1>5 DEF c

(* The helpers of the run,                                                 *)
LEMMA RunHelpers == Helpers \subseteq {h \in HelperType(RunTexts, RunBytes) : h.version = "NoSig"}
<1> DEFINE S == {h \in HelperType(RunTexts, RunBytes) : h.version = "NoSig"}
<1>1. ASSUME NEW h,
             /\ h.legacy = <<>> /\ h.claimID = <<>> /\ h.version = "NoSig" /\ h.signature = <<>> /\ h.payload = <<>>
             /\ h = [claim |-> h.claim, support |-> h.support, legacy |-> h.legacy, claimID |-> h.claimID,
                     version |-> h.version, signature |-> h.signature, payload |-> h.payload],
             h.claim \in Claim(RunTexts) \cup {NilClaim}, h.support \in RunTexts,
             h.support # NilSupport <=> h.claim = NilClaim
      PROVE  h \in S
  BY <1>1 DEF HelperType
<1>2. ASSUME NEW y \in {"stream", "repost"}, NEW n \in {"", "a", "b"},
             NEW h, h = [NewHelper EXCEPT !.claim.type = y, !.claim.title = n, !.support = NilSupport]
      PROVE  h \in S
  <2>1. h.claim = [type |-> y, title |-> n, key |-> "", extra |-> FALSE, meta |-> <<>>]
    BY <1>2 DEF NewHelper, EmptyClaim, NilClaim
  <2>2. /\ h.legacy = <<>> /\ h.claimID = <<>> /\ h.version = "NoSig" /\ h.signature = <<>> /\ h.payload = <<>>
        /\ h.support = NilSupport
    BY <1>2 DEF NewHelper
  <2>3. h = [claim |-> h.claim, support |-> h.support, legacy |-> h.legacy, claimID |-> h.claimID,
             version |-> h.version, signature |-> h.signature, payload |-> h.payload]
    BY <1>2 DEF NewHelper
  <2> HIDE DEF S
  <2>4. h.claim \in Claim(RunTexts) \ {NilClaim}
    <3>1. y \in RunTexts /\ n \in RunTexts /\ "" \in RunTexts /\ <<>> \in RunTexts /\ y # "channel" /\ y # "nil"
      BY DEF RunTexts
    <3> HIDE DEF RunTexts
    <3>2. [type |-> y, title |-> n, key |-> "", extra |-> FALSE, meta |-> <<>>] \in Claim(RunTexts) \ {NilClaim}
      BY <3>1, ClaimMade
    <3> QED
      BY <2>1, <3>2
  <2>6. NilSupport \in RunTexts
    BY DEF NilSupport, RunTexts
  <2> QED
    BY <1>1, <2>2, <2>3, <2>4, <2>6
<1>3. ASSUME NEW k \in {"k1", "k2"},
             NEW h, h = [NewHelper EXCEPT !.claim.type = "channel", !.claim.key = k, !.support = NilSupport]
      PROVE  h \in S
  <2>1. h.claim = [type |-> "channel", title |-> "", key |-> k, extra |-> FALSE, meta |-> <<>>]
    BY <1>3 DEF NewHelper, EmptyClaim, NilClaim
  <2>2. /\ h.legacy = <<>> /\ h.claimID = <<>> /\ h.version = "NoSig" /\ h.signature = <<>> /\ h.payload = <<>>
        /\ h.support = NilSupport
    BY <1>3 DEF NewHelper
  <2>3. h = [claim |-> h.claim, support |-> h.support, legacy |-> h.legacy, claimID |-> h.claimID,
             version |-> h.version, signature |-> h.signature, payload |-> h.payload]
    BY <1>3 DEF NewHelper
  <2> HIDE DEF S
  <2>4. h.claim \in Claim(RunTexts) \ {NilClaim}
    <3>1. "channel" \in RunTexts /\ k \in RunTexts /\ "" \in RunTexts /\ <<>> \in RunTexts
      BY DEF RunTexts
    <3>2. GetPublicKeyFromBytes(k) # "none"
      BY DEF GetPublicKeyFromBytes
    <3> HIDE DEF RunTexts
    <3>3. [type |-> "channel", title |-> "", key |-> k, extra |-> FALSE, meta |-> <<>>]
             \in Claim(RunTexts) \ {NilClaim}
      BY <3>1, <3>2, ClaimMade
    <3> QED
      BY <2>1, <3>3
  <2>6. NilSupport \in RunTexts
    BY DEF NilSupport, RunTexts
  <2> QED
    BY <1>1, <2>2, <2>3, <2>4, <2>6
<1>4. ASSUME NEW p \in {"x", "y"},
             NEW h, h = [NewHelper EXCEPT !.claim = NilClaim, !.support = p]
      PROVE  h \in S
  <2>1. /\ h.legacy = <<>> /\ h.claimID = <<>> /\ h.version = "NoSig" /\ h.signature = <<>> /\ h.payload = <<>>
        /\ h.support = p /\ h.claim = NilClaim
    BY <1>4 DEF NewHelper
  <2>2. h = [claim |-> h.claim, support |-> h.support, legacy |-> h.legacy, claimID |-> h.claimID,
             version |-> h.version, signature |-> h.signature, payload |-> h.payload]
    BY <1>4 DEF NewHelper
  <2>3. p \in RunTexts /\ p # NilSupport
    BY DEF RunTexts, NilSupport
  <2> HIDE DEF S
  <2> QED
    BY <1>1, <2>1, <2>2, <2>3
<1> HIDE DEF S
<1>5. Helpers \subseteq S
  BY <1>2, <1>3, <1>4 DEF Helpers, ClaimHelpers, SupportHelpers
<1> QED
  BY <1>5 DEF S

(* its claim ids,                                                          *)
LEMMA RunClaimIds == ClaimIds \subseteq [1..IdLen -> RunBytes]
<1>1. Byte("i") \in RunBytes /\ Byte("j") \in RunBytes
  BY DEF RunBytes
<1>2. ASSUME NEW p \in 0..1
      PROVE  [k \in 1..IdLen |-> Byte(IF k % 2 = p THEN "i" ELSE "j")] \in [1..IdLen -> RunBytes]
  <2>1. ASSUME NEW k PROVE Byte(IF k % 2 = p THEN "i" ELSE "j") \in RunBytes
    BY <1>1
  <2> QED
    BY <2>1
<1> QED
  BY <1>2 DEF ClaimIds

(* its signature,                                                          *)
LEMMA RunSignature == SomeSignature \in [1..SigLen -> RunBytes]
<1>1. SomeSignature = [i \in 1..SigLen |-> SomeSignature[i]]
  BY DEF SomeSignature
<1> QED
  BY <1>1 DEF RunBytes

(* its signed helpers,                                                     *)
LEMMA RunSignedHelpers == SignedHelpers \subseteq HelperType(RunTexts, RunBytes)
<1>1. ASSUME NEW h \in Helpers, NEW id \in ClaimIds
      PROVE  [h EXCEPT !.version = "WithSig", !.claimID = id, !.signature = SomeSignature]
               \in HelperType(RunTexts, RunBytes)
  <2> DEFINE e == [h EXCEPT !.version = "WithSig"]
             f == [e EXCEPT !.claimID = id]
             g == [f EXCEPT !.signature = SomeSignature]
  <2>1. h \in HelperType(RunTexts, RunBytes)
    BY RunHelpers
  <2>2. /\ h.claim \in Claim(RunTexts) \cup {NilClaim} /\ h.support \in RunTexts
        /\ h.support # NilSupport <=> h.claim = NilClaim
    BY <2>1 DEF HelperType
  <2>3. h = [claim |-> h.claim, support |-> h.support, legacy |-> <<>>, claimID |-> h.claimID,
             version |-> h.version, signature |-> h.signature, payload |-> <<>>]
    BY <2>1 DEF HelperType
  <2>4. e = [claim |-> h.claim, support |-> h.support, legacy |-> <<>>, claimID |-> h.claimID,
             version |-> "WithSig", signature |-> h.signature, payload |-> <<>>]
    BY <2>3
  <2>5. [h EXCEPT !.version = "WithSig", !.claimID = id, !.signature = SomeSignature] = g
    OBVIOUS
  <2> HIDE DEF e
  <2>6. f = [claim |-> h.claim, support |-> h.support, legacy |-> <<>>, claimID |-> id,
             version |-> "WithSig", signature |-> h.signature, payload |-> <<>>]
    BY <2>4
  <2> HIDE DEF f
  <2>7. g = [claim |-> h.claim, support |-> h.support, legacy |-> <<>>, claimID |-> id,
             version |-> "WithSig", signature |-> SomeSignature, payload |-> <<>>]
    BY <2>6
  <2> HIDE DEF g
  <2>8. id \in [1..IdLen -> RunBytes] /\ SomeSignature \in [1..SigLen -> RunBytes]
    BY RunClaimIds, RunSignature
  <2>9. g \in HelperType(RunTexts, RunBytes)
    BY <2>2, <2>7, <2>8 DEF HelperType
  <2> QED
    BY <2>5, <2>9
<1> DEFINE E(h, id) == [h EXCEPT !.version = "WithSig", !.claimID = id, !.signature = SomeSignature]
<1>2. SignedHelpers = {E(h, id) : h \in Helpers, id \in ClaimIds}
  BY DEF SignedHelpers
<1>3. \A h \in Helpers, id \in ClaimIds : E(h, id) \in HelperType(RunTexts, RunBytes)
  BY <1>1
<1> HIDE DEF E
<1> QED
  BY <1>2, <1>3

(* its signings,                                                           *)
LEMMA RunSignings == Signings \subseteq Signing(RunTexts, RunBytes, 1)
<1>1. {h \in Helpers : h.claim.type # "channel"} \subseteq {h \in HelperType(RunTexts, RunBytes) : h.version = "NoSig"}
  BY RunHelpers
<1>2. {"k1", "k2"} \subseteq RunTexts \ {"", "junk", "none"}
  BY DEF RunTexts
<1>3. {<<Byte("t")>>, <<Byte("u")>>} \subseteq [1..1 -> RunBytes]
  <2>1. Byte("t") \in RunBytes /\ Byte("u") \in RunBytes
    BY DEF RunBytes
  <2>2. \A x \in RunBytes : <<x>> \in [1..1 -> RunBytes]
    OBVIOUS
  <2> QED
    BY <2>1, <2>2
<1>4. LeadingZeros \subseteq 0..(HalfLen - 1)
  BY ClaimsAssumption DEF LeadingZeros
<1> QED
  BY <1>1, <1>2, <1>3, <1>4, RunClaimIds DEF Signings, Signing

(* its claims of the first protobuf,                                       *)
LEMMA RunLegacy == \E F : LegacyClaims \subseteq LegacyStream(F)
<1> DEFINE F == {"a", "b", "", "m", <<>>}
<1>1. {"a", "b"} \subseteq F /\ {""} \subseteq F /\ {"m"} \subseteq F /\ {<<>>} \subseteq F
  OBVIOUS
<1>2. {FALSE} \subseteq BOOLEAN
  OBVIOUS
<1> HIDE DEF F
<1>3. LegacyClaims \subseteq LegacyStream(F)
  BY <1>1, <1>2 DEF LegacyClaims, LegacyStream
<1> QED
  BY <1>3

(* and its JSON claims.                                                    *)
LEMMA RunJSON == \E F : JSONClaims \subseteq JSONClaim(F)
<1> DEFINE F == {"", "0.0.1", "0.0.2", "0.0.3", "0.0.4", "a", "m", "n", "l"}
           P == {<<>>} \cup {<<x>> : x \in SUBSET {"BTC", "LBC", "USD"}}
<1>1. /\ {"", "0.0.1", "0.0.2", "0.0.3", "0.0.4"} \subseteq F /\ {"a"} \subseteq F /\ {"", "m"} \subseteq F
      /\ {"", "n"} \subseteq F /\ {"l"} \subseteq F
  OBVIOUS
<1> HIDE DEF F
<1>2. JSONClaims = [ver : {"", "0.0.1", "0.0.2", "0.0.3", "0.0.4"}, title : {"a"}, contentDashType : {"", "m"},
                    content_type : {"", "n"}, nsfw : BOOLEAN, licenseUrl : {"l"}, fee : P, hexHash : BOOLEAN]
  BY DEF JSONClaims
<1>3. JSONClaim(F) = [ver : F, title : F, contentDashType : F, content_type : F, nsfw : BOOLEAN,
                      licenseUrl : F, fee : P, hexHash : BOOLEAN]
  BY DEF JSONClaim
<1> HIDE DEF P
<1>4. JSONClaims \subseteq JSONClaim(F)
  BY <1>1, <1>2, <1>3
<1> QED
  BY <1>4

-----------------------------------------------------------------------------
(* API requests.                                                           *)

(* The headers after n domains.                                            *)
AfterDomains(conf, origin, N, f) ==
    f = [n \in 0..N |-> IF n = 0 THEN conf.headers
                        ELSE IF conf.domains[n] = origin THEN AllowOrigin(f[n - 1], origin) ELSE f[n - 1]]

(* The loop over the domains can be run to any place.                      *)
LEMMA DomainsLoop ==
    ASSUME NEW conf, NEW origin, NEW N \in Nat
    PROVE  \E f : AfterDomains(conf, origin, N, f)
<1> DEFINE bad == {n \in Nat : ~ \E f : AfterDomains(conf, origin, n, f)}
<1>1. SUFFICES ASSUME bad # {} PROVE FALSE
  OBVIOUS
<1>2. bad \subseteq Nat
  OBVIOUS
<1>3. PICK n \in bad : \A k \in bad : n <= k
  <2> HIDE DEF bad
  <2> QED
    BY <1>1, <1>2, SmallestElement
<1>4. n \in Nat /\ ~ \E f : AfterDomains(conf, origin, n, f)
  BY <1>3
<1>5. CASE n = 0
  <2> DEFINE f == [k \in 0..0 |-> conf.headers]
  <2>1. AfterDomains(conf, origin, 0, f)
    BY DEF AfterDomains
  <2> QED
    BY <1>4, <1>5, <2>1
<1>6. CASE n # 0
  <2>1. n - 1 \in Nat /\ n - 1 \notin bad
    BY <1>3, <1>4, <1>6
  <2>2. PICK f : AfterDomains(conf, origin, n - 1, f)
    BY <2>1
  <2> DEFINE last == IF conf.domains[n] = origin THEN AllowOrigin(f[n - 1], origin) ELSE f[n - 1]
             g == [k \in 0..n |-> IF k = n THEN last ELSE f[k]]
  <2>3. \A k \in 0..(n - 1) :
           f[k] = IF k = 0 THEN conf.headers
                  ELSE IF conf.domains[k] = origin THEN AllowOrigin(f[k - 1], origin) ELSE f[k - 1]
    BY <2>2 DEF AfterDomains
  <2>4. g[n] = last /\ \A k \in 0..(n - 1) : g[k] = f[k]
    BY <1>4, <1>6
  <2>5. g[n] = IF n = 0 THEN conf.headers
               ELSE IF conf.domains[n] = origin THEN AllowOrigin(g[n - 1], origin) ELSE g[n - 1]
    <3>1. g[n - 1] = f[n - 1]
      BY <2>1, <2>4
    <3> HIDE DEF g
    <3> QED
      BY <1>6, <2>4, <3>1
  <2>6. \A k \in 0..n :
           g[k] = IF k = 0 THEN conf.headers
                  ELSE IF conf.domains[k] = origin THEN AllowOrigin(g[k - 1], origin) ELSE g[k - 1]
    <3> SUFFICES ASSUME NEW k \in 0..n
                 PROVE  g[k] = IF k = 0 THEN conf.headers
                               ELSE IF conf.domains[k] = origin THEN AllowOrigin(g[k - 1], origin) ELSE g[k - 1]
      OBVIOUS
    <3> HIDE DEF g
    <3>1. CASE k = n
      BY <2>5, <3>1
    <3>2. CASE k # n
      <4>1. k \in 0..(n - 1) /\ (k # 0 => k - 1 \in 0..(n - 1))
        BY <1>4, <3>2
      <4> QED
        BY <2>3, <2>4, <4>1
    <3> QED
      BY <3>1, <3>2
  <2>7. g = [k \in 0..n |-> g[k]]
    OBVIOUS
  <2> HIDE DEF g
  <2>8. AfterDomains(conf, origin, n, g)
    BY <2>6, <2>7 DEF AfterDomains
  <2> QED
    BY <1>4, <2>8
<1> QED
  BY <1>5, <1>6

(* Caches are told that an answer depends on the origin.                   *)
Varies(h) == h.vary = <<"*">> \/ \E i \in DOMAIN h.vary : h.vary[i] = "Origin"

(* The headers that allow an origin.                                       *)
LEMMA OriginAdded ==
    ASSUME NEW S, "Origin" \in S, NEW h, h.vary \in Seq(S), NEW origin
    PROVE  /\ AllowOrigin(h, origin).allow = origin
           /\ AllowOrigin(h, origin).vary \in Seq(S)
           /\ Varies(AllowOrigin(h, origin))
<1> DEFINE g == AllowOrigin(h, origin)
           v == h.vary
<1>1. g.allow = origin /\ g.vary = IF v = <<"*">> THEN v ELSE Append(v, "Origin")
  BY DEF AllowOrigin
<1>2. v \in Seq(S) /\ Len(v) \in Nat
  OBVIOUS
<1> HIDE DEF g, v
<1>3. CASE v = <<"*">>
  BY <1>1, <1>2, <1>3 DEF g, Varies
<1>4. CASE v # <<"*">>
  <2> DEFINE w == Append(v, "Origin")
  <2>1. w \in Seq(S) /\ Len(w) = Len(v) + 1 /\ w[Len(v) + 1] = "Origin"
    BY <1>2
  <2>2. Len(v) + 1 \in DOMAIN w
    BY <1>2, <2>1
  <2>3. g.vary = w
    BY <1>1, <1>4
  <2> HIDE DEF w
  <2>4. Varies(g)
    BY <2>1, <2>2, <2>3 DEF Varies
  <2> QED
    BY <1>1, <2>1, <2>3, <2>4 DEF g
<1> QED
  BY <1>3, <1>4

(* What may have happened to the headers by the n-th domain.               *)
Cors(S, conf, origin, n, h) ==
    /\ h.vary \in Seq(S)
    /\ h.allow # conf.headers.allow =>
          h.allow = origin /\ Varies(h) /\ \E i \in 1..n : conf.domains[i] = origin

(* The configured headers and domains.                                     *)
Configuration(S) ==
    [headers : [allow : S, vary : Seq(S)], domains : Seq(S), localhost : BOOLEAN]

(* The loop allows only an origin it has met.                              *)
LEMMA OriginMet ==
    ASSUME NEW S, "Origin" \in S, NEW conf \in Configuration(S), NEW origin
    PROVE  Cors(S, conf, origin, Len(conf.domains), CorsHeaders(conf, origin))
<1> DEFINE N == Len(conf.domains)
           f == CHOOSE g : AfterDomains(conf, origin, N, g)
           bad == {n \in 0..N : ~Cors(S, conf, origin, n, f[n])}
<1>1. N \in Nat /\ conf.headers.vary \in Seq(S)
  BY DEF Configuration
<1>2. AfterDomains(conf, origin, N, f)
  <2>1. \E g : AfterDomains(conf, origin, N, g)
    BY <1>1, DomainsLoop
  <2> QED
    BY <2>1
<1>3. CorsHeaders(conf, origin) = f[N]
  BY DEF CorsHeaders, AfterDomains
<1> HIDE DEF N, f
<1>4. \A n \in 0..N : f[n] = IF n = 0 THEN conf.headers
                             ELSE IF conf.domains[n] = origin THEN AllowOrigin(f[n - 1], origin) ELSE f[n - 1]
  BY <1>2 DEF AfterDomains
<1>5. bad = {}
  <2> SUFFICES ASSUME bad # {} PROVE FALSE
    OBVIOUS
  <2>1. bad \subseteq Nat
    BY <1>1
  <2>2. PICK n \in bad : \A k \in bad : n <= k
    <3> HIDE DEF bad
    <3> QED
      BY <2>1, SmallestElement
  <2>3. n \in 0..N /\ ~Cors(S, conf, origin, n, f[n])
    BY <2>2
  <2>4. CASE n = 0
    <3>1. f[0] = conf.headers
      BY <1>4, <2>3, <2>4
    <3> QED
      BY <1>1, <2>3, <2>4, <3>1 DEF Cors
  <2>5. CASE n # 0
    <3>1. n - 1 \in 0..N /\ n - 1 \notin bad /\ n \in 1..n /\ \A i \in 1..(n - 1) : i \in 1..n
      BY <1>1, <2>2, <2>3, <2>5
    <3>2. Cors(S, conf, origin, n - 1, f[n - 1])
      BY <3>1
    <3>3. f[n] = IF conf.domains[n] = origin THEN AllowOrigin(f[n - 1], origin) ELSE f[n - 1]
      BY <1>4, <2>3, <2>5
    <3>4. CASE conf.domains[n] = origin
      <4>1. f[n] = AllowOrigin(f[n - 1], origin) /\ f[n - 1].vary \in Seq(S)
        BY <3>2, <3>3, <3>4 DEF Cors
      <4>2. f[n].allow = origin /\ f[n].vary \in Seq(S) /\ Varies(f[n])
        BY <4>1, OriginAdded
      <4> QED
        BY <2>3, <3>1, <3>4, <4>2 DEF Cors
    <3>5. CASE conf.domains[n] # origin
      <4>1. f[n] = f[n - 1]
        BY <3>3, <3>5
      <4> QED
        BY <2>3, <3>1, <3>2, <4>1 DEF Cors
    <3> QED
      BY <3>4, <3>5
  <2> QED
    BY <2>4, <2>5
<1>6. N \in 0..N
  BY <1>1
<1> QED
  BY <1>3, <1>5, <1>6 DEF N

(* ServeHTTP lets an origin that is not configured read nothing, whatever  *)
(* the headers and domains are.                                            *)
THEOREM EveryOriginAllowed ==
    ASSUME NEW S, "Origin" \in S, NEW conf \in Configuration(S), NEW origin
    PROVE  OriginAllowed(conf, origin)
<1> DEFINE cors == CorsHeaders(conf, origin)
           h == Headers(conf, origin)
           local == conf.localhost /\ origin \in LocalOrigins
<1>1. Cors(S, conf, origin, Len(conf.domains), cors)
  BY OriginMet
<1>2. h = IF local THEN AllowOrigin(cors, origin) ELSE cors
  BY DEF Headers
<1>3. conf.domains \in Seq(S)
  BY DEF Configuration
<1>4. DOMAIN conf.domains = 1..Len(conf.domains)
  BY <1>3
<1>5. (\E i \in 1..Len(conf.domains) : conf.domains[i] = origin) => origin \in ToSet(conf.domains)
  BY <1>4 DEF ToSet
<1> HIDE DEF cors, h, local
<1>6. ASSUME h.allow # conf.headers.allow
      PROVE  h.allow = origin /\ (origin \in ToSet(conf.domains) \/ local) /\ Varies(h)
  <2>1. CASE local
    <3>1. h = AllowOrigin(cors, origin) /\ cors.vary \in Seq(S)
      BY <1>1, <1>2, <2>1 DEF Cors
    <3> QED
      BY <2>1, <3>1, OriginAdded
  <2>2. CASE ~local
    <3>1. h = cors
      BY <1>2, <2>2
    <3> QED
      BY <1>1, <1>5, <1>6, <3>1 DEF Cors
  <2> QED
    BY <2>1, <2>2
<1>7. Varies(h) => h.vary = <<"*">> \/ "Origin" \in ToSet(h.vary)
  BY DEF Varies, ToSet
<1> QED
  BY <1>6, <1>7 DEF OriginAllowed, h, local

-----------------------------------------------------------------------------
(* Outcomes.                                                               *)

Outcome == [panics : BOOLEAN, status : Nat, error : {NoError} \cup {<<x>> : x \in Nat},
            redirect : BOOLEAN, encodes : BOOLEAN]

(* A handler that fails, or panics with an error, is never answered as a   *)
(* success unless it or its error chose that status, with any statuses,    *)
(* and ServeHTTP invents no failures.                                      *)
THEOREM EveryFailureTold ==
    ASSUME NEW method, NEW o \in Outcome
    PROVE  FailureTold(method, o)
<1> DEFINE rsp == callHandlerSafely(o)
           a == ServeHTTP(method, o)
           status == StatusOf(rsp)
<1>1. /\ rsp.error = o.error
      /\ Unchosen(o) => rsp.status = 0
      /\ rsp.encodes \in BOOLEAN /\ (~rsp.encodes => ~o.encodes) /\ rsp.status \in Nat
  BY DEF callHandlerSafely, Unchosen, Outcome
<1>2. rsp.error = NoError \/ \E x \in Nat : rsp.error = <<x>>
  BY <1>1 DEF Outcome
<1>3. a = IF method = "OPTIONS" THEN Answer("preflight", 200, TRUE, FALSE)
          ELSE IF status >= 300 /\ status < 400 THEN Answer("redirect", status, TRUE, FALSE)
          ELSE IF rsp.encodes THEN Answer("json", status, status < 400, rsp.error # NoError)
          ELSE Answer("json", status, FALSE, TRUE)
  BY DEF ServeHTTP
<1> HIDE DEF rsp, a
<1>4. CASE method = "OPTIONS"
  BY <1>3, <1>4 DEF FailureTold, Answer, a
<1>5. CASE method # "OPTIONS"
  <2>1. a.kind # "preflight"
    BY <1>3, <1>5 DEF Answer
  <2>2. ASSUME Unchosen(o), IsFailure(o.error)
        PROVE  a.kind = "json" /\ a.status >= 400 /\ ~a.success /\ a.reported
    <3>1. PICK x \in Nat : rsp.error = <<x>> /\ (x = 0 \/ x >= 400)
      BY <1>1, <1>2, <2>2 DEF IsFailure
    <3>2. rsp.error # NoError /\ rsp.error[1] = x
      BY <3>1 DEF NoError
    <3>3. status \in Nat /\ status >= 400
      BY <1>1, <2>2, <3>1, <3>2 DEF StatusOf
    <3> HIDE DEF status
    <3>4. a = IF rsp.encodes THEN Answer("json", status, status < 400, rsp.error # NoError)
              ELSE Answer("json", status, FALSE, TRUE)
      <4>1. ~(status >= 300 /\ status < 400)
        BY <3>3
      <4> QED
        BY <1>3, <1>5, <4>1, Zenon
    <3>5. (status < 400) = FALSE /\ (rsp.error # NoError) = TRUE
      BY <3>2, <3>3
    <3>6. a = Answer("json", status, FALSE, TRUE)
      BY <3>4, <3>5, Zenon
    <3> QED
      BY <3>3, <3>6 DEF Answer
  <2>3. ASSUME Unchosen(o), o.error = NoError, ~o.panics
        PROVE  a.status < 400 /\ (a.success \/ ~o.encodes)
    <3>1. status \in {200, 302}
      BY <1>1, <2>3 DEF StatusOf
    <3> HIDE DEF status
    <3>2. status < 400 /\ status \in Nat
      BY <3>1
    <3>3. CASE status = 302
      BY <1>3, <1>5, <3>3 DEF Answer
    <3>4. CASE status = 200
      BY <1>1, <1>3, <1>5, <3>4 DEF Answer
    <3> QED
      BY <3>1, <3>3, <3>4
  <2> QED
    BY <1>5, <2>1, <2>2, <2>3 DEF FailureTold, a
<1> QED
  BY <1>4, <1>5
-----------------------------------------------------------------------------
(* Forms.                                                                  *)

(* The fields of a struct have different names, and integers a size.       *)
FieldList(S) ==
    {fields \in Seq([name : S, kind : S, size : Nat]) :
        /\ \A i, j \in DOMAIN fields : fields[i].name = fields[j].name => i = j
        /\ \A i \in DOMAIN fields : fields[i].kind = "int" => fields[i].size # 0}

(* What FormValues has made of the first n fields, while f takes them one  *)
(* after the other:                                                        *)
AfterFields(fields, form, f) ==
    f = [n \in 0..Len(fields) |->
            IF n = 0 THEN [ok |-> TRUE, seen |-> {}, params |-> [x \in NamesOf(fields) |-> <<>>]]
            ELSE TakeField(form, f[n - 1], fields[n])]

(* the fields before the first unreadable one are seen if they are in the  *)
(* form, and have a value if they are given.                               *)
IsTaken(fields, form, i) == \A j \in Unreadable(fields, form) : i < j

FieldOf(fields, x) == CHOOSE i \in DOMAIN fields : fields[i].name = x

TakenValue(fields, form, n, i) ==
    IF i <= n /\ IsGiven(fields, form, i) /\ IsTaken(fields, form, i)
    THEN Converted(fields[i], form[fields[i].name]) ELSE <<>>

TakenSeen(fields, form, n) ==
    {fields[i].name : i \in {i \in 1..n : fields[i].name \in DOMAIN form /\ IsTaken(fields, form, i)}}

TakenParams(fields, form, n) ==
    [x \in NamesOf(fields) |-> TakenValue(fields, form, n, FieldOf(fields, x))]

Taken(fields, form, n) ==
    [ok |-> IsTaken(fields, form, n), seen |-> TakenSeen(fields, form, n), params |-> TakenParams(fields, form, n)]

(* The field of a name is the field that has it.                           *)
LEMMA FieldFound ==
    ASSUME NEW S, NEW fields \in FieldList(S), NEW i \in DOMAIN fields
    PROVE  FieldOf(fields, fields[i].name) = i /\ fields[i].name \in NamesOf(fields)
<1>1. \A j \in DOMAIN fields : fields[j].name = fields[i].name => j = i
  BY DEF FieldList
<1> QED
  BY <1>1 DEF FieldOf, NamesOf

(* One field.                                                              *)
LEMMA OneFieldTaken ==
    ASSUME NEW S, NEW fields \in FieldList(S), NEW form, NEW n \in 1..Len(fields)
    PROVE  Taken(fields, form, n) = TakeField(form, Taken(fields, form, n - 1), fields[n])
<1> DEFINE x == fields[n].name
           v == form[x]
           bad == Unreadable(fields, form)
           names == NamesOf(fields)
           T(i) == IsTaken(fields, form, i)
           st == Taken(fields, form, n - 1)
           p == TakenParams(fields, form, n - 1)
           q == TakenParams(fields, form, n)
           sn == TakenSeen(fields, form, n - 1)
           sm == TakenSeen(fields, form, n)
<1>1. DOMAIN fields = 1..Len(fields) /\ Len(fields) \in Nat /\ n \in DOMAIN fields
  BY DEF FieldList
<1>2. bad \subseteq DOMAIN fields /\ (n \in bad <=> x \in DOMAIN form /\ ~Readable(fields[n], v))
  BY <1>1 DEF Unreadable
<1>3. x \in names /\ FieldOf(fields, x) = n
  BY <1>1, FieldFound
<1>4. \A y \in names : FieldOf(fields, y) \in 1..Len(fields) /\ (FieldOf(fields, y) = n => y = x)
  <2> SUFFICES ASSUME NEW y \in names PROVE FieldOf(fields, y) \in 1..Len(fields) /\ (FieldOf(fields, y) = n => y = x)
    OBVIOUS
  <2>1. PICK i \in DOMAIN fields : y = fields[i].name
    BY DEF NamesOf
  <2>2. FieldOf(fields, y) = i
    BY <2>1, FieldFound
  <2> QED
    BY <1>1, <2>1, <2>2
<1>5. /\ T(n) <=> T(n - 1) /\ n \notin bad
      /\ T(n) \in BOOLEAN /\ T(n - 1) \in BOOLEAN
  <2>1. \A j \in bad : j \in Int
    BY <1>1, <1>2
  <2>2. n \in Int
    BY <1>1
  <2>3. \A j \in bad : (n < j <=> n - 1 < j /\ j # n)
    BY <2>1, <2>2
  <2> QED
    BY <2>3 DEF IsTaken
<1>6. /\ st.ok = T(n - 1) /\ st.seen = sn /\ st.params = p
      /\ st = [ok |-> T(n - 1), seen |-> sn, params |-> p]
  BY DEF Taken
<1>7. Taken(fields, form, n) = [ok |-> T(n), seen |-> sm, params |-> q]
  BY DEF Taken
<1>8. sm = IF x \in DOMAIN form /\ T(n) THEN sn \cup {x} ELSE sn
  <2>1. 1..n = (1..(n - 1)) \cup {n}
    BY <1>1
  <2> QED
    BY <2>1 DEF TakenSeen
<1>9. p = [y \in names |-> p[y]] /\ q = [y \in names |-> q[y]]
  BY DEF TakenParams
<1>10. \A y \in names : y # x => q[y] = p[y]
  <2> SUFFICES ASSUME NEW y \in names, y # x PROVE q[y] = p[y]
    OBVIOUS
  <2>1. FieldOf(fields, y) \in 1..Len(fields) /\ FieldOf(fields, y) # n
    BY <1>4
  <2>2. FieldOf(fields, y) <= n <=> FieldOf(fields, y) <= n - 1
    BY <1>1, <2>1
  <2> QED
    BY <2>2 DEF TakenParams, TakenValue
<1>11. p[x] = <<>>
  <2>1. ~(n <= n - 1)
    BY <1>1
  <2> QED
    BY <1>3, <2>1 DEF TakenParams, TakenValue
<1>12. q[x] = IF IsGiven(fields, form, n) /\ T(n) THEN Converted(fields[n], v) ELSE <<>>
  <2>1. n <= n
    BY <1>1
  <2> QED
    BY <1>3, <2>1 DEF TakenParams, TakenValue
<1>13. IsGiven(fields, form, n) <=> x \in DOMAIN form /\ (v # "" \/ fields[n].kind = "string")
  BY DEF IsGiven
<1> HIDE DEF x, v, bad, names, T, st, p, q, sn, sm
<1>14. q[x] = p[x] => q = p
  BY <1>9, <1>10
<1>15. q = [p EXCEPT ![x] = q[x]]
  BY <1>3, <1>9, <1>10
<1>16. TakeField(form, st, fields[n]) =
         IF ~st.ok \/ x \notin DOMAIN form THEN st
         ELSE IF ~Readable(fields[n], v) THEN [st EXCEPT !.ok = FALSE]
         ELSE [st EXCEPT !.seen = @ \cup {x},
                         !.params = IF fields[n].kind # "string" /\ v = "" THEN @
                                    ELSE [@ EXCEPT ![x] = Converted(fields[n], v)]]
  BY DEF TakeField, x, v
<1>17. CASE ~st.ok \/ x \notin DOMAIN form
  <2>1. TakeField(form, st, fields[n]) = st
    BY <1>16, <1>17
  <2>2. T(n) = T(n - 1)
    BY <1>2, <1>5, <1>6, <1>17
  <2>3. sm = sn
    BY <1>5, <1>6, <1>8, <1>17
  <2>4. q = p
    BY <1>5, <1>6, <1>11, <1>12, <1>13, <1>14, <1>17
  <2> QED
    BY <1>6, <1>7, <2>1, <2>2, <2>3, <2>4 DEF st
<1>18. CASE st.ok /\ x \in DOMAIN form /\ ~Readable(fields[n], v)
  <2>1. TakeField(form, st, fields[n]) = [st EXCEPT !.ok = FALSE]
    BY <1>16, <1>18
  <2>2. T(n) = FALSE
    BY <1>2, <1>5, <1>18
  <2>3. sm = sn /\ q = p
    BY <1>8, <1>11, <1>12, <1>14, <2>2
  <2>4. [st EXCEPT !.ok = FALSE] = [ok |-> FALSE, seen |-> sn, params |-> p]
    <3>1. T(n - 1) = TRUE
      BY <1>5, <1>6, <1>18
    <3>2. st = [ok |-> TRUE, seen |-> sn, params |-> p]
      BY <1>6, <3>1
    <3> DEFINE no == FALSE
    <3> HIDE DEF no
    <3>3. [st EXCEPT !.ok = no] = [ok |-> no, seen |-> sn, params |-> p]
      BY <3>2
    <3> QED
      BY <3>3 DEF no
  <2> QED
    BY <1>7, <2>1, <2>2, <2>3, <2>4 DEF st
<1>19. CASE st.ok /\ x \in DOMAIN form /\ Readable(fields[n], v)
  <2> DEFINE r == IF fields[n].kind # "string" /\ v = "" THEN p ELSE [p EXCEPT ![x] = Converted(fields[n], v)]
  <2>1. T(n) = TRUE /\ T(n - 1) = TRUE
    BY <1>2, <1>5, <1>6, <1>19
  <2>2. sm = sn \cup {x}
    BY <1>8, <1>19, <2>1
  <2>3. q = r
    BY <1>11, <1>12, <1>13, <1>14, <1>15, <1>19, <2>1
  <2>4. TakeField(form, st, fields[n]) = [ok |-> TRUE, seen |-> sn \cup {x}, params |-> r]
    <3>1. st = [ok |-> TRUE, seen |-> sn, params |-> p]
      BY <1>6, <2>1
    <3>2. TakeField(form, st, fields[n]) = [st EXCEPT !.seen = @ \cup {x},
                         !.params = IF fields[n].kind # "string" /\ v = "" THEN @
                                    ELSE [@ EXCEPT ![x] = Converted(fields[n], v)]]
      BY <1>16, <1>19
    <3> QED
      BY <3>1, <3>2
  <2> QED
    BY <1>7, <2>1, <2>2, <2>3, <2>4 DEF st
<1> QED
  BY <1>17, <1>18, <1>19

(* FormValues is what it makes of all fields.                              *)
LEMMA FieldsTaken ==
    ASSUME NEW S, NEW fields \in FieldList(S), NEW form
    PROVE  TakeFields(fields, form) = Taken(fields, form, Len(fields))
<1> DEFINE N == Len(fields)
           start == [ok |-> TRUE, seen |-> {}, params |-> [x \in NamesOf(fields) |-> <<>>]]
           g == [n \in 0..N |-> Taken(fields, form, n)]
           f == CHOOSE h : AfterFields(fields, form, h)
<1>1. N \in Nat /\ DOMAIN fields = 1..N
  BY DEF FieldList
<1>2. g[0] = start
  <2>1. IsTaken(fields, form, 0) = TRUE
    BY <1>1 DEF IsTaken, Unreadable
  <2>2. TakenSeen(fields, form, 0) = {}
    BY DEF TakenSeen
  <2>3. TakenParams(fields, form, 0) = [x \in NamesOf(fields) |-> <<>>]
    <3>1. ASSUME NEW x \in NamesOf(fields) PROVE TakenValue(fields, form, 0, FieldOf(fields, x)) = <<>>
      <4>1. PICK i \in DOMAIN fields : x = fields[i].name
        BY DEF NamesOf
      <4>2. FieldOf(fields, x) = i /\ ~(i <= 0)
        BY <1>1, <4>1, FieldFound
      <4> QED
        BY <4>2 DEF TakenValue
    <3> QED
      BY <3>1 DEF TakenParams
  <2>4. g[0] = Taken(fields, form, 0)
    BY <1>1
  <2> QED
    BY <2>1, <2>2, <2>3, <2>4 DEF Taken
<1>3. \A n \in 1..N : g[n] = TakeField(form, g[n - 1], fields[n])
  <2> SUFFICES ASSUME NEW n \in 1..N PROVE g[n] = TakeField(form, g[n - 1], fields[n])
    OBVIOUS
  <2>1. n \in 0..N /\ n - 1 \in 0..N
    BY <1>1
  <2>2. g[n] = Taken(fields, form, n) /\ g[n - 1] = Taken(fields, form, n - 1)
    BY <2>1
  <2> HIDE DEF g
  <2> QED
    BY <2>2, OneFieldTaken
<1>4. g = [n \in 0..N |-> g[n]] /\ g[N] = Taken(fields, form, N)
  BY <1>1
<1> HIDE DEF g, start
<1>5. AfterFields(fields, form, g)
  <2>1. ASSUME NEW n \in 0..N
        PROVE  g[n] = IF n = 0 THEN start ELSE TakeField(form, g[n - 1], fields[n])
    <3>1. n # 0 => n \in 1..N
      BY <1>1
    <3> QED
      BY <1>2, <1>3, <3>1
  <2>2. g = [n \in 0..N |-> IF n = 0 THEN start ELSE TakeField(form, g[n - 1], fields[n])]
    BY <1>4, <2>1
  <2> QED
    BY <2>2 DEF AfterFields, start
<1>6. AfterFields(fields, form, f)
  BY <1>5
<1>7. TakeFields(fields, form) = f[N]
  BY DEF TakeFields, AfterFields
<1> HIDE DEF f
<1>8. /\ f[0] = start
      /\ \A n \in 1..N : f[n] = TakeField(form, f[n - 1], fields[n])
  <2>1. f = [n \in 0..N |-> IF n = 0 THEN start ELSE TakeField(form, f[n - 1], fields[n])]
    BY <1>6 DEF AfterFields, start
  <2> QED
    BY <1>1, <2>1
<1> DEFINE bad == {n \in 0..N : f[n] # g[n]}
<1>9. bad = {}
  <2> SUFFICES ASSUME bad # {} PROVE FALSE
    OBVIOUS
  <2>1. bad \subseteq Nat
    BY <1>1
  <2>2. PICK n \in bad : \A k \in bad : n <= k
    <3> HIDE DEF bad
    <3> QED
      BY <2>1, SmallestElement
  <2>3. n \in 0..N /\ f[n] # g[n]
    BY <2>2
  <2>4. CASE n = 0
    BY <1>2, <1>8, <2>3, <2>4
  <2>5. CASE n # 0
    <3>1. n - 1 \in 0..N /\ n - 1 \notin bad /\ n \in 1..N
      BY <1>1, <2>2, <2>3, <2>5
    <3>2. f[n - 1] = g[n - 1]
      BY <3>1
    <3> QED
      BY <1>3, <1>8, <2>3, <3>1, <3>2
  <2> QED
    BY <2>4, <2>5
<1>10. N \in 0..N
  BY <1>1
<1> QED
  BY <1>4, <1>7, <1>9, <1>10

(* A number that fits is not cut.                                          *)
LEMMA FitsUncut ==
    ASSUME NEW field, field.kind = "int", field.size \in Nat \ {0}, NEW k \in Int,
           -field.size <= 2 * k, 2 * k < field.size
    PROVE  Cut(k, field) = k
<1> DEFINE z == field.size
           low == k % z
           w == IF k >= 0 THEN k ELSE k + z
<1>1. z \in Nat \ {0} /\ -z <= 2 * k /\ 2 * k < z
  OBVIOUS
<1>2. Cut(k, field) = IF 2 * low >= z THEN low - z ELSE low
  BY DEF Cut
<1> HIDE DEF z
<1>3. low = w
  <2>1. CASE k >= 0
    BY <1>1, <2>1
  <2>2. CASE k < 0
    BY <1>1, <2>2
  <2> QED
    BY <2>1, <2>2
<1> HIDE DEF low
<1> QED
  BY <1>1, <1>2, <1>3

(* An unsigned number that fits is not cut.                                *)
LEMMA FitsUncutUnsigned ==
    ASSUME NEW field, field.kind = "uint", NEW z \in Nat, field.size = z, NEW k \in Nat, k < z
    PROVE  Cut(k, field) = k
<1>1. k % z = k
  OBVIOUS
<1> QED
  BY <1>1 DEF Cut

(* FormValues takes a form exactly if every parameter is known and         *)
(* readable and the rules hold, whatever the fields of the struct and the  *)
(* parameters are; every field of it then has the value it was given, if   *)
(* it has room for it, and one that was not given is as it was.            *)
THEOREM EveryFormTaken ==
    ASSUME NEW S, NEW fields \in FieldList(S), NEW form, NEW ignored, NEW valid \in BOOLEAN
    PROVE  FormTaken(fields, form, ignored, valid)
<1> DEFINE N == Len(fields)
           st == Taken(fields, form, N)
           bad == Unreadable(fields, form)
           r == FormValues(fields, form, ignored, valid)
<1>1. N \in Nat /\ DOMAIN fields = 1..N
  BY DEF FieldList
<1>2. st.ok = IsTaken(fields, form, N) /\ st.seen = TakenSeen(fields, form, N) /\ st.params = TakenParams(fields, form, N)
  BY DEF Taken
<1>3. TakeFields(fields, form) = st
  BY FieldsTaken
<1>4. bad \subseteq 1..N
  BY <1>1 DEF Unreadable
<1>5. IsTaken(fields, form, N) <=> bad = {}
  <2>1. \A j \in bad : ~(N < j)
    BY <1>1, <1>4
  <2> QED
    BY <2>1 DEF IsTaken
<1>6. bad = {} => TakenSeen(fields, form, N) = NamesOf(fields) \cap DOMAIN form
  BY <1>1 DEF TakenSeen, NamesOf, IsTaken
<1> HIDE DEF st
<1>7. /\ r.ok = (st.ok /\ DOMAIN form \subseteq st.seen \cup ignored /\ valid)
      /\ r.params = st.params
  BY <1>3 DEF FormValues
<1> HIDE DEF r
<1>8. r.ok = (bad = {} /\ DOMAIN form \subseteq NamesOf(fields) \cup ignored /\ valid)
  <2>1. CASE bad = {}
    <3>1. st.ok /\ st.seen = NamesOf(fields) \cap DOMAIN form
      BY <1>2, <1>5, <1>6, <2>1
    <3>2. DOMAIN form \subseteq st.seen \cup ignored <=> DOMAIN form \subseteq NamesOf(fields) \cup ignored
      BY <3>1
    <3> HIDE DEF bad
    <3> QED
      BY <1>7, <2>1, <3>1, <3>2
  <2>2. CASE bad # {}
    <3>1. ~IsTaken(fields, form, N)
      BY <1>5, <2>2
    <3>2. st.ok = FALSE
      BY <1>2, <3>1 DEF IsTaken
    <3> HIDE DEF bad
    <3> QED
      BY <1>7, <2>2, <3>2
  <2> QED
    BY <2>1, <2>2
<1>9. ASSUME NEW i \in DOMAIN fields
      PROVE  r.params[fields[i].name] =
                IF IsGiven(fields, form, i) /\ \A j \in bad : i < j
                THEN Converted(fields[i], form[fields[i].name]) ELSE <<>>
  <2>1. fields[i].name \in NamesOf(fields) /\ FieldOf(fields, fields[i].name) = i
    BY FieldFound
  <2>2. i <= N
    BY <1>1
  <2>3. r.params[fields[i].name] = TakenValue(fields, form, N, i)
    BY <1>2, <1>7, <2>1 DEF TakenParams
  <2> QED
    BY <2>2, <2>3 DEF TakenValue, IsTaken
<1>10. ASSUME r.ok, NEW i \in DOMAIN fields, IsGiven(fields, form, i),
              InWidth(fields[i], form[fields[i].name])
       PROVE  r.params[fields[i].name] = AsGiven(fields[i], form[fields[i].name])
  <2> DEFINE v == form[fields[i].name]
             k == IntOf[v]
  <2>1. bad = {}
    BY <1>8, <1>10
  <2>2. r.params[fields[i].name] = Converted(fields[i], v)
    BY <1>9, <1>10, <2>1
  <2>3. Readable(fields[i], v)
    BY <1>10, <2>1 DEF Unreadable, IsGiven
  <2>4. CASE fields[i].kind = "int"
    <3>1. v # ""
      BY <1>10, <2>4 DEF IsGiven
    <3>2. v \in DOMAIN IntOf
      BY <2>3, <2>4, <3>1 DEF Readable
    <3>3. k \in Int
      BY <3>2, ApiAssumption
    <3>4. fields[i].size \in Nat \ {0}
      <4>1. fields \in Seq([name : S, kind : S, size : Nat]) /\ (fields[i].kind = "int" => fields[i].size # 0)
        BY DEF FieldList
      <4>2. fields[i] \in [name : S, kind : S, size : Nat]
        BY <4>1, ElementOfSeq, <1>1
      <4> QED
        BY <2>4, <4>1, <4>2
    <3>5. -fields[i].size <= 2 * k /\ 2 * k < fields[i].size
      BY <1>10, <2>4 DEF InWidth
    <3>6. Converted(fields[i], v) = <<Cut(k, fields[i])>> /\ AsGiven(fields[i], v) = <<k>>
      BY <2>4 DEF Converted, AsGiven
    <3> HIDE DEF v, k
    <3>7. Cut(k, fields[i]) = k
      BY <2>4, <3>3, <3>4, <3>5, FitsUncut
    <3> QED
      BY <2>2, <3>6, <3>7 DEF v
  <2>5. CASE fields[i].kind = "uint"
    <3>1. v # ""
      BY <1>10, <2>5 DEF IsGiven
    <3>2. v \in DOMAIN IntOf /\ k >= 0
      BY <2>3, <2>5, <3>1 DEF Readable
    <3>3. k \in Nat
      BY <3>2, ApiAssumption
    <3>4. fields[i].size \in Nat
      <4>1. fields[i] \in [name : S, kind : S, size : Nat]
        BY ElementOfSeq, <1>1 DEF FieldList
      <4> QED
        BY <4>1
    <3>5. k < fields[i].size
      BY <1>10, <2>5 DEF InWidth
    <3>6. Converted(fields[i], v) = <<Cut(k, fields[i])>> /\ AsGiven(fields[i], v) = <<k>>
      BY <2>5 DEF Converted, AsGiven
    <3> HIDE DEF v, k
    <3>7. Cut(k, fields[i]) = k
      BY <2>5, <3>3, <3>4, <3>5, FitsUncutUnsigned
    <3> QED
      BY <2>2, <3>6, <3>7 DEF v
  <2>6. CASE fields[i].kind \notin {"int", "uint"}
    <3>1. CASE fields[i].kind = "bool"
      <4>1. Converted(fields[i], v) = <<IsTruthy(v)>> /\ AsGiven(fields[i], v) = <<v \in truthyValues>>
        BY <3>1 DEF Converted, AsGiven
      <4> QED
        BY <2>2, <4>1 DEF IsTruthy
    <3>2. CASE fields[i].kind # "bool"
      BY <2>2, <2>6, <3>2 DEF Converted, AsGiven
    <3> QED
      BY <3>1, <3>2
  <2> QED
    BY <2>4, <2>5, <2>6
<1>11. ASSUME NEW i \in DOMAIN fields, ~IsGiven(fields, form, i)
       PROVE  r.params[fields[i].name] = <<>>
  BY <1>9, <1>11
<1> HIDE DEF bad
<1> QED
  BY <1>8, <1>10, <1>11 DEF FormTaken, r, bad

-----------------------------------------------------------------------------
(* The requests of the run are such requests.                              *)

RunNames == {"", "all", "*", "Accept", "Origin", "home", "other", "p", "q", "r",
             "int", "uint", "bool", "float", "string", "struct"}

(* The configurations of the run,                                          *)
LEMMA RunConfigurations == Configurations \subseteq Configuration(RunNames)
<1>1. {<<>>, <<"*">>, <<"Accept">>} \subseteq Seq(RunNames)
  <2>1. "*" \in RunNames /\ "Accept" \in RunNames
    BY DEF RunNames
  <2> HIDE DEF RunNames
  <2> QED
    BY <2>1
<1>2. {<<>>, <<"home">>, <<"home", "other">>, <<"home", "home">>} \subseteq Seq(RunNames)
  <2>1. "home" \in RunNames /\ "other" \in RunNames
    BY DEF RunNames
  <2> HIDE DEF RunNames
  <2> QED
    BY <2>1
<1>3. {"", "all"} \subseteq RunNames
  BY DEF RunNames
<1> HIDE DEF RunNames
<1>4. [allow : {"", "all"}, vary : {<<>>, <<"*">>, <<"Accept">>}] \subseteq [allow : RunNames, vary : Seq(RunNames)]
  BY <1>1, <1>3
<1> QED
  BY <1>2, <1>4 DEF Configurations, Configuration

(* its outcomes,                                                           *)
LEMMA RunOutcomes == Outcomes \subseteq Outcome
<1>1. {NoError, <<0>>, <<404>>, <<302>>} \subseteq {NoError} \cup {<<x>> : x \in Nat}
  OBVIOUS
<1>2. {0, 200, 302, 400} \subseteq Nat
  OBVIOUS
<1> QED
  BY <1>1, <1>2 DEF Outcomes, Outcome

(* and its fields.                                                         *)
LEMMA RunFields == FieldLists \subseteq FieldList(RunNames)
<1>1. SUFFICES ASSUME NEW k \in {"int", "uint", "bool", "float", "string", "struct"}
               PROVE  <<Field("p", k, 16), Field("q", "int", 8), Field("r", "string", 0)>> \in FieldList(RunNames)
  BY DEF FieldLists
<1> DEFINE a == Field("p", k, 16)
           b == Field("q", "int", 8)
           c == Field("r", "string", 0)
           fs == <<a, b, c>>
           T == [name : RunNames, kind : RunNames, size : Nat]
<1>2. /\ a.name = "p" /\ a.kind = k /\ a.size = 16
      /\ b.name = "q" /\ b.kind = "int" /\ b.size = 8
      /\ c.name = "r" /\ c.kind = "string" /\ c.size = 0
  BY DEF Field
<1>3. a \in T /\ b \in T /\ c \in T
  <2>1. {"p", "q", "r", "int", "string", k} \subseteq RunNames
    BY DEF RunNames
  <2> HIDE DEF RunNames
  <2> QED
    BY <2>1 DEF Field
<1> HIDE DEF a, b, c, T
<1>4. fs \in Seq(T) /\ DOMAIN fs = 1..3 /\ fs[1] = a /\ fs[2] = b /\ fs[3] = c
  BY <1>3
<1> HIDE DEF fs
<1>5. \A i, j \in DOMAIN fs : fs[i].name = fs[j].name => i = j
  BY <1>2, <1>4
<1>6. \A i \in DOMAIN fs : fs[i].kind = "int" => fs[i].size # 0
  BY <1>2, <1>4
<1>7. fs \in FieldList(RunNames)
  BY <1>4, <1>5, <1>6 DEF FieldList, T
<1> QED
  BY <1>7 DEF fs, a, b, c

-----------------------------------------------------------------------------
(* Identifiers.                                                            *)

(* Induction.                                                              *)
LEMMA EveryNumber ==
    ASSUME NEW G, 0 \in G, \A n \in Nat : n \in G => n + 1 \in G
    PROVE  \A n \in Nat : n \in G
<1> DEFINE bad == {n \in Nat : n \notin G}
<1>1. SUFFICES ASSUME bad # {} PROVE FALSE
  OBVIOUS
<1>2. bad \subseteq Nat
  OBVIOUS
<1>3. PICK n \in bad : \A k \in bad : n <= k
  <2> HIDE DEF bad
  <2> QED
    BY <1>1, <1>2, SmallestElement
<1>4. n # 0 /\ n \in Nat /\ n \notin G
  BY <1>3
<1>5. n - 1 \in Nat /\ n - 1 \notin bad
  BY <1>3, <1>4
<1>6. n - 1 \in G
  BY <1>5
<1>7. (n - 1) + 1 \in G
  BY <1>5, <1>6
<1> QED
  BY <1>4, <1>7

(* Downwards from N.                                                       *)
LEMMA EveryNumberDown ==
    ASSUME NEW G, NEW N \in Nat, N \in G, \A n \in 1..N : n \in G => n - 1 \in G
    PROVE  \A n \in 0..N : n \in G
<1> DEFINE H == {k \in Nat : k <= N => N - k \in G}
<1>1. 0 \in H
  OBVIOUS
<1>2. ASSUME NEW k \in Nat, k \in H PROVE k + 1 \in H
  <2> SUFFICES ASSUME k + 1 <= N PROVE N - (k + 1) \in G
    OBVIOUS
  <2>1. N - k \in 1..N /\ N - k \in G
    BY <1>2
  <2>2. (N - k) - 1 \in G
    BY <2>1
  <2> QED
    BY <2>2
<1>3. \A k \in Nat : k \in H
  <2> HIDE DEF H
  <2> QED
    BY <1>1, <1>2, EveryNumber
<1>4. ASSUME NEW n \in 0..N PROVE n \in G
  <2>1. N - n \in Nat /\ N - n <= N /\ N - (N - n) = n
    OBVIOUS
  <2>2. N - n \in H
    BY <1>3, <2>1
  <2> QED
    BY <2>1, <2>2
<1> QED
  BY <1>4

(* n steps of the loop that begins with s0 and whose kth step is h[k].     *)
Run(S, s0, h, n, g) ==
    g \in [0..n -> S] /\ g[0] = s0 /\ \A k \in Nat : k < n => g[k + 1] = h[k][g[k]]

(* Two runs of a loop agree as far as both go.                             *)
LEMMA RunsAgree ==
    ASSUME NEW S, NEW s0, NEW h, NEW m \in Nat, NEW n \in Nat, NEW f, NEW g,
           Run(S, s0, h, m, f), Run(S, s0, h, n, g)
    PROVE  \A k \in Nat : k <= m /\ k <= n => f[k] = g[k]
<1> DEFINE G == {k \in Nat : k <= m /\ k <= n => f[k] = g[k]}
<1>1. 0 \in G
  BY DEF Run
<1>2. ASSUME NEW k \in Nat, k \in G PROVE k + 1 \in G
  <2> SUFFICES ASSUME k + 1 <= m, k + 1 <= n PROVE f[k + 1] = g[k + 1]
    OBVIOUS
  <2>1. k < m /\ k < n /\ f[k] = g[k]
    BY <1>2
  <2>2. f[k + 1] = h[k][f[k]] /\ g[k + 1] = h[k][g[k]]
    BY <2>1 DEF Run
  <2> QED
    BY <2>1, <2>2
<1>3. \A k \in Nat : k \in G
  <2> HIDE DEF G
  <2> QED
    BY <1>1, <1>2, EveryNumber
<1> QED
  BY <1>3

(* A loop can be run for any number of steps.                              *)
LEMMA RunExists ==
    ASSUME NEW S, NEW s0 \in S, NEW h \in [Nat -> [S -> S]]
    PROVE  \A n \in Nat : \E g : Run(S, s0, h, n, g)
<1> DEFINE G == {n \in Nat : \E g : Run(S, s0, h, n, g)}
<1>1. 0 \in G
  <2> DEFINE g == [k \in 0..0 |-> s0]
  <2>1. Run(S, s0, h, 0, g)
    BY DEF Run
  <2> QED
    BY <2>1
<1>2. ASSUME NEW n \in Nat, n \in G PROVE n + 1 \in G
  <2>1. PICK f : Run(S, s0, h, n, f)
    BY <1>2
  <2>2. f \in [0..n -> S] /\ f[n] \in S /\ f[0] = s0
    BY <2>1 DEF Run
  <2> DEFINE g == [k \in 0..(n + 1) |-> IF k = n + 1 THEN h[n][f[n]] ELSE f[k]]
  <2>3. g \in [0..(n + 1) -> S]
    <3>1. h[n][f[n]] \in S
      BY <2>2
    <3> QED
      BY <2>2, <3>1
  <2>4. g[n + 1] = h[n][f[n]] /\ \A k \in 0..n : g[k] = f[k]
    OBVIOUS
  <2> HIDE DEF g
  <2>5. ASSUME NEW k \in Nat, k < n + 1 PROVE g[k + 1] = h[k][g[k]]
    <3>1. CASE k = n
      BY <2>4, <3>1
    <3>2. CASE k < n
      <4>1. k \in 0..n /\ k + 1 \in 0..n
        BY <3>2
      <4>2. f[k + 1] = h[k][f[k]]
        BY <2>1, <3>2 DEF Run
      <4> QED
        BY <2>4, <4>1, <4>2
    <3> QED
      BY <2>5, <3>1, <3>2
  <2>6. g[0] = s0
    BY <2>2, <2>4
  <2>7. Run(S, s0, h, n + 1, g)
    BY <2>3, <2>5, <2>6 DEF Run
  <2> QED
    BY <2>7
<1>3. \A n \in Nat : n \in G
  <2> HIDE DEF G
  <2> QED
    BY <1>1, <1>2, EveryNumber
<1> QED
  BY <1>3

(* The values of a loop that does not end.                                 *)
Loop(S, s0, h, f) == f \in [Nat -> S] /\ f[0] = s0 /\ \A n \in Nat : f[n + 1] = h[n][f[n]]

(* A loop has its values: what a recursive function on the naturals is.    *)
LEMMA LoopValues ==
    ASSUME NEW S, NEW s0 \in S, NEW h \in [Nat -> [S -> S]]
    PROVE  \E f : Loop(S, s0, h, f)
<1> DEFINE run(n) == CHOOSE g : Run(S, s0, h, n, g)
           f == [n \in Nat |-> run(n)[n]]
<1>1. ASSUME NEW n \in Nat PROVE Run(S, s0, h, n, run(n))
  BY RunExists
<1> HIDE DEF run
<1>2. f \in [Nat -> S]
  <2>1. ASSUME NEW n \in Nat PROVE run(n)[n] \in S
    BY <1>1 DEF Run
  <2> QED
    BY <2>1
<1>3. f[0] = s0
  BY <1>1 DEF Run
<1>4. ASSUME NEW n \in Nat PROVE f[n + 1] = h[n][f[n]]
  <2>1. run(n + 1)[n + 1] = h[n][run(n + 1)[n]]
    BY <1>1 DEF Run
  <2>2. run(n + 1)[n] = run(n)[n]
    <3>1. Run(S, s0, h, n + 1, run(n + 1)) /\ Run(S, s0, h, n, run(n)) /\ n + 1 \in Nat
      BY <1>1
    <3> QED
      BY <3>1, RunsAgree
  <2>3. f[n + 1] = run(n + 1)[n + 1] /\ f[n] = run(n)[n]
    OBVIOUS
  <2> QED
    BY <2>1, <2>2, <2>3
<1> HIDE DEF f
<1> QED
  BY <1>2, <1>3, <1>4 DEF Loop

(* Powers of 2.                                                            *)
LEMMA Powers ==
    /\ Pow2[0] = 1
    /\ \A n \in Nat : Pow2[n] \in Nat \ {0} /\ Pow2[n + 1] = 2 * Pow2[n]
<1> DEFINE h == [n \in Nat |-> [x \in Nat |-> 2 * x]]
           IsPow(p) == p = [n \in Nat |-> IF n = 0 THEN 1 ELSE 2 * p[n - 1]]
<1>1. h \in [Nat -> [Nat -> Nat]]
  OBVIOUS
<1>2. PICK f : Loop(Nat, 1, h, f)
  <2>1. 1 \in Nat
    OBVIOUS
  <2> HIDE DEF h
  <2> QED
    BY <1>1, <2>1, LoopValues
<1>3. f \in [Nat -> Nat] /\ f[0] = 1 /\ \A n \in Nat : f[n + 1] = 2 * f[n]
  BY <1>2 DEF Loop
<1>4. IsPow(f)
  <2>1. ASSUME NEW n \in Nat PROVE f[n] = IF n = 0 THEN 1 ELSE 2 * f[n - 1]
    <3>1. CASE n = 0
      BY <1>3, <3>1
    <3>2. CASE n # 0
      <4>1. n - 1 \in Nat /\ (n - 1) + 1 = n
        BY <3>2
      <4>2. f[(n - 1) + 1] = 2 * f[n - 1]
        BY <1>3, <4>1
      <4> QED
        BY <3>2, <4>1, <4>2
    <3> QED
      BY <3>1, <3>2
  <2>2. f = [n \in Nat |-> f[n]]
    BY <1>3
  <2> QED
    BY <2>1, <2>2
<1>5. IsPow(Pow2)
  <2>1. Pow2 = CHOOSE p : IsPow(p)
    BY DEF Pow2
  <2> HIDE DEF IsPow
  <2> QED
    BY <1>4, <2>1
<1>6. Pow2[0] = 1 /\ \A n \in Nat : Pow2[n + 1] = 2 * Pow2[n]
  <2>1. \A n \in Nat : Pow2[n] = IF n = 0 THEN 1 ELSE 2 * Pow2[n - 1]
    BY <1>5
  <2>2. ASSUME NEW n \in Nat PROVE Pow2[n + 1] = 2 * Pow2[n]
    <3>1. n + 1 \in Nat /\ n + 1 # 0 /\ (n + 1) - 1 = n
      OBVIOUS
    <3> QED
      BY <2>1, <3>1
  <2> QED
    BY <2>1, <2>2
<1>7. \A n \in Nat : Pow2[n] \in Nat \ {0}
  <2> DEFINE G == {n \in Nat : Pow2[n] \in Nat \ {0}}
  <2>1. 0 \in G
    BY <1>6
  <2>2. ASSUME NEW n \in Nat, n \in G PROVE n + 1 \in G
    BY <1>6, <2>2
  <2>3. \A n \in Nat : n \in G
    <3> HIDE DEF G
    <3> QED
      BY <2>1, <2>2, EveryNumber
  <2> QED
    BY <2>3
<1> QED
  BY <1>6, <1>7

(* The number of the first bits.                                           *)
(* n bits, and the number of the first k of them.                          *)
Bits(n) == [1..n -> {0, 1}]

IsValueUpTo(s, n, f) == f = [k \in 0..n |-> IF k = 0 THEN 0 ELSE 2 * f[k - 1] + s[k]]

ValueUpTo(s) == CHOOSE f : IsValueUpTo(s, Len(s), f)

(* ValueUpTo is what Value computes, bit by bit.                           *)
LEMMA ValueSteps ==
    ASSUME NEW n \in Nat, NEW s \in Bits(n)
    PROVE  /\ ValueUpTo(s) \in [0..n -> Nat]
           /\ ValueUpTo(s)[0] = 0
           /\ \A k \in 1..n : s[k] \in {0, 1} /\ ValueUpTo(s)[k] = 2 * ValueUpTo(s)[k - 1] + s[k]
           /\ Value(s) = ValueUpTo(s)[n]
<1> DEFINE h == [k \in Nat |-> [x \in Nat |-> 2 * x + (IF k + 1 \in 1..n THEN s[k + 1] ELSE 0)]]
           v == ValueUpTo(s)
<1>1. s \in Seq({0, 1}) /\ Len(s) = n
  BY IntervalSeq DEF Bits
<1>2. \A k \in 1..n : s[k] \in {0, 1}
  BY DEF Bits
<1>3. h \in [Nat -> [Nat -> Nat]]
  <2>1. ASSUME NEW k \in Nat PROVE (IF k + 1 \in 1..n THEN s[k + 1] ELSE 0) \in Nat
    BY <1>2
  <2> QED
    BY <2>1
<1>4. PICK f : Loop(Nat, 0, h, f)
  <2>1. 0 \in Nat
    OBVIOUS
  <2> HIDE DEF h
  <2> QED
    BY <1>3, <2>1, LoopValues
<1>5. ASSUME NEW k \in 1..n PROVE f[k] = 2 * f[k - 1] + s[k]
  <2>1. k - 1 \in Nat /\ (k - 1) + 1 = k
    OBVIOUS
  <2>2. f[k] = h[k - 1][f[k - 1]] /\ f[k - 1] \in Nat
    BY <1>4, <2>1 DEF Loop
  <2>3. h[k - 1][f[k - 1]] = 2 * f[k - 1] + (IF (k - 1) + 1 \in 1..n THEN s[(k - 1) + 1] ELSE 0)
    BY <2>1, <2>2
  <2> QED
    BY <2>1, <2>2, <2>3
<1> DEFINE g == [k \in 0..n |-> f[k]]
<1>6. IsValueUpTo(s, n, g)
  <2>1. ASSUME NEW k \in 0..n PROVE g[k] = IF k = 0 THEN 0 ELSE 2 * g[k - 1] + s[k]
    <3>1. CASE k = 0
      BY <1>4, <3>1 DEF Loop
    <3>2. CASE k # 0
      <4>1. k \in 1..n /\ k - 1 \in 0..n
        BY <3>2
      <4> QED
        BY <1>5, <3>2, <4>1
    <3> QED
      BY <3>1, <3>2
  <2> QED
    BY <2>1 DEF IsValueUpTo
<1>7. IsValueUpTo(s, n, v)
  <2> HIDE DEF g
  <2> QED
    BY <1>1, <1>6 DEF ValueUpTo
<1>8. Value(s) = v[n]
  BY <1>1 DEF Value, ValueUpTo, IsValueUpTo
<1> HIDE DEF v
<1>9. v[0] = 0 /\ \A k \in 1..n : v[k] = 2 * v[k - 1] + s[k]
  <2>1. \A k \in 0..n : v[k] = IF k = 0 THEN 0 ELSE 2 * v[k - 1] + s[k]
    BY <1>7 DEF IsValueUpTo
  <2> QED
    BY <2>1
<1>10. v \in [0..n -> Nat]
  <2> DEFINE G == {k \in Nat : k <= n => v[k] \in Nat}
  <2>1. 0 \in G
    BY <1>9
  <2>2. ASSUME NEW k \in Nat, k \in G PROVE k + 1 \in G
    <3> SUFFICES ASSUME k + 1 <= n PROVE v[k + 1] \in Nat
      OBVIOUS
    <3>1. k + 1 \in 1..n /\ (k + 1) - 1 = k /\ v[k] \in Nat
      BY <2>2
    <3>2. v[k + 1] = 2 * v[k] + s[k + 1] /\ s[k + 1] \in {0, 1}
      BY <1>2, <1>9, <3>1
    <3> QED
      BY <3>1, <3>2
  <2>3. \A k \in Nat : k \in G
    <3> HIDE DEF G
    <3> QED
      BY <2>1, <2>2, EveryNumber
  <2>4. v = [k \in 0..n |-> v[k]]
    BY <1>7 DEF IsValueUpTo
  <2>5. \A k \in 0..n : v[k] \in Nat
    BY <2>3
  <2> QED
    BY <2>4, <2>5
<1> QED
  BY <1>2, <1>8, <1>9, <1>10 DEF v

(* Multiplication in the forms in which powers need it.                    *)
LEMMA TimesTwo ==
    ASSUME NEW a \in Int, NEW p \in Int
    PROVE  a * (2 * p) = 2 * (a * p) /\ (a + 1) * p = a * p + p /\ a * p \in Int /\ (2 * a) * p = 2 * (a * p)
OBVIOUS

(* Multiplication keeps the order.                                         *)
LEMMA TimesMonotone ==
    ASSUME NEW a \in Nat, NEW b \in Nat, NEW p \in Nat, a <= b
    PROVE  a * p <= b * p
<1>1. (b - a) * p >= 0
  OBVIOUS
<1>2. b * p = a * p + (b - a) * p
  OBVIOUS
<1> QED
  BY <1>1, <1>2

(* A quotient and a rest are the ones of the division.                     *)
LEMMA QuotientIs ==
    ASSUME NEW q \in Nat, NEW p \in Nat \ {0}, NEW r \in 0..(p - 1), NEW x \in Nat, x = q * p + r
    PROVE  x \div p = q /\ x % p = r
<1> DEFINE d == x \div p
           m == x % p
<1>1. x = p * d + m /\ m \in 0..(p - 1) /\ d \in Nat
  BY DivMod
<1> HIDE DEF d, m
<1>2. CASE d < q
  <2>1. (d + 1) * p <= q * p
    BY <1>1, <1>2, TimesMonotone
  <2>2. (d + 1) * p = p * d + p
    BY <1>1
  <2> QED
    BY <1>1, <2>1, <2>2
<1>3. CASE q < d
  <2>1. (q + 1) * p <= d * p
    BY <1>1, <1>3, TimesMonotone
  <2>2. (q + 1) * p = q * p + p /\ d * p = p * d
    BY <1>1
  <2> QED
    BY <1>1, <2>1, <2>2
<1>4. d = q
  BY <1>1, <1>2, <1>3
<1>5. m = r
  BY <1>1, <1>4
<1> QED
  BY <1>4, <1>5 DEF d, m

(* The first i bits say which multiple of a power of 2 a number is above.  *)
LEMMA UpperBits ==
    ASSUME NEW n \in Nat, NEW s \in Bits(n), NEW i \in 0..n
    PROVE  \A j \in i..n :
              /\ ValueUpTo(s)[i] * Pow2[j - i] <= ValueUpTo(s)[j]
              /\ ValueUpTo(s)[j] < (ValueUpTo(s)[i] + 1) * Pow2[j - i]
<1> DEFINE v == ValueUpTo(s)
           Within(j) == v[i] * Pow2[j - i] <= v[j] /\ v[j] < (v[i] + 1) * Pow2[j - i]
           G == {d \in Nat : i + d <= n => Within(i + d)}
<1>1. /\ \A k \in 0..n : v[k] \in Nat
      /\ \A k \in 1..n : s[k] \in {0, 1} /\ v[k] = 2 * v[k - 1] + s[k]
  BY ValueSteps
<1> HIDE DEF v
<1>2. 0 \in G
  <2>1. (i + 0) - i = 0 /\ i + 0 = i /\ v[i] \in Nat
    BY <1>1
  <2> QED
    BY <2>1, Powers
<1>3. ASSUME NEW d \in Nat, d \in G PROVE d + 1 \in G
  <2> SUFFICES ASSUME i + (d + 1) <= n PROVE Within(i + (d + 1))
    OBVIOUS
  <2> DEFINE j == i + d
             p == Pow2[d]
             a == v[i]
             x == v[j]
  <2>1. j \in 0..n /\ j + 1 \in 1..n /\ (j + 1) - 1 = j /\ i + (d + 1) = j + 1 /\ j - i = d /\ (j + 1) - i = d + 1
    OBVIOUS
  <2>2. a * p <= x /\ x < (a + 1) * p
    BY <1>3, <2>1
  <2>3. p \in Nat /\ a \in Nat /\ x \in Nat /\ Pow2[d + 1] = 2 * p
    BY <1>1, <2>1, Powers
  <2>4. v[j + 1] = 2 * x + s[j + 1] /\ s[j + 1] \in {0, 1}
    BY <1>1, <2>1
  <2>5. a * Pow2[d + 1] = 2 * (a * p) /\ (a + 1) * Pow2[d + 1] = 2 * ((a + 1) * p)
    BY <2>3, TimesTwo
  <2>6. a * p \in Int /\ (a + 1) * p \in Int
    BY <2>3, TimesTwo
  <2>7. a * Pow2[d + 1] <= v[j + 1] /\ v[j + 1] < (a + 1) * Pow2[d + 1]
    <3> HIDE DEF j, p, x, a
    <3> QED
      BY <2>2, <2>3, <2>4, <2>5, <2>6
  <2> QED
    BY <2>1, <2>7
<1>4. \A d \in Nat : d \in G
  <2> HIDE DEF G
  <2> QED
    BY <1>2, <1>3, EveryNumber
<1>5. ASSUME NEW j \in i..n PROVE Within(j)
  <2>1. j - i \in Nat /\ i + (j - i) = j
    OBVIOUS
  <2>2. j - i \in G
    BY <1>4, <2>1
  <2> QED
    BY <2>1, <2>2
<1> QED
  BY <1>5 DEF v

(* Bits have a number, and the number has these bits.                      *)
LEMMA ValueBelow ==
    ASSUME NEW n \in Nat, NEW s \in Bits(n)
    PROVE  Value(s) \in Nat /\ Value(s) < Pow2[n]
<1> DEFINE v == ValueUpTo(s)
<1>1. v[0] = 0 /\ Value(s) = v[n] /\ v[n] \in Nat
  BY ValueSteps
<1>2. 0 \in 0..n /\ n \in 0..n /\ n - 0 = n
  OBVIOUS
<1>3. v[n] < (v[0] + 1) * Pow2[n - 0]
  BY <1>2, UpperBits
<1>4. (0 + 1) * Pow2[n] = Pow2[n]
  BY Powers
<1> HIDE DEF v
<1> QED
  BY <1>1, <1>2, <1>3, <1>4

(* The first bits of s are the quotient of its number.                     *)
LEMMA FirstBits ==
    ASSUME NEW n \in Nat, NEW s \in Bits(n), NEW i \in 0..n
    PROVE  Value(s) \div Pow2[n - i] = ValueUpTo(s)[i]
<1> DEFINE x == Value(s)
           q == ValueUpTo(s)[i]
           p == Pow2[n - i]
<1>1. x \in Nat /\ q \in Nat /\ p \in Nat \ {0} /\ x = ValueUpTo(s)[n]
  <2>1. ValueUpTo(s) \in [0..n -> Nat] /\ Value(s) = ValueUpTo(s)[n]
    BY ValueSteps
  <2>2. n - i \in Nat /\ i \in 0..n /\ n \in 0..n
    OBVIOUS
  <2>3. p \in Nat \ {0}
    BY <2>2, Powers
  <2>4. x = ValueUpTo(s)[n] /\ x \in Nat /\ q \in Nat
    BY <2>1, <2>2
  <2> QED
    BY <2>3, <2>4
<1>2. q * p <= x /\ x < (q + 1) * p
  BY <1>1, UpperBits
<1> HIDE DEF x, q, p
<1>3. (q + 1) * p = q * p + p /\ q * p \in Int
  BY <1>1, TimesTwo
<1>4. x - q * p \in 0..(p - 1) /\ x = q * p + (x - q * p)
  BY <1>1, <1>2, <1>3
<1>5. x \div p = q
  BY <1>1, <1>4, QuotientIs
<1> QED
  BY <1>5 DEF x, q, p

(* A bitmap is the bits of its number.                                     *)
LEMMA BitsOfValue ==
    ASSUME NEW n \in Nat, NEW s \in Bits(n)
    PROVE  BitsOf(Value(s), n) = s
<1>1. ASSUME NEW i \in 1..n PROVE (Value(s) \div Pow2[n - i]) % 2 = s[i]
  <2>1. Value(s) \div Pow2[n - i] = ValueUpTo(s)[i]
    BY FirstBits
  <2>2. /\ ValueUpTo(s)[i] = 2 * ValueUpTo(s)[i - 1] + s[i]
        /\ s[i] \in {0, 1} /\ ValueUpTo(s)[i - 1] \in Nat
    BY ValueSteps
  <2> QED
    BY <2>1, <2>2
<1>2. s = [i \in 1..n |-> s[i]]
  BY DEF Bits
<1> QED
  BY <1>1, <1>2 DEF BitsOf

(* The quotient by p is twice the quotient by 2p and a bit.                *)
LEMMA HalfQuotient ==
    ASSUME NEW x \in Nat, NEW p \in Nat \ {0}
    PROVE  x \div p = 2 * (x \div (2 * p)) + ((x \div p) % 2) /\ x \div p \in Nat
<1> DEFINE q == x \div p
           r == x % p
<1>1. x = p * q + r /\ r \in 0..(p - 1) /\ q \in Nat
  BY DivMod
<1> DEFINE d == q \div 2
           m == q % 2
<1>2. q = 2 * d + m /\ m \in 0..1 /\ d \in Nat
  BY <1>1, DivMod
<1> HIDE DEF q, r, d, m
<1>3. x = d * (2 * p) + (m * p + r)
  <2>1. p * q = 2 * (d * p) + m * p
    <3>1. p * q = p * (2 * d + m)
      BY <1>2
    <3>2. p * (2 * d + m) = 2 * (d * p) + m * p
      BY <1>2
    <3> QED
      BY <3>1, <3>2
  <2>2. d * (2 * p) = 2 * (d * p)
    BY <1>2, TimesTwo
  <2> QED
    BY <1>1, <1>2, <2>1, <2>2
<1>4. m * p + r \in 0..(2 * p - 1)
  <2>1. m * p = 0 \/ m * p = p
    BY <1>2
  <2> QED
    BY <1>1, <2>1
<1>5. 2 * p \in Nat \ {0}
  OBVIOUS
<1>6. x \div (2 * p) = d
  BY <1>2, <1>3, <1>4, <1>5, QuotientIs
<1> QED
  BY <1>1, <1>2, <1>6 DEF q, m

(* A number that fits is the number of its bits.                           *)
LEMMA ValueOfBits ==
    ASSUME NEW n \in Nat, NEW x \in Nat, x < Pow2[n]
    PROVE  BitsOf(x, n) \in Bits(n) /\ Value(BitsOf(x, n)) = x
<1> DEFINE s == BitsOf(x, n)
           v == ValueUpTo(s)
           G == {i \in Nat : i <= n => v[i] = x \div Pow2[n - i]}
<1>1. ASSUME NEW i \in 1..n PROVE s[i] = (x \div Pow2[n - i]) % 2 /\ s[i] \in {0, 1}
  <2>1. Pow2[n - i] \in Nat \ {0}
    BY Powers
  <2>2. x \div Pow2[n - i] \in Nat
    BY <2>1, DivMod
  <2>3. s[i] = (x \div Pow2[n - i]) % 2
    BY DEF BitsOf
  <2> QED
    BY <2>2, <2>3
<1>2. s \in Bits(n)
  <2>1. s = [i \in 1..n |-> s[i]]
    BY DEF BitsOf
  <2> HIDE DEF s
  <2> QED
    BY <1>1, <2>1 DEF Bits
<1> HIDE DEF s
<1>3. v[0] = 0 /\ Value(s) = v[n] /\ \A k \in 1..n : v[k] = 2 * v[k - 1] + s[k]
  BY <1>2, ValueSteps
<1> HIDE DEF v
<1>4. 0 \in G
  <2>1. Pow2[n] \in Nat \ {0} /\ n - 0 = n
    BY Powers
  <2>2. x = 0 * Pow2[n] + x /\ x \in 0..(Pow2[n] - 1)
    BY <2>1
  <2>3. x \div Pow2[n] = 0
    BY <2>1, <2>2, QuotientIs
  <2> QED
    BY <1>3, <2>1, <2>3
<1>5. ASSUME NEW i \in Nat, i \in G PROVE i + 1 \in G
  <2> SUFFICES ASSUME i + 1 <= n PROVE v[i + 1] = x \div Pow2[n - (i + 1)]
    OBVIOUS
  <2> DEFINE p == Pow2[n - (i + 1)]
  <2>1. n - (i + 1) \in Nat /\ (n - (i + 1)) + 1 = n - i /\ i + 1 \in 1..n /\ (i + 1) - 1 = i
    OBVIOUS
  <2>2. p \in Nat \ {0} /\ Pow2[n - i] = 2 * p
    BY <2>1, Powers
  <2>3. v[i] = x \div (2 * p)
    BY <1>5, <2>1, <2>2
  <2>4. v[i + 1] = 2 * v[i] + s[i + 1] /\ s[i + 1] = (x \div p) % 2
    BY <1>1, <1>3, <2>1
  <2>5. x \div p = 2 * (x \div (2 * p)) + ((x \div p) % 2)
    BY <2>2, HalfQuotient
  <2> QED
    BY <2>3, <2>4, <2>5
<1>6. \A i \in Nat : i \in G
  <2> HIDE DEF G
  <2> QED
    BY <1>4, <1>5, EveryNumber
<1>7. v[n] = x \div Pow2[n - n] /\ n - n = 0
  BY <1>6
<1>8. x \div 1 = x
  OBVIOUS
<1> QED
  BY <1>2, <1>3, <1>7, <1>8, Powers DEF s

(* Bits of the same number are the same.                                   *)
LEMMA SameValue ==
    ASSUME NEW n \in Nat, NEW s \in Bits(n), NEW t \in Bits(n), Value(s) = Value(t)
    PROVE  s = t
<1>1. BitsOf(Value(s), n) = s /\ BitsOf(Value(t), n) = t
  BY BitsOfValue
<1> QED
  BY <1>1

(* Equal first bits are equal numbers.                                     *)
LEMMA SameFirstBits ==
    ASSUME NEW n \in Nat, NEW s \in Bits(n), NEW t \in Bits(n), NEW i \in 0..n
    PROVE  ValueUpTo(s)[i] = ValueUpTo(t)[i] <=> \A k \in 1..i : s[k] = t[k]
<1> DEFINE v == ValueUpTo(s)
           w == ValueUpTo(t)
           Same(j) == v[j] = w[j] <=> \A k \in 1..j : s[k] = t[k]
           G == {j \in Nat : j <= n => Same(j)}
<1>1. /\ v[0] = 0 /\ (\A k \in 0..n : v[k] \in Nat)
      /\ \A k \in 1..n : s[k] \in {0, 1} /\ v[k] = 2 * v[k - 1] + s[k]
  BY ValueSteps
<1>2. /\ w[0] = 0 /\ (\A k \in 0..n : w[k] \in Nat)
      /\ \A k \in 1..n : t[k] \in {0, 1} /\ w[k] = 2 * w[k - 1] + t[k]
  BY ValueSteps
<1> HIDE DEF v, w
<1>3. 0 \in G
  BY <1>1, <1>2
<1>4. ASSUME NEW j \in Nat, j \in G PROVE j + 1 \in G
  <2> SUFFICES ASSUME j + 1 <= n PROVE Same(j + 1)
    OBVIOUS
  <2>1. j \in 0..n /\ j + 1 \in 1..n /\ (j + 1) - 1 = j /\ Same(j)
    BY <1>4
  <2>2. /\ v[j + 1] = 2 * v[j] + s[j + 1] /\ s[j + 1] \in {0, 1} /\ v[j] \in Nat
        /\ w[j + 1] = 2 * w[j] + t[j + 1] /\ t[j + 1] \in {0, 1} /\ w[j] \in Nat
    BY <1>1, <1>2, <2>1
  <2>3. v[j + 1] = w[j + 1] <=> v[j] = w[j] /\ s[j + 1] = t[j + 1]
    BY <2>2
  <2>4. (\A k \in 1..(j + 1) : s[k] = t[k]) <=> (\A k \in 1..j : s[k] = t[k]) /\ s[j + 1] = t[j + 1]
    <3>1. \A k \in 1..(j + 1) : k \in 1..j \/ k = j + 1
      OBVIOUS
    <3>2. j + 1 \in 1..(j + 1) /\ \A k \in 1..j : k \in 1..(j + 1)
      OBVIOUS
    <3> QED
      BY <3>1, <3>2
  <2> QED
    BY <2>1, <2>3, <2>4
<1>5. \A j \in Nat : j \in G
  <2> HIDE DEF G
  <2> QED
    BY <1>3, <1>4, EveryNumber
<1>6. Same(i)
  BY <1>5
<1> QED
  BY <1>6 DEF v, w

(* The first bit that differs decides.                                     *)
LEMMA LessAt ==
    ASSUME NEW n \in Nat, NEW s \in Bits(n), NEW t \in Bits(n), NEW f \in 1..n,
           s[f] < t[f], \A k \in 1..(f - 1) : s[k] = t[k]
    PROVE  Value(s) < Value(t)
<1> DEFINE v == ValueUpTo(s)
           w == ValueUpTo(t)
           p == Pow2[n - f]
<1>1. /\ \A k \in 0..n : v[k] \in Nat
      /\ Value(s) = v[n] /\ s[f] \in {0, 1} /\ v[f] = 2 * v[f - 1] + s[f]
  BY ValueSteps
<1>2. /\ \A k \in 0..n : w[k] \in Nat
      /\ Value(t) = w[n] /\ t[f] \in {0, 1} /\ w[f] = 2 * w[f - 1] + t[f]
  BY ValueSteps
<1>3. f - 1 \in 0..n /\ f \in 0..n /\ n \in f..n
  OBVIOUS
<1>4. v[f - 1] = w[f - 1]
  BY <1>3, SameFirstBits
<1>5. v[n] < (v[f] + 1) * p
  BY <1>3, UpperBits
<1>6. w[f] * p <= w[n]
  BY <1>3, UpperBits
<1> HIDE DEF v, w
<1>7. w[f] = v[f] + 1
  BY <1>1, <1>2, <1>3, <1>4
<1>8. p \in Nat /\ v[n] \in Nat /\ w[n] \in Nat /\ v[f] \in Nat
  BY <1>1, <1>2, <1>3, Powers
<1> HIDE DEF p
<1>9. (v[f] + 1) * p \in Int
  BY <1>8
<1> QED
  BY <1>1, <1>2, <1>5, <1>6, <1>7, <1>8, <1>9

(* The sizes of digits, bytes and bitmaps.                                 *)
LEMMA Widths ==
    /\ NumBits \in Nat \ {0} /\ DigitBits \in Nat \ {0} /\ ByteBits \in Nat \ {0} /\ NumBytes \in Nat \ {0}
    /\ ByteBits = 2 * DigitBits
    /\ NumBits = NumBytes * ByteBits /\ NumBits = (2 * NumBytes) * DigitBits
    /\ Bitmaps = Bits(NumBits)
<1>1. NumBytes \in Nat \ {0} /\ ByteBits \in Nat \ {0} /\ ByteBits % 2 = 0
  BY BitmapAssumption
<1>2. ByteBits = 2 * DigitBits /\ DigitBits \in Nat \ {0}
  BY <1>1 DEF DigitBits
<1>3. NumBits = NumBytes * ByteBits
  BY DEF NumBits
<1>4. NumBytes * ByteBits \in Nat \ {0}
  BY <1>1
<1>5. NumBytes * (2 * DigitBits) = (2 * NumBytes) * DigitBits
  BY <1>1, <1>2
<1> QED
  BY <1>1, <1>2, <1>3, <1>4, <1>5 DEF Bitmaps, Bits

(* Cmp compares numbers.                                                   *)
LEMMA CmpIs ==
    ASSUME NEW a \in Bitmaps, NEW b \in Bitmaps
    PROVE  /\ Cmp(a, b) \in {-1, 0, 1}
           /\ Cmp(a, b) < 0 <=> Value(a) < Value(b)
           /\ Cmp(a, b) = 0 <=> a = b
           /\ Cmp(a, b) = 0 <=> Value(a) = Value(b)
           /\ Cmp(a, b) > 0 <=> Value(a) > Value(b)
<1> DEFINE N == NumBits
           differ == {k \in 1..N : a[k] # b[k]}
           first == CHOOSE k \in differ : \A j \in differ : k <= j
<1>1. N \in Nat /\ a \in Bits(N) /\ b \in Bits(N)
  BY Widths
<1>2. Value(a) \in Nat /\ Value(b) \in Nat
  BY <1>1, ValueBelow
<1>3. Cmp(a, b) = IF differ = {} THEN 0 ELSE IF a[first] < b[first] THEN -1 ELSE 1
  BY DEF Cmp
<1> HIDE DEF N
<1>4. CASE differ = {}
  <2>1. \A k \in 1..N : a[k] = b[k]
    BY <1>4
  <2>2. a = b
    BY <1>1, <2>1 DEF Bits
  <2> QED
    BY <1>2, <1>3, <1>4, <2>2
<1>5. CASE differ # {}
  <2>1. \E k \in differ : \A j \in differ : k <= j
    <3>1. differ \subseteq Nat
      BY <1>1
    <3> HIDE DEF differ
    <3> QED
      BY <1>5, <3>1, SmallestElement
  <2>2. first \in differ /\ \A j \in differ : first <= j
    <3> HIDE DEF differ
    <3> QED
      BY <2>1
  <2> HIDE DEF first
  <2>3. first \in 1..N /\ a[first] # b[first]
    BY <2>2
  <2>4. ASSUME NEW k \in 1..(first - 1) PROVE a[k] = b[k]
    <3>1. k \in 1..N /\ ~(first <= k)
      BY <1>1, <2>3
    <3>2. k \notin differ
      BY <2>2, <3>1
    <3> QED
      BY <3>1, <3>2
  <2>5. a[first] \in {0, 1} /\ b[first] \in {0, 1}
    BY <1>1, <2>3 DEF Bits
  <2>6. CASE a[first] < b[first]
    <3>1. Value(a) < Value(b)
      BY <1>1, <2>3, <2>4, <2>6, LessAt
    <3>2. Cmp(a, b) = -1
      BY <1>3, <1>5, <2>6
    <3> QED
      BY <1>2, <3>1, <3>2
  <2>7. CASE ~(a[first] < b[first])
    <3>1. b[first] < a[first]
      BY <2>3, <2>5, <2>7
    <3>2. Value(b) < Value(a)
      BY <1>1, <2>3, <2>4, <3>1, LessAt
    <3>3. Cmp(a, b) = 1
      BY <1>3, <1>5, <2>7
    <3> QED
      BY <1>2, <3>2, <3>3
  <2> QED
    BY <2>6, <2>7
<1> QED
  BY <1>4, <1>5

(* Numbers add up as their bits do where no bit carries.                   *)
LEMMA SumOfBits ==
    ASSUME NEW n \in Nat, NEW s \in Bits(n), NEW t \in Bits(n), NEW u \in Bits(n),
           \A k \in 1..n : s[k] + t[k] = u[k]
    PROVE  Value(s) + Value(t) = Value(u)
<1> DEFINE v == ValueUpTo(s)
           w == ValueUpTo(t)
           z == ValueUpTo(u)
           G == {j \in Nat : j <= n => v[j] + w[j] = z[j]}
<1>1. /\ v[0] = 0 /\ (\A k \in 0..n : v[k] \in Nat) /\ Value(s) = v[n]
      /\ \A k \in 1..n : s[k] \in {0, 1} /\ v[k] = 2 * v[k - 1] + s[k]
  BY ValueSteps
<1>2. /\ w[0] = 0 /\ (\A k \in 0..n : w[k] \in Nat) /\ Value(t) = w[n]
      /\ \A k \in 1..n : t[k] \in {0, 1} /\ w[k] = 2 * w[k - 1] + t[k]
  BY ValueSteps
<1>3. /\ z[0] = 0 /\ (\A k \in 0..n : z[k] \in Nat) /\ Value(u) = z[n]
      /\ \A k \in 1..n : u[k] \in {0, 1} /\ z[k] = 2 * z[k - 1] + u[k]
  BY ValueSteps
<1> HIDE DEF v, w, z
<1>4. 0 \in G
  BY <1>1, <1>2, <1>3
<1>5. ASSUME NEW j \in Nat, j \in G PROVE j + 1 \in G
  <2> SUFFICES ASSUME j + 1 <= n PROVE v[j + 1] + w[j + 1] = z[j + 1]
    OBVIOUS
  <2>1. j \in 0..n /\ j + 1 \in 1..n /\ (j + 1) - 1 = j /\ v[j] + w[j] = z[j]
    BY <1>5
  <2>2. v[j + 1] = 2 * v[j] + s[j + 1] /\ s[j + 1] \in {0, 1} /\ v[j] \in Nat
    BY <1>1, <2>1
  <2>3. w[j + 1] = 2 * w[j] + t[j + 1] /\ t[j + 1] \in {0, 1} /\ w[j] \in Nat
    BY <1>2, <2>1
  <2>4. z[j + 1] = 2 * z[j] + u[j + 1] /\ s[j + 1] + t[j + 1] = u[j + 1]
    BY <1>3, <2>1
  <2> QED
    BY <2>1, <2>2, <2>3, <2>4
<1>6. \A j \in Nat : j \in G
  <2> HIDE DEF G
  <2> QED
    BY <1>4, <1>5, EveryNumber
<1>7. v[n] + w[n] = z[n]
  BY <1>6
<1> QED
  BY <1>1, <1>2, <1>3, <1>7

(* The bits after the first i all 0, or all 1.                             *)
LEMMA LastBits ==
    ASSUME NEW n \in Nat, NEW s \in Bits(n), NEW i \in 0..n, NEW one \in {0, 1},
           \A k \in (i + 1)..n : s[k] = one
    PROVE  Value(s) = ValueUpTo(s)[i] * Pow2[n - i] + (IF one = 1 THEN Pow2[n - i] - 1 ELSE 0)
<1> DEFINE v == ValueUpTo(s)
           last(p) == IF one = 1 THEN p - 1 ELSE 0
           G == {d \in Nat : i + d <= n => v[i + d] = v[i] * Pow2[d] + last(Pow2[d])}
<1>1. /\ (\A k \in 0..n : v[k] \in Nat) /\ Value(s) = v[n]
      /\ \A k \in 1..n : v[k] = 2 * v[k - 1] + s[k]
  BY ValueSteps
<1> HIDE DEF v
<1>2. 0 \in G
  <2>1. i + 0 = i /\ v[i] \in Nat /\ Pow2[0] = 1
    BY <1>1, Powers
  <2>2. v[i] * 1 + last(1) = v[i]
    BY <2>1
  <2> QED
    BY <2>1, <2>2
<1>3. ASSUME NEW d \in Nat, d \in G PROVE d + 1 \in G
  <2> SUFFICES ASSUME i + (d + 1) <= n PROVE v[i + (d + 1)] = v[i] * Pow2[d + 1] + last(Pow2[d + 1])
    OBVIOUS
  <2> DEFINE j == i + d
             p == Pow2[d]
             a == v[i]
  <2>1. j \in 0..n /\ j + 1 \in 1..n /\ j + 1 \in (i + 1)..n /\ (j + 1) - 1 = j /\ i + (d + 1) = j + 1
    OBVIOUS
  <2>2. v[j] = a * p + last(p)
    BY <1>3, <2>1
  <2>3. p \in Nat /\ a \in Nat /\ Pow2[d + 1] = 2 * p
    BY <1>1, Powers
  <2>4. v[j + 1] = 2 * v[j] + one /\ v[j] \in Nat
    BY <1>1, <2>1
  <2>5. a * (2 * p) = 2 * (a * p) /\ a * p \in Int
    BY <2>3, TimesTwo
  <2> HIDE DEF j, a, p
  <2>6. 2 * (a * p + last(p)) + one = 2 * (a * p) + last(2 * p)
    BY <2>3, <2>5
  <2>7. v[j + 1] = a * Pow2[d + 1] + last(Pow2[d + 1])
    BY <2>2, <2>3, <2>4, <2>5, <2>6
  <2> QED
    BY <2>1, <2>7 DEF a
<1>4. \A d \in Nat : d \in G
  <2> HIDE DEF G
  <2> QED
    BY <1>2, <1>3, EveryNumber
<1>5. n - i \in Nat /\ i + (n - i) = n
  OBVIOUS
<1>6. v[i + (n - i)] = v[i] * Pow2[n - i] + last(Pow2[n - i])
  <2>1. n - i \in G
    BY <1>4, <1>5
  <2> QED
    BY <1>5, <2>1
<1> QED
  BY <1>1, <1>5, <1>6 DEF v

(* The number of the bits after the first k - 1.                           *)
LEMMA RestStep ==
    ASSUME NEW n \in Nat, NEW s \in Bits(n), NEW k \in 1..n
    PROVE  Value(s) - ValueUpTo(s)[k - 1] * Pow2[n - (k - 1)]
             = (Value(s) - ValueUpTo(s)[k] * Pow2[n - k]) + s[k] * Pow2[n - k]
<1> DEFINE v == ValueUpTo(s)
           p == Pow2[n - k]
           a == v[k - 1]
<1>1. v[k] = 2 * a + s[k] /\ s[k] \in {0, 1} /\ a \in Nat /\ Value(s) \in Nat
  BY ValueSteps, ValueBelow
<1>2. n - k \in Nat /\ n - (k - 1) = (n - k) + 1
  OBVIOUS
<1>3. p \in Nat /\ Pow2[n - (k - 1)] = 2 * p
  BY <1>2, Powers
<1> HIDE DEF p, a
<1>4. a * (2 * p) = 2 * (a * p) /\ (2 * a + s[k]) * p = 2 * (a * p) + s[k] * p /\ a * p \in Int /\ s[k] * p \in Int
  BY <1>1, <1>3
<1>5. Value(s) - a * (2 * p) = (Value(s) - (2 * a + s[k]) * p) + s[k] * p
  BY <1>1, <1>3, <1>4
<1> QED
  BY <1>1, <1>3, <1>5 DEF p, a

(* The carries of a sum.                                                   *)
IsCarry(a, b, c) ==
    c = [k \in 0..NumBits |-> IF k = NumBits THEN 0 ELSE IF a[k + 1] + b[k + 1] + c[k + 1] >= 2 THEN 1 ELSE 0]

(* The carries of add, from the last bit to the first.                     *)
LEMMA Carries ==
    ASSUME NEW a \in Bitmaps, NEW b \in Bitmaps
    PROVE  /\ CarryOf(a, b) \in [0..NumBits -> {0, 1}]
           /\ CarryOf(a, b)[NumBits] = 0
           /\ \A k \in 1..NumBits :
                CarryOf(a, b)[k - 1] = IF a[k] + b[k] + CarryOf(a, b)[k] >= 2 THEN 1 ELSE 0
<1> DEFINE N == NumBits
           h == [j \in Nat |-> [x \in {0, 1} |-> IF j < N /\ a[N - j] + b[N - j] + x >= 2 THEN 1 ELSE 0]]
<1>1. N \in Nat
  BY Widths
<1>2. PICK f : Loop({0, 1}, 0, h, f)
  <2>1. h \in [Nat -> [{0, 1} -> {0, 1}]]
    OBVIOUS
  <2>2. 0 \in {0, 1}
    OBVIOUS
  <2> HIDE DEF h
  <2> QED
    BY <2>1, <2>2, LoopValues
<1>3. f[0] = 0 /\ \A j \in Nat : f[j + 1] = IF j < N /\ a[N - j] + b[N - j] + f[j] >= 2 THEN 1 ELSE 0
  BY <1>2 DEF Loop
<1> HIDE DEF h
<1> DEFINE g == [k \in 0..N |-> f[N - k]]
<1>4. IsCarry(a, b, g)
  <2>1. ASSUME NEW k \in 0..N
        PROVE  g[k] = IF k = N THEN 0 ELSE IF a[k + 1] + b[k + 1] + g[k + 1] >= 2 THEN 1 ELSE 0
    <3>1. CASE k = N
      BY <1>1, <1>3, <3>1
    <3>2. CASE k # N
      <4> DEFINE j == N - (k + 1)
      <4>1. j \in Nat /\ j < N /\ j + 1 = N - k /\ N - j = k + 1 /\ k + 1 \in 0..N
        BY <1>1, <3>2
      <4>2. g[k] = f[j + 1] /\ g[k + 1] = f[j]
        BY <4>1
      <4> HIDE DEF j, g
      <4>3. f[j + 1] = IF j < N /\ a[N - j] + b[N - j] + f[j] >= 2 THEN 1 ELSE 0
        BY <1>3, <4>1
      <4> QED
        BY <3>2, <4>1, <4>2, <4>3
    <3> QED
      BY <3>1, <3>2
  <2>2. g = [k \in 0..N |-> g[k]]
    OBVIOUS
  <2> HIDE DEF g
  <2> QED
    BY <2>1, <2>2 DEF IsCarry
<1> DEFINE c == CarryOf(a, b)
<1>5. IsCarry(a, b, c)
  <2>1. c = CHOOSE x : IsCarry(a, b, x)
    BY DEF CarryOf, IsCarry
  <2> HIDE DEF g, c
  <2> QED
    BY <1>4, <2>1
<1> HIDE DEF c, g
<1>6. \A k \in 0..N : c[k] = IF k = N THEN 0 ELSE IF a[k + 1] + b[k + 1] + c[k + 1] >= 2 THEN 1 ELSE 0
  BY <1>5 DEF IsCarry
<1>7. c \in [0..N -> {0, 1}]
  <2>1. c = [k \in 0..N |-> c[k]]
    BY <1>5 DEF IsCarry
  <2>2. \A k \in 0..N : c[k] \in {0, 1}
    BY <1>6
  <2> QED
    BY <2>1, <2>2
<1>8. c[N] = 0
  BY <1>1, <1>6
<1>9. ASSUME NEW k \in 1..N PROVE c[k - 1] = IF a[k] + b[k] + c[k] >= 2 THEN 1 ELSE 0
  <2>1. k - 1 \in 0..N /\ k - 1 # N /\ (k - 1) + 1 = k
    BY <1>1
  <2> QED
    BY <1>6, <2>1
<1> QED
  BY <1>7, <1>8, <1>9 DEF c

(* add is the sum, less what is carried out of the bitmap.                 *)
LEMMA SumIs ==
    ASSUME NEW a \in Bitmaps, NEW b \in Bitmaps
    PROVE  /\ add(a, b).sum \in Bitmaps /\ add(a, b).carry \in {0, 1}
           /\ Value(a) + Value(b) = Value(add(a, b).sum) + add(a, b).carry * Pow2[NumBits]
<1> DEFINE N == NumBits
           c == CarryOf(a, b)
           s == [k \in 1..N |-> (a[k] + b[k] + c[k]) % 2]
           v == ValueUpTo(a)
           w == ValueUpTo(b)
           z == ValueUpTo(s)
<1>1. N \in Nat /\ a \in Bits(N) /\ b \in Bits(N)
  BY Widths
<1>2. /\ \A k \in 0..N : c[k] \in {0, 1}
      /\ c[N] = 0
      /\ \A k \in 1..N : c[k - 1] = IF a[k] + b[k] + c[k] >= 2 THEN 1 ELSE 0
  BY Carries
<1>3. add(a, b) = [sum |-> s, carry |-> c[0]]
  BY DEF add
<1> HIDE DEF c
<1>4. \A k \in 1..N : a[k] \in {0, 1} /\ b[k] \in {0, 1} /\ c[k] \in {0, 1}
  BY <1>1, <1>2 DEF Bits
<1>5. s \in Bits(N) /\ \A k \in 1..N : s[k] = (a[k] + b[k] + c[k]) % 2
  BY <1>4 DEF Bits
<1> HIDE DEF s
<1>6. \A k \in 1..N : s[k] \in {0, 1} /\ a[k] + b[k] + c[k] = s[k] + 2 * c[k - 1]
  <2>1. ASSUME NEW k \in 1..N PROVE s[k] \in {0, 1} /\ a[k] + b[k] + c[k] = s[k] + 2 * c[k - 1]
    <3>1. c[k - 1] = IF a[k] + b[k] + c[k] >= 2 THEN 1 ELSE 0
      BY <1>2
    <3> QED
      BY <1>4, <1>5, <3>1
  <2> QED
    BY <2>1
<1> DEFINE lower(x, u, k) == Value(x) - u[k] * Pow2[N - k]
           G == {k \in 0..N : lower(a, v, k) + lower(b, w, k) = lower(s, z, k) + c[k] * Pow2[N - k]}
<1>7. /\ Value(a) = v[N] /\ Value(b) = w[N] /\ Value(s) = z[N]
      /\ v[0] = 0 /\ w[0] = 0 /\ z[0] = 0
      /\ \A k \in 0..N : v[k] \in Nat /\ w[k] \in Nat /\ z[k] \in Nat
  BY <1>1, <1>5, ValueSteps
<1>8. ASSUME NEW k \in 1..N
      PROVE  /\ lower(a, v, k - 1) = lower(a, v, k) + a[k] * Pow2[N - k]
             /\ lower(b, w, k - 1) = lower(b, w, k) + b[k] * Pow2[N - k]
             /\ lower(s, z, k - 1) = lower(s, z, k) + s[k] * Pow2[N - k]
  BY <1>1, <1>5, RestStep
<1> HIDE DEF v, w, z
<1>9. ASSUME NEW k \in 0..N PROVE lower(a, v, k) \in Int /\ lower(b, w, k) \in Int /\ lower(s, z, k) \in Int
  <2>1. Pow2[N - k] \in Nat /\ v[k] \in Nat /\ w[k] \in Nat /\ z[k] \in Nat
    BY <1>1, <1>7, Powers
  <2>2. Value(a) \in Nat /\ Value(b) \in Nat /\ Value(s) \in Nat
    BY <1>1, <1>5, ValueBelow
  <2> QED
    BY <2>1, <2>2
<1>10. N \in G
  <2>1. N - N = 0 /\ Pow2[0] = 1 /\ N \in 0..N
    BY <1>1, Powers
  <2>2. lower(a, v, N) = 0 /\ lower(b, w, N) = 0 /\ lower(s, z, N) = 0
    BY <1>7, <2>1
  <2> HIDE DEF lower
  <2> QED
    BY <1>2, <2>1, <2>2
<1>11. ASSUME NEW k \in 1..N, k \in G PROVE k - 1 \in G
  <2> DEFINE p == Pow2[N - k]
             A == lower(a, v, k)
             B == lower(b, w, k)
             S == lower(s, z, k)
  <2>1. p \in Nat /\ N - (k - 1) = (N - k) + 1 /\ N - k \in Nat /\ k - 1 \in 0..N /\ k \in 0..N
    BY <1>1, Powers
  <2>2. Pow2[N - (k - 1)] = 2 * p
    BY <2>1, Powers
  <2>3. A + B = S + c[k] * p /\ A \in Int /\ B \in Int /\ S \in Int
    BY <1>9, <1>11, <2>1
  <2>4. /\ lower(a, v, k - 1) = A + a[k] * p
        /\ lower(b, w, k - 1) = B + b[k] * p
        /\ lower(s, z, k - 1) = S + s[k] * p
    BY <1>8
  <2>5. /\ a[k] \in {0, 1} /\ b[k] \in {0, 1} /\ c[k] \in {0, 1} /\ s[k] \in {0, 1} /\ c[k - 1] \in {0, 1}
        /\ a[k] + b[k] + c[k] = s[k] + 2 * c[k - 1]
    BY <1>2, <1>4, <1>6, <2>1
  <2> HIDE DEF lower, A, B, S, p
  <2>6. ASSUME NEW x \in {0, 1} PROVE x * p = IF x = 1 THEN p ELSE 0
    BY <2>1
  <2>7. a[k] * p + b[k] * p + c[k] * p = s[k] * p + c[k - 1] * (2 * p)
    <3>1. c[k - 1] * (2 * p) = 2 * (c[k - 1] * p)
      BY <2>1, <2>5
    <3>2. /\ a[k] * p = IF a[k] = 1 THEN p ELSE 0
          /\ b[k] * p = IF b[k] = 1 THEN p ELSE 0
          /\ c[k] * p = IF c[k] = 1 THEN p ELSE 0
          /\ s[k] * p = IF s[k] = 1 THEN p ELSE 0
          /\ c[k - 1] * p = IF c[k - 1] = 1 THEN p ELSE 0
      BY <2>5, <2>6
    <3> HIDE DEF p
    <3> DEFINE x1 == a[k] * p
               x2 == b[k] * p
               x3 == c[k] * p
               x4 == s[k] * p
               x5 == c[k - 1] * p
    <3>3. /\ x1 = IF a[k] = 1 THEN p ELSE 0
          /\ x2 = IF b[k] = 1 THEN p ELSE 0
          /\ x3 = IF c[k] = 1 THEN p ELSE 0
          /\ x4 = IF s[k] = 1 THEN p ELSE 0
          /\ x5 = IF c[k - 1] = 1 THEN p ELSE 0
      BY <3>2
    <3> HIDE DEF x1, x2, x3, x4, x5
    <3>4. x1 + x2 + x3 = x4 + 2 * x5
      BY <2>1, <2>5, <3>3
    <3> QED
      BY <3>1, <3>4 DEF x1, x2, x3, x4, x5
  <2>8. /\ a[k] * p \in Int /\ b[k] * p \in Int /\ c[k] * p \in Int /\ s[k] * p \in Int
        /\ c[k - 1] * (2 * p) \in Int
    <3>1. /\ a[k] \in Int /\ b[k] \in Int /\ c[k] \in Int /\ s[k] \in Int /\ c[k - 1] \in Int
          /\ p \in Int /\ 2 * p \in Int
      BY <2>1, <2>5
    <3>2. \A x, y \in Int : x * y \in Int
      OBVIOUS
    <3> QED
      BY <3>1, <3>2
  <2>9. (A + a[k] * p) + (B + b[k] * p) = (S + s[k] * p) + c[k - 1] * (2 * p)
    BY <2>3, <2>7, <2>8
  <2> QED
    BY <2>1, <2>2, <2>4, <2>9
<1>12. 0 \in G
  <2> HIDE DEF G
  <2> QED
    BY <1>1, <1>10, <1>11, EveryNumberDown
<1>13. lower(a, v, 0) = Value(a) /\ lower(b, w, 0) = Value(b) /\ lower(s, z, 0) = Value(s)
  <2>1. Pow2[N - 0] \in Nat
    BY <1>1, Powers
  <2>2. Value(a) \in Nat /\ Value(b) \in Nat /\ Value(s) \in Nat
    BY <1>1, <1>5, ValueBelow
  <2> QED
    BY <1>7, <2>1, <2>2
<1>14. Value(a) + Value(b) = Value(s) + c[0] * Pow2[N]
  <2>1. N - 0 = N
    BY <1>1
  <2> HIDE DEF lower
  <2> QED
    BY <1>12, <1>13, <2>1
<1>15. c[0] \in {0, 1} /\ s \in Bitmaps
  BY <1>1, <1>2, <1>5, Widths
<1> QED
  BY <1>3, <1>14, <1>15

(* Not is the complement.                                                  *)
LEMMA NotIs ==
    ASSUME NEW a \in Bitmaps
    PROVE  Not(a) \in Bitmaps /\ Value(a) + Value(Not(a)) = Pow2[NumBits] - 1
<1> DEFINE N == NumBits
           b == Not(a)
           u == [k \in 1..N |-> 1]
<1>1. N \in Nat /\ a \in Bits(N) /\ \A k \in 1..N : a[k] \in {0, 1}
  BY Widths DEF Bits
<1>2. b = [k \in 1..N |-> 1 - a[k]]
  BY DEF Not
<1> HIDE DEF b
<1>3. b \in Bits(N) /\ \A k \in 1..N : a[k] + b[k] = 1
  BY <1>1, <1>2 DEF Bits
<1>4. u \in Bits(N) /\ \A k \in 1..N : u[k] = 1
  BY DEF Bits
<1> HIDE DEF u
<1>5. Value(a) + Value(b) = Value(u)
  BY <1>1, <1>3, <1>4, SumOfBits
<1>6. Value(u) = ValueUpTo(u)[0] * Pow2[N - 0] + (IF 1 = 1 THEN Pow2[N - 0] - 1 ELSE 0)
  <2>1. 0 \in 0..N /\ 1 \in {0, 1} /\ \A k \in (0 + 1)..N : u[k] = 1
    BY <1>1, <1>4
  <2> QED
    BY <1>1, <1>4, <2>1, LastBits
<1>7. ValueUpTo(u)[0] = 0 /\ Pow2[N - 0] \in Nat /\ N - 0 = N
  <2>1. ValueUpTo(u)[0] = 0
    BY <1>1, <1>4, ValueSteps
  <2>2. N - 0 = N
    BY <1>1
  <2>3. Pow2[N] \in Nat
    BY <1>1, Powers
  <2> QED
    BY <2>1, <2>2, <2>3
<1>8. Value(u) = Pow2[N] - 1
  BY <1>6, <1>7
<1> QED
  BY <1>1, <1>3, <1>5, <1>8, Widths DEF b

(* A bitmap is not a panic or an error.                                    *)
LEMMA BitmapIsNoPanic ==
    ASSUME NEW a \in Bitmaps
    PROVE  a # Panic /\ a # Failure
<1>1. NumBits \in Nat /\ NumBits >= 2
  <2>1. NumBytes \in Nat /\ NumBytes >= 1 /\ DigitBits \in Nat /\ DigitBits >= 1
    BY Widths
  <2>2. NumBits = (2 * NumBytes) * DigitBits
    BY Widths
  <2>3. (2 * NumBytes) * DigitBits >= 2 * NumBytes
    BY <2>1
  <2> QED
    BY <2>1, <2>2, <2>3, Widths
<1>2. DOMAIN a = 1..NumBits
  BY DEF Bitmaps
<1>3. 2 \in DOMAIN a
  BY <1>1, <1>2
<1>4. DOMAIN Panic = 1..1 /\ DOMAIN Failure = 1..1
  BY DEF Panic, Failure
<1>5. 2 \notin 1..1
  OBVIOUS
<1> QED
  BY <1>3, <1>4, <1>5

(* The bitmap 1.                                                           *)
LEMMA OneIs == One \in Bitmaps /\ Value(One) = 1
<1>1. NumBits \in Nat /\ NumBits - 1 \in Nat /\ NumBits = (NumBits - 1) + 1
  BY Widths
<1>2. Pow2[NumBits] = 2 * Pow2[NumBits - 1] /\ Pow2[NumBits - 1] \in Nat \ {0}
  BY <1>1, Powers
<1>3. 1 < Pow2[NumBits]
  BY <1>2
<1> QED
  BY <1>1, <1>3, ValueOfBits, Widths DEF One

(* Add and Sub are sum and difference, where these are numbers of that     *)
(* many bits.                                                              *)
LEMMA AddIs ==
    ASSUME NEW a \in Bitmaps, NEW b \in Bitmaps
    PROVE  Add(a, b) = IF Value(a) + Value(b) < Pow2[NumBits]
                       THEN BitsOf(Value(a) + Value(b), NumBits) ELSE Panic
<1> DEFINE N == NumBits
           r == add(a, b)
           p == Pow2[N]
<1>1. N \in Nat /\ a \in Bits(N) /\ b \in Bits(N) /\ p \in Nat
  BY Widths, Powers
<1>2. r.sum \in Bits(N) /\ r.carry \in {0, 1} /\ Value(a) + Value(b) = Value(r.sum) + r.carry * p
  BY SumIs, Widths
<1>3. Value(r.sum) \in Nat /\ Value(r.sum) < p /\ Value(a) \in Nat /\ Value(b) \in Nat
  BY <1>1, <1>2, ValueBelow
<1>4. BitsOf(Value(r.sum), N) = r.sum
  BY <1>1, <1>2, BitsOfValue
<1>5. Add(a, b) = IF r.carry = 1 THEN Panic ELSE r.sum
  BY DEF Add
<1> HIDE DEF r, p, N
<1>6. CASE r.carry = 0
  <2>1. Value(a) + Value(b) = Value(r.sum)
    BY <1>1, <1>2, <1>3, <1>6
  <2> QED
    BY <1>3, <1>4, <1>5, <1>6, <2>1 DEF p, N
<1>7. CASE r.carry = 1
  <2>1. Value(a) + Value(b) = Value(r.sum) + p
    BY <1>1, <1>2, <1>3, <1>7
  <2>2. ~(Value(a) + Value(b) < p)
    BY <1>1, <1>3, <2>1
  <2> QED
    BY <1>5, <1>7, <2>2 DEF p, N
<1> QED
  BY <1>2, <1>6, <1>7

(* Sub is subtraction, and panics below 0: the complement of other is      *)
(* added.                                                                  *)
LEMMA SubIs ==
    ASSUME NEW a \in Bitmaps, NEW b \in Bitmaps
    PROVE  Sub(a, b) = IF Value(a) >= Value(b) THEN BitsOf(Value(a) - Value(b), NumBits) ELSE Panic
<1> DEFINE N == NumBits
           p == Pow2[N]
           r == add(Not(b), One)
           t == add(a, r.sum)
<1>1. N \in Nat /\ a \in Bits(N) /\ b \in Bits(N) /\ p \in Nat
  BY Widths, Powers
<1>2. Not(b) \in Bitmaps /\ Value(b) + Value(Not(b)) = p - 1 /\ One \in Bitmaps /\ Value(One) = 1
  BY NotIs, OneIs
<1>3. r.sum \in Bitmaps /\ r.carry \in {0, 1} /\ Value(Not(b)) + 1 = Value(r.sum) + r.carry * p
  BY <1>2, SumIs
<1>4. t.sum \in Bitmaps /\ t.carry \in {0, 1} /\ Value(a) + Value(r.sum) = Value(t.sum) + t.carry * p
  BY <1>3, SumIs
<1>5. /\ Value(a) \in Nat /\ Value(b) \in Nat /\ Value(Not(b)) \in Nat
      /\ Value(r.sum) \in Nat /\ Value(r.sum) < p /\ Value(t.sum) \in Nat /\ Value(t.sum) < p
      /\ Value(a) < p
  BY <1>1, <1>2, <1>3, <1>4, ValueBelow, Widths
<1>6. BitsOf(Value(t.sum), N) = t.sum
  BY <1>1, <1>4, BitsOfValue, Widths
<1>7. Sub(a, b) = IF Cmp(a, b) < 0 THEN Panic ELSE t.sum
  BY DEF Sub
<1>8. Cmp(a, b) < 0 <=> Value(a) < Value(b)
  BY CmpIs
<1> HIDE DEF r, t, p, N
<1>9. CASE Value(a) >= Value(b)
  <2>1. r.carry * p = (IF r.carry = 1 THEN p ELSE 0) /\ t.carry * p = (IF t.carry = 1 THEN p ELSE 0)
    BY <1>1, <1>3, <1>4
  <2>2. Value(t.sum) = Value(a) - Value(b)
    BY <1>1, <1>2, <1>3, <1>4, <1>5, <1>9, <2>1
  <2>3. ~(Cmp(a, b) < 0)
    BY <1>5, <1>8, <1>9
  <2> QED
    BY <1>6, <1>7, <1>9, <2>2, <2>3 DEF N
<1>10. CASE ~(Value(a) >= Value(b))
  BY <1>5, <1>7, <1>8, <1>10
<1> QED
  BY <1>9, <1>10

(* The bitwise operations.                                                 *)
LEMMA BitwiseTypes ==
    ASSUME NEW a \in Bitmaps, NEW b \in Bitmaps
    PROVE  /\ Xor(a, b) \in Bitmaps /\ And(a, b) \in Bitmaps /\ Or(a, b) \in Bitmaps
           /\ \A k \in 1..NumBits :
                 /\ a[k] \in {0, 1} /\ b[k] \in {0, 1}
                 /\ Xor(a, b)[k] = IF a[k] = b[k] THEN 0 ELSE 1
                 /\ And(a, b)[k] = IF a[k] = 1 /\ b[k] = 1 THEN 1 ELSE 0
                 /\ Or(a, b)[k] = IF a[k] = 1 \/ b[k] = 1 THEN 1 ELSE 0
<1>1. \A k \in 1..NumBits : a[k] \in {0, 1} /\ b[k] \in {0, 1}
  BY DEF Bitmaps
<1>2. ASSUME NEW k \in 1..NumBits
      PROVE  /\ Xor(a, b)[k] = IF a[k] = b[k] THEN 0 ELSE 1
             /\ And(a, b)[k] = IF a[k] = 1 /\ b[k] = 1 THEN 1 ELSE 0
             /\ Or(a, b)[k] = IF a[k] = 1 \/ b[k] = 1 THEN 1 ELSE 0
  <2>1. Xor(a, b)[k] = (a[k] + b[k]) % 2 /\ And(a, b)[k] = a[k] * b[k]
    BY DEF Xor, And
  <2>2. Or(a, b)[k] = IF a[k] + b[k] > 0 THEN 1 ELSE 0
    BY DEF Or
  <2>3. a[k] \in {0, 1} /\ b[k] \in {0, 1}
    BY <1>1
  <2>4. CASE a[k] = 0
    BY <2>1, <2>2, <2>3, <2>4
  <2>5. CASE a[k] = 1
    BY <2>1, <2>2, <2>3, <2>5
  <2> QED
    BY <2>3, <2>4, <2>5
<1>3. /\ Xor(a, b) = [k \in 1..NumBits |-> Xor(a, b)[k]]
      /\ And(a, b) = [k \in 1..NumBits |-> And(a, b)[k]]
      /\ Or(a, b) = [k \in 1..NumBits |-> Or(a, b)[k]]
  BY DEF Xor, And, Or
<1>4. Xor(a, b) \in Bitmaps
  <2>1. \A k \in 1..NumBits : Xor(a, b)[k] \in {0, 1}
    BY <1>2
  <2> QED
    BY <1>3, <2>1 DEF Bitmaps
<1>5. And(a, b) \in Bitmaps
  <2>1. \A k \in 1..NumBits : And(a, b)[k] \in {0, 1}
    BY <1>2
  <2> QED
    BY <1>3, <2>1 DEF Bitmaps
<1>6. Or(a, b) \in Bitmaps
  <2>1. \A k \in 1..NumBits : Or(a, b)[k] \in {0, 1}
    BY <1>2
  <2> QED
    BY <1>3, <2>1 DEF Bitmaps
<1> QED
  BY <1>1, <1>2, <1>4, <1>5, <1>6

(* The length of a common prefix.                                          *)
LEMMA PrefixLenIs ==
    ASSUME NEW a \in Bitmaps
    PROVE  /\ PrefixLen(a) \in 0..NumBits
           /\ \A n \in 0..NumBits : PrefixLen(a) >= n <=> \A k \in 1..n : a[k] = 0
<1> DEFINE N == NumBits
           ones == {k \in 1..N : a[k] = 1}
           first == CHOOSE k \in ones : \A j \in ones : k <= j
<1>1. N \in Nat /\ \A k \in 1..N : a[k] \in {0, 1}
  BY Widths DEF Bitmaps
<1>2. PrefixLen(a) = IF ones = {} THEN N ELSE first - 1
  BY DEF PrefixLen
<1> HIDE DEF N
<1>3. CASE ones = {}
  <2>1. \A k \in 1..N : a[k] = 0
    BY <1>1, <1>3
  <2>2. PrefixLen(a) = N
    BY <1>2, <1>3
  <2>3. \A n \in 0..N : \A k \in 1..n : k \in 1..N
    BY <1>1
  <2> QED
    BY <1>1, <2>1, <2>2, <2>3 DEF N
<1>4. CASE ones # {}
  <2>1. \E k \in ones : \A j \in ones : k <= j
    <3>1. ones \subseteq Nat
      BY <1>1
    <3> HIDE DEF ones
    <3> QED
      BY <1>4, <3>1, SmallestElement
  <2>2. first \in ones /\ \A j \in ones : first <= j
    <3> HIDE DEF ones
    <3> QED
      BY <2>1
  <2>3. PrefixLen(a) = first - 1
    BY <1>2, <1>4
  <2> HIDE DEF first
  <2>4. first \in 1..N /\ a[first] = 1
    BY <2>2
  <2>5. ASSUME NEW n \in 0..N PROVE first - 1 >= n <=> \A k \in 1..n : a[k] = 0
    <3>1. CASE first - 1 >= n
      <4>1. ASSUME NEW k \in 1..n PROVE a[k] = 0
        <5>1. k \in 1..N /\ ~(first <= k)
          BY <1>1, <2>4, <3>1
        <5>2. k \notin ones
          BY <2>2, <5>1
        <5> QED
          BY <1>1, <5>1, <5>2
      <4> QED
        BY <3>1, <4>1
    <3>2. CASE ~(first - 1 >= n)
      <4>1. first \in 1..n
        BY <1>1, <2>4, <3>2
      <4> QED
        BY <2>4, <3>2, <4>1
    <3> QED
      BY <3>1, <3>2
  <2>6. first - 1 \in 0..N
    BY <1>1, <2>4
  <2> QED
    BY <2>3, <2>5, <2>6 DEF N
<1> QED
  BY <1>3, <1>4

(* The bits of two bitmaps agree as far as the bits of their xor are 0.    *)
LEMMA CommonPrefix ==
    ASSUME NEW a \in Bitmaps, NEW b \in Bitmaps, NEW n \in 0..NumBits
    PROVE  PrefixLen(Xor(a, b)) >= n <=> \A k \in 1..n : a[k] = b[k]
<1>1. Xor(a, b) \in Bitmaps /\ \A k \in 1..NumBits : Xor(a, b)[k] = IF a[k] = b[k] THEN 0 ELSE 1
  BY BitwiseTypes
<1>2. \A k \in 1..n : k \in 1..NumBits
  BY Widths
<1>3. (\A k \in 1..n : Xor(a, b)[k] = 0) <=> (\A k \in 1..n : a[k] = b[k])
  BY <1>1, <1>2
<1> QED
  BY <1>1, <1>3, PrefixLenIs

(* Sequences of m pieces of k elements, whole and cut; the place of the    *)
(* jth element of the ith piece.                                           *)
Whole(T, m, k) == [1..(m * k) -> T]

CutUp(T, m, k) == [1..m -> [1..k -> T]]

Place(i, k, j) == (i - 1) * k + j

SamePieces(s, p, m, k) == \A i \in 1..m, j \in 1..k : s[Place(i, k, j)] = p[i][j]

(* The places of the pieces are places of the whole.                       *)
LEMMA PlaceIs ==
    ASSUME NEW m \in Nat, NEW k \in Nat \ {0}, NEW i \in 1..m, NEW j \in 1..k
    PROVE  /\ Place(i, k, j) \in 1..(m * k) /\ (i - 1) * k \in Nat /\ (i - 1) * k + k = i * k
           /\ Place(i, k, j) = (i - 1) * k + j
<1>1. i - 1 \in Nat /\ i \in Nat /\ i <= m
  OBVIOUS
<1>2. i * k <= m * k
  BY <1>1, TimesMonotone
<1>3. (i - 1) * k + k = i * k /\ (i - 1) * k \in Nat /\ m * k \in Nat /\ i * k \in Nat
  BY <1>1
<1> QED
  BY <1>2, <1>3 DEF Place

(* Every place of the whole is in a piece,                                 *)
LEMMA EveryPlace ==
    ASSUME NEW m \in Nat, NEW k \in Nat \ {0}, NEW x \in 1..(m * k)
    PROVE  \E i \in 1..m, j \in 1..k : x = Place(i, k, j)
<1> DEFINE q == (x - 1) \div k
           r == (x - 1) % k
<1>1. m * k \in Nat /\ x - 1 \in Nat
  OBVIOUS
<1>2. x - 1 = k * q + r /\ r \in 0..(k - 1) /\ q \in Nat
  BY <1>1, DivMod
<1> HIDE DEF q, r
<1>3. q < m
  <2> SUFFICES ASSUME m <= q PROVE FALSE
    BY <1>2
  <2>1. m * k <= q * k
    BY <1>2, TimesMonotone
  <2>2. q * k = k * q /\ q * k \in Nat
    BY <1>2
  <2> QED
    BY <1>1, <1>2, <2>1, <2>2
<1>4. q + 1 \in 1..m /\ r + 1 \in 1..k /\ (q + 1) - 1 = q
  BY <1>2, <1>3
<1>5. x = q * k + (r + 1)
  <2>1. q * k = k * q
    BY <1>2
  <2> QED
    BY <1>1, <1>2, <2>1
<1>6. x = Place(q + 1, k, r + 1)
  BY <1>4, <1>5 DEF Place
<1> QED
  BY <1>4, <1>6

(* and in one only.                                                        *)
LEMMA PlaceIsOne ==
    ASSUME NEW k \in Nat \ {0}, NEW i \in Nat, i >= 1, NEW j \in 1..k
    PROVE  (Place(i, k, j) - 1) \div k = i - 1 /\ (Place(i, k, j) - 1) % k = j - 1
<1> DEFINE x == Place(i, k, j)
           q == i - 1
           r == j - 1
           y == x - 1
<1>1. q \in Nat /\ r \in 0..(k - 1) /\ q * k \in Nat
  OBVIOUS
<1>2. x = q * k + j
  BY DEF Place
<1> HIDE DEF q, x
<1>3. y \in Nat /\ y = q * k + r
  BY <1>1, <1>2
<1> HIDE DEF r, y
<1>4. y \div k = q /\ y % k = r
  BY <1>1, <1>3, QuotientIs
<1> QED
  BY <1>4 DEF q, r, y, x

(* Join puts pieces one after the other.                                   *)
LEMMA JoinIs ==
    ASSUME NEW T, NEW m \in Nat \ {0}, NEW k \in Nat \ {0}, NEW p \in CutUp(T, m, k)
    PROVE  Join(p) \in Whole(T, m, k) /\ SamePieces(Join(p), p, m, k)
<1> DEFINE at(x) == p[((x - 1) \div k) + 1][((x - 1) % k) + 1]
           g == [i \in 1..m |-> [x \in 1..(i * k) |-> at(x)]]
<1>1. Len(p) = m /\ p \in [1..m -> [1..k -> T]]
  BY IntervalSeq DEF CutUp
<1>2. ASSUME NEW i \in 1..m, NEW j \in 1..k PROVE at(Place(i, k, j)) = p[i][j]
  <2> DEFINE x == Place(i, k, j)
  <2>1. i \in Nat /\ i >= 1
    OBVIOUS
  <2>2. (x - 1) \div k = i - 1 /\ (x - 1) % k = j - 1
    BY <2>1, PlaceIsOne
  <2> HIDE DEF x
  <2>3. (i - 1) + 1 = i /\ (j - 1) + 1 = j
    OBVIOUS
  <2>4. at(x) = p[i][j]
    BY <2>2, <2>3
  <2> QED
    BY <2>4 DEF x
<1>3. ASSUME NEW n \in 1..m, NEW x \in 1..(n * k) PROVE at(x) \in T
  <2>1. n \in Nat
    OBVIOUS
  <2>2. PICK i \in 1..n, j \in 1..k : x = Place(i, k, j)
    BY <2>1, EveryPlace
  <2>3. i \in 1..m
    OBVIOUS
  <2>4. at(x) = p[i][j]
    <3> HIDE DEF at
    <3> QED
      BY <1>2, <2>2, <2>3
  <2> HIDE DEF at
  <2> QED
    BY <1>1, <2>3, <2>4
<1> HIDE DEF at
<1>4. ASSUME NEW i \in 1..m
      PROVE  i * k \in Nat /\ g[i] \in [1..(i * k) -> T] /\ g[i] \in Seq(T) /\ Len(g[i]) = i * k
  <2>1. i * k \in Nat
    OBVIOUS
  <2>2. g[i] = [x \in 1..(i * k) |-> at(x)]
    OBVIOUS
  <2>3. g[i] \in [1..(i * k) -> T]
    BY <1>3, <2>2
  <2> HIDE DEF g
  <2> QED
    BY <2>1, <2>3, IntervalSeq
<1>5. ASSUME NEW i \in 1..m PROVE g[i] = IF i = 1 THEN p[i] ELSE g[i - 1] \o p[i]
  <2>1. p[i] \in [1..k -> T] /\ p[i] \in Seq(T) /\ Len(p[i]) = k
    BY <1>1, IntervalSeq
  <2>2. CASE i = 1
    <3>1. i * k = k /\ (i - 1) * k = 0
      BY <2>2
    <3>2. ASSUME NEW x \in 1..k PROVE g[i][x] = p[i][x]
      <4>1. x = Place(i, k, x)
        BY <3>1 DEF Place
      <4>2. at(x) = p[i][x]
        BY <1>2, <4>1
      <4> QED
        BY <3>1, <4>2
    <3>3. g[i] \in [1..k -> T]
      BY <1>4, <3>1
    <3> HIDE DEF g
    <3>4. g[i] = p[i]
      BY <2>1, <3>2, <3>3
    <3> QED
      BY <2>2, <3>4
  <2>3. CASE i # 1
    <3> DEFINE u == g[i - 1]
               c == (i - 1) * k
    <3>1. i - 1 \in 1..m
      BY <2>3
    <3>2. c \in Nat /\ u \in Seq(T) /\ Len(u) = c /\ \A x \in 1..c : u[x] = at(x)
      BY <1>4, <3>1
    <3>3. c + k = i * k
      OBVIOUS
    <3> HIDE DEF u, c
    <3>4. u \o p[i] \in Seq(T) /\ Len(u \o p[i]) = c + k
      BY <2>1, <3>2, ConcatProperties
    <3>5. ASSUME NEW x \in 1..(c + k) PROVE (u \o p[i])[x] = at(x)
      <4>1. CASE x <= c
        <5>1. (u \o p[i])[x] = u[x]
          <6>1. x \in 1..(Len(u) + Len(p[i])) /\ x <= Len(u)
            BY <2>1, <3>2, <4>1
          <6> QED
            BY <2>1, <3>2, <6>1, ConcatProperties
        <5>2. x \in 1..c
          BY <3>2, <4>1
        <5> QED
          BY <3>2, <5>1, <5>2
      <4>2. CASE ~(x <= c)
        <5>1. x - c \in 1..k /\ x = c + (x - c)
          BY <3>2, <4>2
        <5>2. (u \o p[i])[x] = p[i][x - c]
          <6>1. x \in 1..(Len(u) + Len(p[i])) /\ ~(x <= Len(u))
            BY <2>1, <3>2, <4>2
          <6>2. u \in Seq(T) /\ p[i] \in Seq(T) /\ Len(u) = c
            BY <2>1, <3>2
          <6>3. (u \o p[i])[x] = p[i][x - Len(u)]
            BY <6>1, <6>2, ConcatProperties
          <6> QED
            BY <6>2, <6>3
        <5>3. x = Place(i, k, x - c)
          BY <5>1 DEF Place, c
        <5>4. at(x) = p[i][x - c]
          BY <1>2, <5>1, <5>3
        <5> QED
          BY <5>2, <5>4
      <4> QED
        BY <4>1, <4>2
    <3>6. g[i] \in Seq(T) /\ Len(g[i]) = c + k /\ \A x \in 1..(c + k) : g[i][x] = at(x)
      BY <1>4, <3>3 DEF c
    <3> HIDE DEF g
    <3>7. g[i] = u \o p[i]
      BY <3>4, <3>5, <3>6, SeqEqual
    <3> QED
      BY <2>3, <3>7 DEF u
  <2> QED
    BY <2>2, <2>3
<1>6. g = [i \in 1..Len(p) |-> IF i = 1 THEN p[i] ELSE g[i - 1] \o p[i]]
  <2>1. g = [i \in 1..m |-> g[i]]
    OBVIOUS
  <2> HIDE DEF g
  <2> QED
    BY <1>1, <1>5, <2>1
<1>7. m \in 1..m
  OBVIOUS
<1>8. Join(p) = g[m]
  <2> HIDE DEF g
  <2> QED
    BY <1>1, <1>6, FlattenIs DEF Join
<1>9. ASSUME NEW i \in 1..m, NEW j \in 1..k PROVE g[m][Place(i, k, j)] = p[i][j]
  <2>1. Place(i, k, j) \in 1..(m * k)
    BY PlaceIs
  <2> QED
    BY <1>2, <1>7, <2>1
<1> HIDE DEF g
<1> QED
  BY <1>4, <1>7, <1>8, <1>9 DEF Whole, SamePieces

(* Pieces cuts a sequence so.                                              *)
LEMMA PiecesIs ==
    ASSUME NEW T, NEW m \in Nat \ {0}, NEW k \in Nat \ {0}, NEW s \in Whole(T, m, k)
    PROVE  Pieces(s, k) \in CutUp(T, m, k) /\ SamePieces(s, Pieces(s, k), m, k)
<1> DEFINE p == Pieces(s, k)
<1>1. m * k \in Nat
  OBVIOUS
<1>2. s \in Seq(T) /\ Len(s) = m * k /\ s \in [1..(m * k) -> T]
  BY <1>1, IntervalSeq DEF Whole
<1>3. (m * k) \div k = m
  <2>1. m * k = m * k + 0 /\ 0 \in 0..(k - 1)
    BY <1>1
  <2> QED
    BY <1>1, <2>1, QuotientIs
<1>4. p = [i \in 1..m |-> SubSeq(s, (i - 1) * k + 1, i * k)]
  BY <1>2, <1>3 DEF Pieces
<1>5. ASSUME NEW i \in 1..m
      PROVE  p[i] \in [1..k -> T] /\ \A j \in 1..k : p[i][j] = s[Place(i, k, j)]
  <2> DEFINE c == (i - 1) * k
  <2>1. p[i] = SubSeq(s, c + 1, i * k)
    BY <1>4
  <2>2. c \in Nat /\ c + k = i * k /\ \A j \in 1..k : Place(i, k, j) = c + j /\ c + j \in 1..(m * k)
    <3>1. m \in Nat /\ k \in 1..k
      OBVIOUS
    <3> QED
      BY <3>1, PlaceIs
  <2> HIDE DEF c
  <2>3. SubSeq(s, c + 1, c + k) = [j \in 1..k |-> s[c + j]]
    <3>1. \A x \in (c + 1)..(c + k) : s[x] \in T
      <4>1. c + k \in 1..(m * k)
        BY <2>2
      <4>2. \A x \in (c + 1)..(c + k) : x \in 1..(m * k)
        BY <1>1, <2>2, <4>1
      <4> QED
        BY <1>2, <4>2
    <3> DEFINE w == SubSeq(s, c + 1, c + k)
    <3>2. /\ w \in Seq(T) /\ Len(w) = IF c + 1 <= c + k THEN (c + k) - (c + 1) + 1 ELSE 0
          /\ \A j \in 1..((c + k) - (c + 1) + 1) : w[j] = s[(c + 1) + j - 1]
      <4>1. c + 1 \in Int /\ c + k \in Int
        BY <2>2
      <4> QED
        BY <3>1, <4>1, SubSeqProperties
    <3> HIDE DEF w
    <3>3. Len(w) = k /\ (c + k) - (c + 1) + 1 = k /\ \A j \in 1..k : (c + 1) + j - 1 = c + j
      BY <2>2, <3>2
    <3>4. DOMAIN w = 1..k /\ \A j \in 1..k : w[j] = s[c + j]
      BY <3>2, <3>3, LenProperties
    <3>5. w = [j \in 1..k |-> s[c + j]]
      BY <3>2, <3>4
    <3> QED
      BY <3>5 DEF w
  <2>4. \A j \in 1..k : s[c + j] \in T
    BY <1>2, <2>2
  <2> QED
    BY <2>1, <2>2, <2>3, <2>4 DEF c
<1>6. p \in CutUp(T, m, k)
  <2>1. p = [i \in 1..m |-> p[i]]
    BY <1>4
  <2> HIDE DEF p
  <2> QED
    BY <1>5, <2>1 DEF CutUp
<1> QED
  BY <1>5, <1>6 DEF SamePieces

(* A sequence is known by its pieces.                                      *)
LEMMA PiecesDecide ==
    ASSUME NEW T, NEW m \in Nat, NEW k \in Nat \ {0}, NEW s \in Whole(T, m, k), NEW t \in Whole(T, m, k),
           NEW p, SamePieces(s, p, m, k), SamePieces(t, p, m, k)
    PROVE  s = t
<1>1. ASSUME NEW x \in 1..(m * k) PROVE s[x] = t[x]
  <2>1. PICK i \in 1..m, j \in 1..k : x = Place(i, k, j)
    BY EveryPlace
  <2> QED
    BY <2>1 DEF SamePieces
<1> QED
  BY <1>1 DEF Whole

(* Pieces are put together as they were.                                   *)
LEMMA JoinPieces ==
    ASSUME NEW T, NEW m \in Nat \ {0}, NEW k \in Nat \ {0}, NEW s \in Whole(T, m, k)
    PROVE  Join(Pieces(s, k)) = s
<1> DEFINE p == Pieces(s, k)
<1>1. p \in CutUp(T, m, k) /\ SamePieces(s, p, m, k)
  BY PiecesIs
<1> HIDE DEF p
<1>2. Join(p) \in Whole(T, m, k) /\ SamePieces(Join(p), p, m, k)
  BY <1>1, JoinIs
<1>3. m \in Nat
  OBVIOUS
<1>4. Join(p) = s
  BY <1>1, <1>2, <1>3, PiecesDecide
<1> QED
  BY <1>4 DEF p

(* A bitmap is made of bytes and of digits.                                *)
LEMMA BitmapPieces ==
    /\ Bitmaps = Whole({0, 1}, NumBytes, ByteBits)
    /\ Bitmaps = Whole({0, 1}, 2 * NumBytes, DigitBits)
    /\ 2 * NumBytes \in Nat \ {0}
BY Widths DEF Whole, Bits

(* The number of a bitmap.                                                 *)
LEMMA BigIs ==
    ASSUME NEW a \in Bitmaps
    PROVE  Big(a) = Value(a) /\ Big(a) \in Nat /\ Big(a) < Pow2[NumBits]
<1>1. Join(Pieces(a, DigitBits)) = a
  BY BitmapPieces, Widths, JoinPieces
<1>2. Value(a) \in Nat /\ Value(a) < Pow2[NumBits]
  BY Widths, ValueBelow
<1> QED
  BY <1>1, <1>2 DEF Big, Hex

(* The bytes of a bitmap, and its digits.                                  *)
LEMMA BytesRead ==
    ASSUME NEW a \in Bitmaps
    PROVE  FromBytes(RawString(a)) = a
<1>1. Pieces(a, ByteBits) \in CutUp({0, 1}, NumBytes, ByteBits)
  BY BitmapPieces, Widths, PiecesIs
<1>2. Len(Pieces(a, ByteBits)) = NumBytes
  BY <1>1, Widths, IntervalSeq DEF CutUp
<1>3. Join(Pieces(a, ByteBits)) = a
  BY BitmapPieces, Widths, JoinPieces
<1> QED
  BY <1>2, <1>3 DEF FromBytes, RawString

(* Two digits are a byte.                                                  *)
LEMMA DigitPair ==
    ASSUME NEW D \in Nat \ {0}, NEW u \in Bits(D), NEW w \in Bits(D)
    PROVE  /\ u \o w \in Bits(2 * D)
           /\ \A j \in 1..D : (u \o w)[j] = u[j] /\ (u \o w)[D + j] = w[j]
<1>1. u \in Seq({0, 1}) /\ w \in Seq({0, 1}) /\ Len(u) = D /\ Len(w) = D
  BY IntervalSeq DEF Bits
<1>2. /\ u \o w \in Seq({0, 1}) /\ Len(u \o w) = D + D
      /\ \A i \in 1..(D + D) : (u \o w)[i] = IF i <= D THEN u[i] ELSE w[i - D]
  BY <1>1, ConcatProperties
<1> DEFINE c == u \o w
<1> HIDE DEF c
<1>3. DOMAIN c = 1..(2 * D) /\ c \in Seq({0, 1})
  BY <1>2, LenProperties DEF c
<1>4. c \in Bits(2 * D)
  BY <1>3 DEF Bits
<1>5. ASSUME NEW j \in 1..D PROVE c[j] = u[j] /\ c[D + j] = w[j]
  <2>1. j \in 1..(D + D) /\ j <= D /\ D + j \in 1..(D + D) /\ ~(D + j <= D) /\ (D + j) - D = j
    OBVIOUS
  <2> QED
    BY <1>2, <2>1 DEF c
<1> QED
  BY <1>4, <1>5 DEF c

(* FromHex makes the bitmap of its digits.                                 *)
LEMMA FromHexIs ==
    ASSUME NEW p \in CutUp({0, 1}, 2 * NumBytes, DigitBits)
    PROVE  FromHex(p) \in Bitmaps /\ SamePieces(FromHex(p), p, 2 * NumBytes, DigitBits)
<1> DEFINE M == NumBytes
           D == DigitBits
           data == [i \in 1..M |-> p[2 * i - 1] \o p[2 * i]]
<1>1. M \in Nat \ {0} /\ D \in Nat \ {0} /\ ByteBits = 2 * D
  BY Widths
<1>2. p \in [1..(2 * M) -> [1..D -> {0, 1}]]
  BY DEF CutUp
<1>3. Len(p) = 2 * M
  <2>1. 2 * M \in Nat
    BY <1>1
  <2> QED
    BY <1>2, <2>1, IntervalSeq
<1>4. (2 * M) % 2 = 0 /\ (2 * M) \div 2 = M
  BY <1>1
<1>5. FromHex(p) = FromBytes(data)
  <2>1. ~(Len(p) % 2 = 1) /\ Len(p) \div 2 = M
    BY <1>3, <1>4
  <2> HIDE DEF M
  <2> QED
    BY <2>1 DEF FromHex
<1> HIDE DEF M, D
<1>6. ASSUME NEW i \in 1..M
      PROVE  /\ data[i] \in Bits(2 * D)
             /\ \A j \in 1..D : data[i][j] = p[2 * i - 1][j] /\ data[i][D + j] = p[2 * i][j]
  <2>1. 2 * i - 1 \in 1..(2 * M) /\ 2 * i \in 1..(2 * M)
    BY <1>1
  <2>2. p[2 * i - 1] \in Bits(D) /\ p[2 * i] \in Bits(D)
    BY <1>2, <2>1 DEF Bits
  <2> DEFINE u == p[2 * i - 1]
             w == p[2 * i]
  <2>3. data[i] = u \o w
    OBVIOUS
  <2>4. u \in Bits(D) /\ w \in Bits(D)
    BY <2>2
  <2> HIDE DEF data, u, w
  <2>5. u \o w \in Bits(2 * D) /\ \A j \in 1..D : (u \o w)[j] = u[j] /\ (u \o w)[D + j] = w[j]
    BY <1>1, <2>4, DigitPair
  <2> QED
    BY <2>3, <2>5 DEF u, w
<1>7. data \in CutUp({0, 1}, M, ByteBits)
  <2>1. data = [i \in 1..M |-> data[i]]
    OBVIOUS
  <2> HIDE DEF data
  <2> QED
    BY <1>1, <1>6, <2>1 DEF CutUp, Bits
<1> HIDE DEF data
<1>8. Len(data) = M
  BY <1>1, <1>7, IntervalSeq DEF CutUp
<1>9. FromHex(p) = Join(data)
  BY <1>5, <1>8 DEF FromBytes, M
<1>10. Join(data) \in Whole({0, 1}, M, ByteBits) /\ SamePieces(Join(data), data, M, ByteBits)
  BY <1>1, <1>7, Widths, JoinIs
<1>11. ASSUME NEW d \in 1..(2 * M), NEW j \in 1..D PROVE Join(data)[Place(d, D, j)] = p[d][j]
  <2>1. PICK i \in 1..M : d = 2 * i - 1 \/ d = 2 * i
    <3>1. (d + 1) \div 2 \in 1..M /\ (d = 2 * ((d + 1) \div 2) - 1 \/ d = 2 * ((d + 1) \div 2))
      BY <1>1
    <3> QED
      BY <3>1
  <2>2. j \in 1..ByteBits /\ D + j \in 1..ByteBits
    BY <1>1
  <2>3. (2 * i - 1 - 1) * D = (i - 1) * (2 * D) /\ (2 * i - 1) * D = (i - 1) * (2 * D) + D
    BY <1>1
  <2>4. (i - 1) * (2 * D) \in Int
    BY <1>1
  <2>5. Place(2 * i - 1, D, j) = Place(i, ByteBits, j)
    BY <1>1, <2>3 DEF Place
  <2>6. Place(2 * i, D, j) = Place(i, ByteBits, D + j)
    BY <1>1, <2>3, <2>4 DEF Place
  <2>7. /\ Join(data)[Place(i, ByteBits, j)] = data[i][j]
        /\ Join(data)[Place(i, ByteBits, D + j)] = data[i][D + j]
    BY <1>10, <2>2 DEF SamePieces
  <2>8. CASE d = 2 * i - 1
    BY <1>6, <2>5, <2>7, <2>8
  <2>9. CASE d = 2 * i
    BY <1>6, <2>6, <2>7, <2>9
  <2> QED
    BY <2>1, <2>8, <2>9
<1> QED
  BY <1>9, <1>10, <1>11, BitmapPieces DEF SamePieces, M, D

(* Hex writes the digits of a bitmap.                                      *)
LEMMA HexIs ==
    ASSUME NEW a \in Bitmaps
    PROVE  Hex(a) \in CutUp({0, 1}, 2 * NumBytes, DigitBits) /\ SamePieces(a, Hex(a), 2 * NumBytes, DigitBits)
BY BitmapPieces, Widths, PiecesIs DEF Hex

(* Bitmaps with the same digits are the same.                              *)
LEMMA HexDecides ==
    ASSUME NEW a \in Bitmaps, NEW b \in Bitmaps, NEW p,
           SamePieces(a, p, 2 * NumBytes, DigitBits), SamePieces(b, p, 2 * NumBytes, DigitBits)
    PROVE  a = b
<1>1. 2 * NumBytes \in Nat
  BY BitmapPieces
<1> QED
  BY <1>1, BitmapPieces, Widths, PiecesDecide

(* FromHex reads what Hex writes.                                          *)
LEMMA HexRead ==
    ASSUME NEW a \in Bitmaps
    PROVE  FromHex(Hex(a)) = a
BY HexIs, FromHexIs, HexDecides

(* The digit 0.                                                            *)
LEMMA ZeroQuotient ==
    ASSUME NEW x \in Nat, NEW p \in Nat \ {0}, x < p
    PROVE  x \div p = 0
<1>1. x = 0 * p + x /\ x \in 0..(p - 1)
  OBVIOUS
<1> QED
  BY <1>1, QuotientIs

(* ZeroDigit has no bit set.                                               *)
LEMMA ZeroDigitIs == ZeroDigit = [j \in 1..DigitBits |-> 0]
<1>1. ASSUME NEW j \in 1..DigitBits PROVE (0 \div Pow2[DigitBits - j]) % 2 = 0
  <2>1. DigitBits - j \in Nat
    BY Widths
  <2>2. Pow2[DigitBits - j] \in Nat \ {0}
    BY <2>1, Powers
  <2>3. 0 \div Pow2[DigitBits - j] = 0
    BY <2>2, ZeroQuotient
  <2> QED
    BY <2>3
<1> QED
  BY <1>1 DEF ZeroDigit, BitsOf

(* Digits h, with zeros in front up to the length of a bitmap.             *)
Padded(h, L) ==
    [i \in 1..(2 * NumBytes) |-> IF i <= 2 * NumBytes - L THEN ZeroDigit ELSE h[i - (2 * NumBytes - L)]]

(* FromShortHex makes the bitmap of the digits, with zeros before them.    *)
LEMMA ShortHexIs ==
    ASSUME NEW L \in 1..(2 * NumBytes), NEW h \in CutUp({0, 1}, L, DigitBits)
    PROVE  /\ FromShortHex(h) \in Bitmaps
           /\ SamePieces(FromShortHex(h), Padded(h, L), 2 * NumBytes, DigitBits)
<1> DEFINE M == 2 * NumBytes
           T == [1..DigitBits -> {0, 1}]
           z == [i \in 1..(M - L) |-> ZeroDigit]
           p == z \o h
<1>1. M \in Nat /\ L \in Nat /\ M - L \in Nat
  BY Widths
<1>2. ZeroDigit \in T
  BY ZeroDigitIs
<1>3. h \in Seq(T) /\ Len(h) = L
  BY <1>1, IntervalSeq DEF CutUp
<1> HIDE DEF M, T
<1>4. z \in [1..(M - L) -> T]
  BY <1>2
<1>5. z \in Seq(T) /\ Len(z) = M - L /\ \A i \in 1..(M - L) : z[i] = ZeroDigit
  <2>1. \A i \in 1..(M - L) : z[i] = ZeroDigit
    OBVIOUS
  <2> HIDE DEF z
  <2> QED
    BY <1>1, <1>4, <2>1, IntervalSeq
<1> HIDE DEF z
<1>6. /\ p \in Seq(T) /\ Len(p) = M
      /\ \A i \in 1..M : p[i] = IF i <= M - L THEN z[i] ELSE h[i - (M - L)]
  <2>1. Len(z) + Len(h) = M
    BY <1>1, <1>3, <1>5
  <2>2. /\ z \o h \in Seq(T) /\ Len(z \o h) = Len(z) + Len(h)
        /\ \A i \in 1..(Len(z) + Len(h)) : (z \o h)[i] = IF i <= Len(z) THEN z[i] ELSE h[i - Len(z)]
    BY <1>3, <1>5, ConcatProperties
  <2> QED
    BY <1>5, <2>1, <2>2
<1>7. FromShortHex(h) = FromHex(p)
  <2>1. ~(Len(h) > M)
    BY <1>1, <1>3
  <2> QED
    BY <1>3, <2>1 DEF FromShortHex, M, z
<1> HIDE DEF p
<1>8. DOMAIN p = 1..M
  BY <1>6, LenProperties
<1>9. p \in [1..M -> T]
  BY <1>6, <1>8
<1>10. p = Padded(h, L)
  <2>1. ASSUME NEW i \in 1..M PROVE p[i] = IF i <= M - L THEN ZeroDigit ELSE h[i - (M - L)]
    BY <1>1, <1>5, <1>6
  <2> QED
    BY <1>9, <2>1 DEF Padded, M
<1> QED
  BY <1>7, <1>9, <1>10, FromHexIs DEF CutUp, M, T

(* HexSimplified leaves out digits that FromShortHex puts back.            *)
LEMMA ShortHexRead ==
    ASSUME NEW a \in Bitmaps
    PROVE  FromShortHex(HexSimplified(a)) = a
<1> DEFINE M == 2 * NumBytes
           T == [1..DigitBits -> {0, 1}]
           x == Hex(a)
           other == {i \in 1..M : x[i] # ZeroDigit}
           first == CHOOSE i \in other : \A j \in other : i <= j
<1>1. M \in Nat \ {0}
  BY BitmapPieces
<1>2. x \in CutUp({0, 1}, M, DigitBits) /\ SamePieces(a, x, M, DigitBits)
  BY HexIs
<1>3. x \in [1..M -> T]
  BY <1>2 DEF CutUp
<1>4. HexSimplified(a) = IF other = {} THEN <<ZeroDigit>> ELSE SubSeq(x, first, M)
  BY DEF HexSimplified
<1> HIDE DEF x
<1>5. ASSUME NEW L \in 1..M, NEW h \in CutUp({0, 1}, L, DigitBits), Padded(h, L) = x
      PROVE  FromShortHex(h) = a
  <2>1. FromShortHex(h) \in Bitmaps /\ SamePieces(FromShortHex(h), Padded(h, L), M, DigitBits)
    BY ShortHexIs
  <2> QED
    BY <1>2, <1>5, <2>1, HexDecides
<1>6. CASE other = {}
  <2> DEFINE h == <<ZeroDigit>>
  <2>1. h = [i \in 1..1 |-> ZeroDigit]
    OBVIOUS
  <2>2. ZeroDigit \in T
    BY ZeroDigitIs
  <2>3. h \in CutUp({0, 1}, 1, DigitBits)
    BY <2>1, <2>2 DEF CutUp
  <2>4. h[1] = ZeroDigit
    OBVIOUS
  <2> HIDE DEF h
  <2>5. ASSUME NEW i \in 1..M PROVE x[i] = IF i <= M - 1 THEN ZeroDigit ELSE h[i - (M - 1)]
    <3>1. x[i] = ZeroDigit
      BY <1>6
    <3>2. ~(i <= M - 1) => i - (M - 1) = 1
      BY <1>1
    <3> QED
      BY <2>4, <3>1, <3>2
  <2>6. Padded(h, 1) = x
    BY <1>3, <2>5 DEF Padded
  <2>7. 1 \in 1..M
    BY <1>1
  <2>8. FromShortHex(h) = a
    BY <1>5, <2>3, <2>6, <2>7
  <2> QED
    BY <1>4, <1>6, <2>8 DEF h
<1>7. CASE other # {}
  <2>1. \E i \in other : \A j \in other : i <= j
    <3>1. other \subseteq Nat
      BY <1>1
    <3> HIDE DEF other
    <3> QED
      BY <1>7, <3>1, SmallestElement
  <2>2. first \in other /\ \A j \in other : first <= j
    <3> HIDE DEF other
    <3> QED
      BY <2>1
  <2> HIDE DEF first
  <2> DEFINE h == SubSeq(x, first, M)
             L == M - first + 1
  <2>3. first \in 1..M /\ L \in 1..M /\ M - L = first - 1
    BY <1>1, <2>2
  <2>4. ASSUME NEW i \in 1..(first - 1) PROVE x[i] = ZeroDigit
    <3>1. i \in 1..M /\ ~(first <= i)
      BY <1>1, <2>3
    <3>2. i \notin other
      BY <2>2, <3>1
    <3> QED
      BY <3>1, <3>2
  <2>5. /\ h \in Seq(T) /\ Len(h) = IF first <= M THEN M - first + 1 ELSE 0
        /\ \A i \in 1..(M - first + 1) : h[i] = x[first + i - 1]
    <3>1. first \in Int /\ M \in Int /\ \A i \in first..M : i \in 1..M
      BY <1>1, <2>3
    <3>2. \A i \in first..M : x[i] \in T
      BY <1>3, <3>1
    <3> HIDE DEF M, T
    <3> QED
      BY <3>1, <3>2, SubSeqProperties
  <2> HIDE DEF h
  <2>6. Len(h) = L
    BY <2>3, <2>5
  <2>7. h \in CutUp({0, 1}, L, DigitBits)
    <3>1. DOMAIN h = 1..L
      BY <2>5, <2>6, LenProperties
    <3>2. h \in Seq(T) /\ Len(h) = L
      BY <2>5, <2>6
    <3> HIDE DEF L, T, h
    <3>3. h \in [1..L -> T]
      <4>1. \A i \in 1..L : h[i] \in T
        BY <3>2, ElementOfSeq
      <4>2. h = [i \in DOMAIN h |-> h[i]]
        BY <3>2
      <4> QED
        BY <3>1, <4>1, <4>2
    <3> QED
      BY <3>3 DEF CutUp, T
  <2>8. ASSUME NEW i \in 1..M PROVE x[i] = IF i <= M - L THEN ZeroDigit ELSE h[i - (M - L)]
    <3>1. CASE i <= first - 1
      BY <2>3, <2>4, <3>1
    <3>2. CASE ~(i <= first - 1)
      <4>1. i - (first - 1) \in 1..(M - first + 1) /\ first + (i - (first - 1)) - 1 = i
        BY <1>1, <2>3, <3>2
      <4>2. h[i - (first - 1)] = x[i]
        BY <2>5, <4>1
      <4> QED
        BY <2>3, <3>2, <4>2
    <3> QED
      BY <3>1, <3>2
  <2> HIDE DEF L
  <2>9. Padded(h, L) = x
    BY <1>3, <2>8 DEF Padded
  <2>10. FromShortHex(h) = a
    BY <1>5, <2>3, <2>7, <2>9
  <2> QED
    BY <1>4, <1>7, <2>10 DEF h
<1> QED
  BY <1>6, <1>7

(* The powers of 2 keep the order.                                         *)
LEMMA PowersGrow ==
    ASSUME NEW m \in Nat, NEW n \in Nat, m <= n
    PROVE  Pow2[m] <= Pow2[n]
<1> DEFINE G == {d \in Nat : Pow2[m] <= Pow2[m + d]}
<1>1. 0 \in G
  <2>1. m + 0 = m /\ Pow2[m] \in Nat
    BY Powers
  <2> QED
    BY <2>1
<1>2. ASSUME NEW d \in Nat, d \in G PROVE d + 1 \in G
  <2>1. m + d \in Nat /\ m + (d + 1) = (m + d) + 1
    OBVIOUS
  <2>2. Pow2[(m + d) + 1] = 2 * Pow2[m + d] /\ Pow2[m + d] \in Nat /\ Pow2[m] \in Nat
    BY <2>1, Powers
  <2>3. Pow2[m] <= Pow2[m + d]
    BY <1>2
  <2> QED
    BY <2>1, <2>2, <2>3
<1>3. \A d \in Nat : d \in G
  <2> HIDE DEF G
  <2> QED
    BY <1>1, <1>2, EveryNumber
<1>4. n - m \in Nat /\ m + (n - m) = n
  OBVIOUS
<1>5. n - m \in G
  BY <1>3, <1>4
<1> QED
  BY <1>4, <1>5

(* The digits of a number, without leading zeros, are found.               *)
Fits(x, l) == x < Pow2[DigitBits * l] /\ (l = 1 \/ x >= Pow2[DigitBits * (l - 1)])

(* A number that fits is written with at most as many digits as a bitmap   *)
(* has.                                                                    *)
LEMMA TextLength ==
    ASSUME NEW x \in Nat, x < Pow2[NumBits]
    PROVE  \E L \in 1..(2 * NumBytes) :
              x < Pow2[DigitBits * L] /\ Text16(x) = Pieces(BitsOf(x, L * DigitBits), DigitBits)
<1> DEFINE M == 2 * NumBytes
           len == CHOOSE l \in 1..(M + 1) : Fits(x, l)
           T == {l \in Nat : l >= 1 /\ x < Pow2[DigitBits * l]}
<1>1. M \in Nat /\ M >= 1 /\ DigitBits * M = NumBits
  BY Widths
<1>2. M \in T
  BY <1>1
<1>3. PICK l \in T : \A k \in T : l <= k
  <2>1. T # {} /\ T \subseteq Nat
    BY <1>2
  <2> HIDE DEF T
  <2> QED
    BY <2>1, SmallestElement
<1>4. l \in 1..(M + 1)
  <2>1. l <= M /\ l \in Nat /\ l >= 1
    BY <1>2, <1>3
  <2> QED
    BY <1>1, <2>1
<1>5. Fits(x, l)
  <2>1. CASE l = 1
    BY <1>3, <2>1 DEF Fits
  <2>2. CASE l # 1
    <3>1. l - 1 \in Nat /\ l - 1 >= 1 /\ ~(l <= l - 1)
      BY <1>4, <2>2
    <3>2. l - 1 \notin T
      BY <1>3, <3>1
    <3>3. ~(x < Pow2[DigitBits * (l - 1)])
      BY <3>1, <3>2
    <3>4. DigitBits * (l - 1) \in Nat
      BY <3>1, Widths
    <3>5. Pow2[DigitBits * (l - 1)] \in Nat
      BY <3>4, Powers
    <3>6. x >= Pow2[DigitBits * (l - 1)]
      BY <3>3, <3>5
    <3> QED
      BY <1>3, <3>6 DEF Fits
  <2> QED
    BY <2>1, <2>2
<1>6. len \in 1..(M + 1) /\ Fits(x, len)
  BY <1>4, <1>5
<1>7. Text16(x) = Pieces(BitsOf(x, len * DigitBits), DigitBits)
  BY DEF Text16, Fits
<1> HIDE DEF len, M
<1>8. len # M + 1
  <2> SUFFICES ASSUME len = M + 1 PROVE FALSE
    OBVIOUS
  <2>1. len # 1 /\ len - 1 = M
    BY <1>1
  <2>2. x >= Pow2[DigitBits * M]
    BY <1>6, <2>1 DEF Fits
  <2>3. Pow2[NumBits] \in Nat
    BY Widths, Powers
  <2> QED
    BY <1>1, <2>2, <2>3
<1>9. len \in 1..M /\ x < Pow2[DigitBits * len]
  BY <1>1, <1>6, <1>8 DEF Fits
<1> QED
  BY <1>7, <1>9 DEF M

(* FromBigP makes the bitmap of a number that fits.                        *)
LEMMA FromBigIs ==
    ASSUME NEW x \in Nat, x < Pow2[NumBits]
    PROVE  /\ FromBigP(x) = BitsOf(x, NumBits) /\ FromBigP(x) \in Bitmaps
           /\ Value(FromBigP(x)) = x
<1> DEFINE M == 2 * NumBytes
           D == DigitBits
           N == NumBits
           b == BitsOf(x, N)
<1>1. M \in Nat /\ D \in Nat \ {0} /\ N = M * D /\ N \in Nat
  BY Widths
<1>2. b \in Bitmaps /\ Value(b) = x
  BY Widths, ValueOfBits
<1>3. PICK L \in 1..M : x < Pow2[D * L] /\ Text16(x) = Pieces(BitsOf(x, L * D), D)
  BY TextLength
<1> DEFINE s == BitsOf(x, L * D)
           h == Pieces(s, D)
           r == FromShortHex(h)
<1>4. L * D \in Nat /\ L \in Nat \ {0} /\ D * L = L * D
  BY <1>1
<1>5. s \in Bits(L * D)
  BY <1>3, <1>4, ValueOfBits
<1>6. h \in CutUp({0, 1}, L, D) /\ SamePieces(s, h, L, D)
  <2>1. s \in Whole({0, 1}, L, D)
    BY <1>5 DEF Bits, Whole
  <2> HIDE DEF s, D
  <2> QED
    BY <1>1, <1>4, <2>1, PiecesIs
<1>7. r \in Bitmaps /\ SamePieces(r, Padded(h, L), M, D)
  BY <1>6, ShortHexIs
<1>8. SamePieces(b, Padded(h, L), M, D)
  <2> SUFFICES ASSUME NEW i \in 1..M, NEW j \in 1..D PROVE b[Place(i, D, j)] = Padded(h, L)[i][j]
    BY DEF SamePieces
  <2> DEFINE e == N - Place(i, D, j)
             c == (i - 1) * D
  <2>1. Place(i, D, j) \in 1..N /\ c \in Nat /\ c + D = i * D /\ Place(i, D, j) = c + j
    <3> HIDE DEF M, D, N
    <3> QED
      BY <1>1, PlaceIs
  <2>2. b[Place(i, D, j)] = (x \div Pow2[e]) % 2
    BY <2>1 DEF BitsOf
  <2>3. Padded(h, L)[i] = IF i <= M - L THEN ZeroDigit ELSE h[i - (M - L)]
    BY DEF Padded
  <2> HIDE DEF s, h, b, r
  <2>4. CASE i <= M - L
    <3>1. i * D <= (M - L) * D
      <4>1. i \in Nat /\ M - L \in Nat /\ D \in Nat
        BY <1>1, <2>4
      <4> HIDE DEF M, D
      <4> QED
        BY <2>4, <4>1, TimesMonotone
    <3>2. (M - L) * D = M * D - L * D /\ M * D \in Nat
      <4> HIDE DEF M, D
      <4> QED
        BY <1>1, <1>4
    <3>3. e \in Nat /\ L * D <= e
      <4> HIDE DEF M, D, N, c
      <4> QED
        BY <1>1, <1>4, <2>1, <3>1, <3>2
    <3>4. Pow2[L * D] <= Pow2[e]
      BY <1>4, <3>3, PowersGrow
    <3>5. x < Pow2[e] /\ Pow2[e] \in Nat \ {0}
      <4>1. Pow2[e] \in Nat \ {0} /\ Pow2[L * D] \in Nat
        BY <1>4, <3>3, Powers
      <4>2. x < Pow2[L * D]
        BY <1>3, <1>4
      <4> HIDE DEF e
      <4> QED
        BY <3>4, <4>1, <4>2
    <3>6. x \div Pow2[e] = 0
      BY <3>5, ZeroQuotient
    <3>7. b[Place(i, D, j)] = 0
      BY <2>2, <3>6
    <3>8. ZeroDigit[j] = 0
      BY ZeroDigitIs
    <3> QED
      BY <2>3, <2>4, <3>7, <3>8
  <2>5. CASE ~(i <= M - L)
    <3> DEFINE i2 == i - (M - L)
    <3>1. i2 \in 1..L
      BY <1>1, <2>5
    <3>2. Place(i2, D, j) \in 1..(L * D) /\ Place(i2, D, j) = (i2 - 1) * D + j
      <4> HIDE DEF M, D, N, i2
      <4> QED
        BY <1>1, <1>4, <3>1, PlaceIs
    <3>3. (i2 - 1) * D = c - (M * D - L * D) /\ M * D \in Nat
      <4>1. i \in Int /\ M \in Int /\ L \in Int /\ D \in Int
        BY <1>1
      <4> HIDE DEF M, D
      <4> QED
        BY <4>1
    <3>4. L * D - Place(i2, D, j) = e
      <4>1. j \in Int
        OBVIOUS
      <4> HIDE DEF M, D, N, c, i2
      <4> QED
        BY <1>1, <1>4, <2>1, <3>2, <3>3, <4>1
    <3>5. s[Place(i2, D, j)] = (x \div Pow2[L * D - Place(i2, D, j)]) % 2
      BY <3>2 DEF s, BitsOf
    <3>6. h[i2][j] = s[Place(i2, D, j)]
      BY <1>6, <3>1 DEF SamePieces
    <3> QED
      BY <2>2, <2>3, <2>5, <3>4, <3>5, <3>6
  <2> QED
    BY <2>4, <2>5
<1>9. r = b
  BY <1>2, <1>7, <1>8, HexDecides
<1>10. FromBigP(x) = OrPanic(r)
  BY <1>3 DEF FromBigP, FromShortHexP
<1>11. OrPanic(r) = r
  BY <1>7, BitmapIsNoPanic DEF OrPanic
<1> QED
  BY <1>2, <1>9, <1>10, <1>11

(* The distance is what is left of the union without the intersection.     *)
LEMMA XorIsDifference ==
    ASSUME NEW a \in Bitmaps, NEW b \in Bitmaps
    PROVE  Xor(a, b) = Sub(Or(a, b), And(a, b))
<1>1. /\ Xor(a, b) \in Bits(NumBits) /\ And(a, b) \in Bits(NumBits) /\ Or(a, b) \in Bits(NumBits)
      /\ NumBits \in Nat
  BY BitwiseTypes, Widths
<1>2. \A k \in 1..NumBits : And(a, b)[k] + Xor(a, b)[k] = Or(a, b)[k]
  BY BitwiseTypes
<1>3. Value(And(a, b)) + Value(Xor(a, b)) = Value(Or(a, b))
  BY <1>1, <1>2, SumOfBits
<1>4. Value(And(a, b)) \in Nat /\ Value(Xor(a, b)) \in Nat /\ Value(Or(a, b)) \in Nat
  BY <1>1, ValueBelow
<1>5. Value(Or(a, b)) >= Value(And(a, b)) /\ Value(Or(a, b)) - Value(And(a, b)) = Value(Xor(a, b))
  BY <1>3, <1>4
<1>6. Sub(Or(a, b), And(a, b)) = BitsOf(Value(Xor(a, b)), NumBits)
  BY <1>5, BitwiseTypes, SubIs
<1> QED
  BY <1>1, <1>6, BitsOfValue

(* What a shares with b and what it shares with the complement of b is a.  *)
LEMMA SplitByMask ==
    ASSUME NEW a \in Bitmaps, NEW b \in Bitmaps
    PROVE  Add(And(a, b), And(a, Not(b))) = a
<1>0. Not(b) \in Bitmaps
  BY NotIs
<1>1. /\ And(a, Not(b)) \in Bitmaps /\ And(a, b) \in Bitmaps
      /\ And(a, Not(b)) \in Bits(NumBits) /\ And(a, b) \in Bits(NumBits) /\ a \in Bits(NumBits)
      /\ NumBits \in Nat
  BY <1>0, BitwiseTypes, Widths
<1>2. \A k \in 1..NumBits : And(a, b)[k] + And(a, Not(b))[k] = a[k]
  <2> SUFFICES ASSUME NEW k \in 1..NumBits PROVE And(a, b)[k] + And(a, Not(b))[k] = a[k]
    OBVIOUS
  <2>1. Not(b)[k] = 1 - b[k] /\ a[k] \in {0, 1} /\ b[k] \in {0, 1}
    BY BitwiseTypes DEF Not
  <2>2. And(a, b)[k] = IF a[k] = 1 /\ b[k] = 1 THEN 1 ELSE 0
    BY BitwiseTypes
  <2>3. And(a, Not(b))[k] = IF a[k] = 1 /\ Not(b)[k] = 1 THEN 1 ELSE 0
    BY <1>0, BitwiseTypes
  <2> QED
    BY <2>1, <2>2, <2>3
<1>3. Value(And(a, b)) + Value(And(a, Not(b))) = Value(a)
  BY <1>1, <1>2, SumOfBits
<1>4. Value(a) < Pow2[NumBits]
  BY <1>1, ValueBelow
<1>5. Add(And(a, b), And(a, Not(b))) = BitsOf(Value(a), NumBits)
  BY <1>1, <1>3, <1>4, AddIs
<1> QED
  BY <1>1, <1>5, BitsOfValue

(* A bitmap is closer to b than to its complement if it has b's first bit. *)
LEMMA CloserThanComplement ==
    ASSUME NEW a \in Bitmaps, NEW b \in Bitmaps
    PROVE  Closer(a, b, Not(b)) <=> PrefixLen(Xor(a, b)) > 0
<1>0. Not(b) \in Bitmaps /\ NumBits \in Nat \ {0}
  BY NotIs, Widths
<1> DEFINE s == Xor(b, a)
           t == Xor(Not(b), a)
<1>1. s \in Bitmaps /\ t \in Bitmaps /\ s \in Bits(NumBits) /\ t \in Bits(NumBits)
  BY <1>0, BitwiseTypes, Widths
<1>2. /\ a[1] \in {0, 1} /\ b[1] \in {0, 1} /\ Not(b)[1] = 1 - b[1]
      /\ s[1] = (IF b[1] = a[1] THEN 0 ELSE 1)
      /\ t[1] = (IF Not(b)[1] = a[1] THEN 0 ELSE 1)
  <2>1. 1 \in 1..NumBits
    BY <1>0
  <2>2. a[1] \in {0, 1} /\ b[1] \in {0, 1} /\ s[1] = (IF b[1] = a[1] THEN 0 ELSE 1)
    BY <2>1, BitwiseTypes
  <2>3. t[1] = (IF Not(b)[1] = a[1] THEN 0 ELSE 1)
    BY <1>0, <2>1, BitwiseTypes
  <2>4. Not(b)[1] = 1 - b[1]
    BY <2>1 DEF Not
  <2> QED
    BY <2>2, <2>3, <2>4
<1>3. Closer(a, b, Not(b)) <=> Value(s) < Value(t)
  BY <1>1, CmpIs DEF Closer
<1>4. PrefixLen(Xor(a, b)) > 0 <=> a[1] = b[1]
  <2>1. 1 \in 0..NumBits
    BY <1>0
  <2>2. PrefixLen(Xor(a, b)) >= 1 <=> \A k \in 1..1 : a[k] = b[k]
    BY <2>1, CommonPrefix
  <2>3. PrefixLen(Xor(a, b)) \in Int
    BY BitwiseTypes, PrefixLenIs, <1>0
  <2>4. (\A k \in 1..1 : a[k] = b[k]) <=> a[1] = b[1]
    OBVIOUS
  <2> QED
    BY <2>2, <2>3, <2>4
<1>5. Value(s) \in Nat /\ Value(t) \in Nat
  BY <1>0, <1>1, ValueBelow
<1> HIDE DEF s, t
<1>6. CASE a[1] = b[1]
  <2>1. s[1] < t[1] /\ 1 \in 1..NumBits /\ \A k \in 1..(1 - 1) : s[k] = t[k]
    BY <1>0, <1>2, <1>6
  <2>2. Value(s) < Value(t)
    BY <1>0, <1>1, <2>1, LessAt
  <2> QED
    BY <1>3, <1>4, <1>6, <2>2
<1>7. CASE a[1] # b[1]
  <2>1. t[1] < s[1] /\ 1 \in 1..NumBits /\ \A k \in 1..(1 - 1) : t[k] = s[k]
    BY <1>0, <1>2, <1>7
  <2>2. Value(t) < Value(s)
    BY <1>0, <1>1, <2>1, LessAt
  <2> QED
    BY <1>3, <1>4, <1>5, <1>7, <2>2
<1> QED
  BY <1>6, <1>7

(* Bitmap.Cmp, Add, Sub, Xor, And, Not and Closer compute on the numbers   *)
(* that the bitmaps stand for, and Add and Sub panic exactly when the      *)
(* result does not fit.                                                    *)
THEOREM EveryArithmetic ==
    ASSUME NEW a \in Bitmaps, NEW b \in Bitmaps
    PROVE  ArithmeticOf(a, b)
<1>1. Big(a) = Value(a) /\ Big(b) = Value(b)
  BY BigIs
<1>2. (Cmp(a, b) < 0) = (Big(a) < Big(b))
  BY <1>1, CmpIs
<1>3. (Cmp(a, b) = 0) = (a = b)
  BY CmpIs
<1>4. Add(a, b) = IF Big(a) + Big(b) < Pow2[NumBits] THEN BitsOf(Big(a) + Big(b), NumBits) ELSE Panic
  BY <1>1, AddIs
<1>5. Sub(a, b) = IF Big(a) >= Big(b) THEN BitsOf(Big(a) - Big(b), NumBits) ELSE Panic
  BY <1>1, SubIs
<1>6. Closer(a, b, Not(b)) = (PrefixLen(Xor(a, b)) > 0)
  BY CloserThanComplement DEF Closer
<1> QED
  BY <1>2, <1>3, <1>4, <1>5, <1>6, XorIsDifference, SplitByMask DEF ArithmeticOf

(* A number is in the block of u exactly if u is its quotient.             *)
LEMMA BlockIs ==
    ASSUME NEW u \in Nat, NEW v \in Nat, NEW P \in Nat \ {0}, NEW x \in Nat,
           v * P <= x, x < (v + 1) * P
    PROVE  (u * P <= x /\ x <= u * P + P - 1) <=> v = u
<1>0. u * P \in Nat /\ v * P \in Nat /\ (v + 1) * P = v * P + P /\ (u + 1) * P = u * P + P
  BY TimesTwo
<1>1. ASSUME v < u PROVE v * P + P <= u * P
  <2>1. v + 1 \in Nat /\ v + 1 <= u
    BY <1>1
  <2> QED
    BY <1>0, <2>1, TimesMonotone
<1>2. ASSUME u < v PROVE u * P + P <= v * P
  <2>1. u + 1 \in Nat /\ u + 1 <= v
    BY <1>2
  <2> QED
    BY <1>0, <2>1, TimesMonotone
<1> DEFINE up == u * P
           vp == v * P
<1>3. up \in Nat /\ vp \in Nat /\ vp <= x /\ x < vp + P
  BY <1>0
<1>4. (v < u => vp + P <= up) /\ (u < v => up + P <= vp) /\ (u = v => up = vp)
  BY <1>1, <1>2
<1> HIDE DEF up, vp
<1>5. (up <= x /\ x <= up + P - 1) <=> v = u
  BY <1>3, <1>4
<1> QED
  BY <1>5 DEF up

(* The bitmaps between two suffixes of a are those that share its prefix.  *)
LEMMA SuffixBlock ==
    ASSUME NEW a \in Bitmaps, NEW n \in 0..NumBits, NEW x \in Bitmaps
    PROVE  LET block == [start |-> Suffix(a, n, 0), end |-> Suffix(a, n, 1)]
           IN  /\ Big(block.end) - Big(block.start) = Pow2[n] - 1
               /\ RangeContains(block, x) <=> \A k \in 1..(NumBits - n) : a[k] = x[k]
<1> DEFINE i == NumBits - n
           s == Suffix(a, n, 0)
           t == Suffix(a, n, 1)
           u == ValueUpTo(a)[i]
           P == Pow2[n]
<1>0. NumBits \in Nat /\ i \in 0..NumBits /\ n \in Nat /\ NumBits - i = n /\ P \in Nat \ {0}
  BY Widths, Powers
<1>1. a \in Bits(NumBits) /\ x \in Bits(NumBits)
  BY Widths
<1>2. s \in Bits(NumBits) /\ t \in Bits(NumBits) /\ s \in Bitmaps /\ t \in Bitmaps
  <2>1. \A k \in 1..NumBits : a[k] \in {0, 1}
    BY <1>1 DEF Bits
  <2>2. s \in [1..NumBits -> {0, 1}]
    BY <2>1 DEF Suffix
  <2>3. t \in [1..NumBits -> {0, 1}]
    BY <2>1 DEF Suffix
  <2> QED
    BY <2>2, <2>3, Widths DEF Bits
<1>3. \A k \in 1..NumBits :
        /\ k <= i => s[k] = a[k] /\ t[k] = a[k]
        /\ k > i => s[k] = 0 /\ t[k] = 1
  BY <1>0 DEF Suffix
<1> HIDE DEF s, t
<1>4. ValueUpTo(s)[i] = u /\ ValueUpTo(t)[i] = u
  <2>1. \A k \in 1..i : s[k] = a[k] /\ t[k] = a[k]
    <3> HIDE DEF i
    <3> SUFFICES ASSUME NEW k \in 1..i PROVE s[k] = a[k] /\ t[k] = a[k]
      OBVIOUS
    <3>1. k \in 1..NumBits /\ k <= i
      BY <1>0
    <3> QED
      BY <3>1, <1>3
  <2> QED
    BY <1>0, <1>1, <1>2, <2>1, SameFirstBits
<1>5. Value(s) = u * P
  <2>1. \A k \in (i + 1)..NumBits : s[k] = 0
    <3> HIDE DEF i
    <3> SUFFICES ASSUME NEW k \in (i + 1)..NumBits PROVE s[k] = 0
      OBVIOUS
    <3>1. k \in 1..NumBits /\ k > i
      BY <1>0
    <3> QED
      BY <3>1, <1>3
  <2>2. Value(s) = ValueUpTo(s)[i] * Pow2[NumBits - i] + (IF 0 = 1 THEN Pow2[NumBits - i] - 1 ELSE 0)
    <3> HIDE DEF i
    <3> QED
      BY <1>0, <1>2, <2>1, LastBits
  <2>3. Value(s) = u * P + 0
    BY <1>0, <1>4, <2>2
  <2>4. Value(s) \in Nat
    BY <1>0, <1>2, ValueBelow
  <2>5. u \in Nat
    BY <1>0, <1>1, ValueSteps
  <2>6. u * P \in Int
    BY <1>0, <2>5, TimesTwo
  <2> HIDE DEF u, P
  <2> QED
    BY <2>3, <2>6
<1>6. Value(t) = u * P + P - 1
  <2>1. \A k \in (i + 1)..NumBits : t[k] = 1
    <3> HIDE DEF i
    <3> SUFFICES ASSUME NEW k \in (i + 1)..NumBits PROVE t[k] = 1
      OBVIOUS
    <3>1. k \in 1..NumBits /\ k > i
      BY <1>0
    <3> QED
      BY <3>1, <1>3
  <2>2. Value(t) = ValueUpTo(t)[i] * Pow2[NumBits - i] + (IF 1 = 1 THEN Pow2[NumBits - i] - 1 ELSE 0)
    <3> HIDE DEF i
    <3> QED
      BY <1>0, <1>2, <2>1, LastBits
  <2>3. Value(t) = u * P + (P - 1)
    BY <1>0, <1>4, <2>2
  <2>5. u \in Nat
    BY <1>0, <1>1, ValueSteps
  <2>6. u * P \in Int
    BY <1>0, <2>5, TimesTwo
  <2> HIDE DEF u, P
  <2> QED
    BY <1>0, <2>3, <2>6
<1> DEFINE v == ValueUpTo(x)[i]
<1>7. u \in Nat /\ v \in Nat /\ Value(x) \in Nat
  BY <1>0, <1>1, ValueSteps, ValueBelow
<1>8. v * P <= Value(x) /\ Value(x) < (v + 1) * P
  <2>1. NumBits \in i..NumBits
    BY <1>0
  <2>2. /\ ValueUpTo(x)[i] * Pow2[NumBits - i] <= ValueUpTo(x)[NumBits]
        /\ ValueUpTo(x)[NumBits] < (ValueUpTo(x)[i] + 1) * Pow2[NumBits - i]
    <3> HIDE DEF i
    <3> QED
      BY <1>0, <1>1, <2>1, UpperBits
  <2>3. Value(x) = ValueUpTo(x)[NumBits]
    BY <1>0, <1>1, ValueSteps
  <2> QED
    BY <1>0, <2>2, <2>3
<1>9. v = u <=> \A k \in 1..i : a[k] = x[k]
  BY <1>0, <1>1, SameFirstBits
<1> HIDE DEF u, v, P, i
<1>10. (Value(s) <= Value(x) /\ Value(x) <= Value(t)) <=> v = u
  BY <1>0, <1>5, <1>6, <1>7, <1>8, BlockIs
<1>11. Cmp(s, x) <= 0 <=> Value(s) <= Value(x)
  BY <1>2, <1>5, <1>7, CmpIs, <1>0, ValueBelow
<1>12. Cmp(t, x) >= 0 <=> Value(x) <= Value(t)
  BY <1>2, <1>7, CmpIs, <1>0, ValueBelow
<1>13. RangeContains([start |-> s, end |-> t], x) <=> \A k \in 1..i : a[k] = x[k]
  BY <1>9, <1>10, <1>11, <1>12 DEF RangeContains
<1>14. Big(t) - Big(s) = P - 1
  <2>1. Big(t) = Value(t) /\ Big(s) = Value(s) /\ Value(s) \in Nat
    BY <1>2, BigIs
  <2>2. Value(t) = Value(s) + P - 1
    BY <1>5, <1>6
  <2> QED
    BY <1>0, <2>1, <2>2
<1> QED
  BY <1>13, <1>14 DEF s, t, i, P

(* Every form Bitmap writes, RawString, Hex, HexShort and Big, is read     *)
(* back; Prefix, Suffix and PrefixLen agree on what a shared prefix is.    *)
THEOREM EveryForm ==
    ASSUME NEW a \in Bitmaps, NEW b \in Bitmaps
    PROVE  FormsOf(a, b)
<1>0. NumBits \in Nat \ {0} /\ a \in Bits(NumBits)
  BY Widths
<1>1. FromBigP(Big(a)) = a
  <2>1. Big(a) = Value(a) /\ Big(a) \in Nat /\ Big(a) < Pow2[NumBits]
    BY BigIs
  <2>2. FromBigP(Big(a)) = BitsOf(Big(a), NumBits)
    BY <2>1, FromBigIs
  <2> QED
    BY <1>0, <2>1, <2>2, BitsOfValue
<1>2. ASSUME NEW n \in 0..NumBits
      PROVE  LET block == [start |-> Suffix(a, n, 0), end |-> Suffix(a, n, 1)]
             IN  /\ RangeContains(block, a)
                 /\ Big(block.end) - Big(block.start) = Pow2[n] - 1
                 /\ RangeContains(block, b) = (PrefixLen(Xor(a, b)) >= NumBits - n)
                 /\ PrefixLen(Prefix(a, n, 0)) >= n
  <2> DEFINE block == [start |-> Suffix(a, n, 0), end |-> Suffix(a, n, 1)]
             len == NumBits - n
  <2>1. RangeContains(block, a) /\ Big(block.end) - Big(block.start) = Pow2[n] - 1
    BY SuffixBlock
  <2>2. RangeContains(block, b) <=> \A k \in 1..len : a[k] = b[k]
    BY SuffixBlock
  <2>3. len \in 0..NumBits
    BY <1>0
  <2>4. PrefixLen(Xor(a, b)) >= len <=> \A k \in 1..len : a[k] = b[k]
    <3> HIDE DEF len
    <3> QED
      BY <2>3, CommonPrefix
  <2>5. RangeContains(block, b) = (PrefixLen(Xor(a, b)) >= len)
    BY <2>2, <2>4 DEF RangeContains
  <2>6. Prefix(a, n, 0) \in Bitmaps /\ \A k \in 1..n : Prefix(a, n, 0)[k] = 0
    <3>1. \A k \in 1..NumBits : a[k] \in {0, 1}
      BY <1>0 DEF Bits
    <3>2. Prefix(a, n, 0) \in [1..NumBits -> {0, 1}]
      BY <3>1 DEF Prefix
    <3>3. \A k \in 1..n : Prefix(a, n, 0)[k] = 0
      BY <1>0 DEF Prefix
    <3> QED
      BY <3>2, <3>3 DEF Bitmaps
  <2>7. PrefixLen(Prefix(a, n, 0)) >= n
    BY <2>6, PrefixLenIs
  <2> QED
    BY <2>1, <2>5, <2>7
<1>3. \A n \in 0..(NumBits - 1) : Set(a, n, Get(a, n)) = a
  <2> SUFFICES ASSUME NEW n \in 0..(NumBits - 1) PROVE Set(a, n, Get(a, n)) = a
    OBVIOUS
  <2>1. a = [k \in 1..NumBits |-> a[k]]
    BY <1>0 DEF Bits
  <2>2. [a EXCEPT ![n + 1] = a[n + 1]] = a
    BY <2>1
  <2> QED
    BY <2>2 DEF Set, Get
<1> QED
  BY <1>1, <1>2, <1>3, BytesRead, HexRead, ShortHexRead DEF FormsOf

(* The intervals of a long range start within it, one after the other.     *)
LEMMA IntervalStarts ==
    ASSUME NEW a \in Bitmaps, NEW b \in Bitmaps, NEW num \in Nat \ {0},
           Big(b) - Big(a) >= num * num
    PROVE  LET start(n) == intervalStart([start |-> a, end |-> b], n, num)
           IN  /\ start(1) = Big(a)
               /\ \A n \in 1..num : start(n) \in Nat /\ start(n) < Big(b)
               /\ \A n \in 1..num : n < num => start(n) < start(n + 1)
<1> DEFINE A == Big(a)
           B == Big(b)
           len == B - A
           size == len \div num
           rem == len % num
           skew(n) == (rem * (n - 1)) % num
           start(n) == A + size * (n - 1) + skew(n)
<1>1. \A n : intervalStart([start |-> a, end |-> b], n, num) = start(n)
  BY DEF intervalStart
<1>2. A \in Nat /\ B \in Nat
  BY BigIs
<1>3. num * num \in Nat
  OBVIOUS
<1> HIDE DEF A, B
<1>4. len \in Nat /\ len >= num * num
  BY <1>2, <1>3 DEF A, B
<1> HIDE DEF len
<1>5. len = num * size + rem /\ rem \in 0..(num - 1) /\ size \in Nat
  BY <1>4, DivMod
<1> HIDE DEF size, rem
<1>6. size >= num
  <2> SUFFICES ASSUME size < num PROVE FALSE
    BY <1>5
  <2>1. size + 1 \in Nat /\ size + 1 <= num
    BY <1>5
  <2>2. (size + 1) * num <= num * num
    BY <2>1, TimesMonotone
  <2>3. (size + 1) * num = size * num + num /\ size * num = num * size /\ size * num \in Int
    BY <1>5
  <2> QED
    BY <1>3, <1>4, <1>5, <2>2, <2>3
<1>7. \A n \in 1..num : skew(n) \in 0..(num - 1)
  <2> SUFFICES ASSUME NEW n \in 1..num PROVE (rem * (n - 1)) % num \in 0..(num - 1)
    OBVIOUS
  <2>1. n - 1 \in Nat /\ rem \in Nat
    BY <1>5
  <2>2. rem * (n - 1) \in Nat
    BY <2>1
  <2> QED
    BY <2>2, DivMod
<1>8. skew(1) = 0 /\ size * (1 - 1) = 0
  <2>1. rem * (1 - 1) = 0 /\ size * (1 - 1) = 0
    BY <1>5
  <2>2. 0 % num = 0
    OBVIOUS
  <2> QED
    BY <2>1, <2>2
<1> HIDE DEF skew
<1>9. start(1) = A
  BY <1>2, <1>8
<1>10. \A n \in 1..num : start(n) \in Nat /\ start(n) < B
  <2> SUFFICES ASSUME NEW n \in 1..num PROVE start(n) \in Nat /\ start(n) < B
    OBVIOUS
  <2> DEFINE m == n - 1
             last == num - 1
  <2>1. m \in Nat /\ last \in Nat /\ m <= last /\ last + 1 = num
    OBVIOUS
  <2> HIDE DEF m, last
  <2>2. m * size <= last * size /\ m * size \in Nat
    BY <1>5, <2>1, TimesMonotone
  <2>3. (last + 1) * size = last * size + size /\ last * size \in Int /\ num * size = (last + 1) * size
    BY <1>5, <2>1, TimesTwo
  <2>4. size * m = m * size
    BY <1>5, <2>1
  <2>5. skew(n) \in Nat /\ skew(n) < num
    BY <1>7
  <2>6. m * size + skew(n) < len
    BY <1>4, <1>5, <1>6, <2>1, <2>2, <2>3, <2>5
  <2>7. len = B - A
    BY DEF len
  <2>8. start(n) = A + m * size + skew(n)
    BY <2>4 DEF m
  <2> HIDE DEF start
  <2> QED
    BY <1>2, <2>2, <2>5, <2>6, <2>7, <2>8
<1>11. \A n \in 1..num : n < num => start(n) < start(n + 1)
  <2> SUFFICES ASSUME NEW n \in 1..num, n < num PROVE start(n) < start(n + 1)
    OBVIOUS
  <2>1. n \in Nat /\ n - 1 \in Nat /\ n + 1 \in 1..num
    OBVIOUS
  <2>2. skew(n) \in 0..(num - 1) /\ skew(n + 1) \in 0..(num - 1)
    BY <1>7, <2>1
  <2>3. size * (n + 1 - 1) = size * (n - 1) + size /\ size * (n - 1) \in Int
    BY <1>5, <2>1
  <2> DEFINE at == size * (n - 1)
             next == size * (n + 1 - 1)
  <2>4. next = at + size /\ at \in Int
    BY <2>3
  <2>5. start(n) = A + at + skew(n) /\ start(n + 1) = A + next + skew(n + 1)
    OBVIOUS
  <2> HIDE DEF at, next, start
  <2> QED
    BY <1>2, <1>5, <1>6, <2>2, <2>4, <2>5
<1> HIDE DEF start
<1> QED
  BY <1>1, <1>9, <1>10, <1>11 DEF A, B

(* Range.IntervalP splits a range into num intervals without gap or        *)
(* overlap, however many they are, as long as the range has room for the   *)
(* remainder in each of them.                                              *)
THEOREM EveryRangeDivides ==
    ASSUME NEW a \in Bitmaps, NEW b \in Bitmaps, NEW num \in Nat \ {0}
    PROVE  Divides([start |-> a, end |-> b], num)
<1> DEFINE r == [start |-> a, end |-> b]
           start(n) == intervalStart(r, n, num)
<1> SUFFICES ASSUME Big(b) - Big(a) >= num * num
             PROVE  /\ IntervalP(r, 1, num).start = r.start
                    /\ IntervalP(r, num, num).end = r.end
                    /\ \A n \in 1..num :
                        /\ Cmp(IntervalP(r, n, num).start, IntervalP(r, n, num).end) <= 0
                        /\ n < num => IntervalP(r, n + 1, num).start = Add(IntervalP(r, n, num).end, One)
  BY DEF Divides
<1>1. /\ Big(a) = Value(a) /\ Big(a) \in Nat /\ Big(a) < Pow2[NumBits]
      /\ Big(b) = Value(b) /\ Big(b) \in Nat /\ Big(b) < Pow2[NumBits]
  BY BigIs
<1>2. Pow2[NumBits] \in Nat /\ NumBits \in Nat /\ a \in Bits(NumBits) /\ b \in Bits(NumBits)
  BY Widths, Powers
<1>3. /\ start(1) = Big(a)
      /\ \A n \in 1..num : start(n) \in Nat /\ start(n) < Big(b)
      /\ \A n \in 1..num : n < num => start(n) < start(n + 1)
  BY IntervalStarts
<1>4. FromBigP(Big(a)) = a /\ FromBigP(Big(b)) = b
  BY <1>1, <1>2, FromBigIs, BitsOfValue
<1>5. \A n \in 1..num :
        IntervalP(r, n, num) = [start |-> FromBigP(start(n)),
                                end   |-> IF n < num THEN FromBigP(start(n + 1) - 1) ELSE b]
  <2> SUFFICES ASSUME NEW n \in 1..num
               PROVE  IntervalP(r, n, num) = [start |-> FromBigP(start(n)),
                                              end   |-> IF n < num THEN FromBigP(start(n + 1) - 1) ELSE b]
    OBVIOUS
  <2>1. ~ (num < 1 \/ n < 1 \/ n > num)
    OBVIOUS
  <2> QED
    BY <2>1, <1>4 DEF IntervalP
<1> HIDE DEF start, r
<1>6. \A n \in 1..num :
        /\ FromBigP(start(n)) \in Bitmaps /\ Value(FromBigP(start(n))) = start(n)
        /\ FromBigP(start(n)) = BitsOf(start(n), NumBits)
  <2> SUFFICES ASSUME NEW n \in 1..num
               PROVE  /\ FromBigP(start(n)) \in Bitmaps /\ Value(FromBigP(start(n))) = start(n)
                      /\ FromBigP(start(n)) = BitsOf(start(n), NumBits)
    OBVIOUS
  <2>1. start(n) \in Nat /\ start(n) < Pow2[NumBits]
    BY <1>1, <1>2, <1>3
  <2> QED
    BY <2>1, FromBigIs
<1>7. IntervalP(r, 1, num).start = a
  <2>1. 1 \in 1..num
    OBVIOUS
  <2> QED
    BY <1>3, <1>4, <1>5, <2>1
<1>8. IntervalP(r, num, num).end = b
  <2>1. num \in 1..num /\ ~ (num < num)
    OBVIOUS
  <2> QED
    BY <1>5, <2>1
<1>9. ASSUME NEW n \in 1..num
      PROVE  /\ Cmp(IntervalP(r, n, num).start, IntervalP(r, n, num).end) <= 0
             /\ n < num => IntervalP(r, n + 1, num).start = Add(IntervalP(r, n, num).end, One)
  <2> DEFINE s == FromBigP(start(n))
             e == FromBigP(start(n + 1) - 1)
  <2>1. /\ IntervalP(r, n, num).start = s
        /\ IntervalP(r, n, num).end = (IF n < num THEN e ELSE b)
    BY <1>5
  <2>2. s \in Bitmaps /\ Value(s) = start(n) /\ start(n) \in Nat
    BY <1>3, <1>6
  <2>3. CASE n < num
    <3>1. n + 1 \in 1..num
      BY <2>3
    <3>2. start(n + 1) \in Nat /\ start(n + 1) < Big(b) /\ start(n) < start(n + 1)
      BY <1>3, <2>3, <3>1
    <3>3. start(n + 1) - 1 \in Nat /\ start(n + 1) - 1 < Pow2[NumBits]
      BY <1>1, <1>2, <2>2, <3>2
    <3>4. e \in Bitmaps /\ Value(e) = start(n + 1) - 1
      BY <3>3, FromBigIs
    <3>5. Cmp(s, e) <= 0
      BY <2>2, <3>2, <3>4, CmpIs
    <3>6. Add(e, One) = BitsOf(start(n + 1), NumBits)
      <4>1. Value(e) + Value(One) = start(n + 1) /\ start(n + 1) < Pow2[NumBits]
        BY <1>1, <1>2, <3>2, <3>4, OneIs
      <4> QED
        BY <3>4, <4>1, OneIs, AddIs
    <3>7. IntervalP(r, n + 1, num).start = BitsOf(start(n + 1), NumBits)
      BY <1>5, <1>6, <3>1
    <3> QED
      BY <2>1, <2>3, <3>5, <3>6, <3>7
  <2>4. CASE ~ (n < num)
    <3>1. Value(s) < Value(b) /\ Value(b) \in Nat
      BY <1>1, <1>3, <2>2
    <3>2. Cmp(s, b) <= 0
      BY <2>2, <3>1, CmpIs
    <3> QED
      BY <2>1, <2>4, <3>2
  <2> QED
    BY <2>3, <2>4
<1> QED
  BY <1>7, <1>8, <1>9 DEF r

(* Adding the divisor leaves the rest.                                     *)
LEMMA SameRest ==
    ASSUME NEW m \in Nat, NEW d \in Nat \ {0}
    PROVE  (m + d) % d = m % d
<1>1. m = d * (m \div d) + (m % d) /\ m % d \in 0..(d - 1) /\ m \div d \in Nat
  BY DivMod
<1> DEFINE q == m \div d
           over == m % d
<1>2. q \in Nat /\ over \in 0..(d - 1) /\ m = d * q + over
  BY <1>1
<1> HIDE DEF q, over
<1>3. (q + 1) * d = q * d + d /\ q * d = d * q /\ q * d \in Int
  BY <1>2, TimesTwo
<1>4. m + d = (q + 1) * d + over /\ q + 1 \in Nat /\ m + d \in Nat
  BY <1>2, <1>3
<1>5. (m + d) % d = over
  BY <1>2, <1>4, QuotientIs
<1> QED
  BY <1>5 DEF over

(* The loop of RandInRangeP, as any function that solves it.               *)
IsReduction(f, diff) ==
    f = [x \in Bitmaps |-> IF Cmp(x, diff) > 0 THEN f[Sub(x, diff)] ELSE x]

(* The loop of RandInRangeP ends: the rest of a division solves it.        *)
LEMMA ReductionExists ==
    ASSUME NEW diff \in Bitmaps, Value(diff) > 0
    PROVE  \E f : IsReduction(f, diff)
<1> DEFINE d == Value(diff)
           left(x) == BitsOf(((Value(x) - 1) % d) + 1, NumBits)
           F == [x \in Bitmaps |-> IF Value(x) = 0 THEN x ELSE left(x)]
<1>1. d \in Nat \ {0} /\ NumBits \in Nat /\ \A x \in Bitmaps : x \in Bits(NumBits)
  BY Widths, ValueBelow
<1>2. \A x \in Bitmaps : F[x] = IF Cmp(x, diff) > 0 THEN F[Sub(x, diff)] ELSE x
  <2> SUFFICES ASSUME NEW x \in Bitmaps
               PROVE  F[x] = IF Cmp(x, diff) > 0 THEN F[Sub(x, diff)] ELSE x
    OBVIOUS
  <2>1. Value(x) \in Nat /\ Value(x) < Pow2[NumBits] /\ Pow2[NumBits] \in Nat
    BY <1>1, ValueBelow, Powers
  <2>2. Cmp(x, diff) > 0 <=> Value(x) > d
    BY CmpIs
  <2>3. CASE Value(x) > d
    <3> DEFINE y == Sub(x, diff)
               m == Value(x) - d
    <3>1. m \in Nat \ {0} /\ m < Pow2[NumBits] /\ Value(x) >= Value(diff)
      BY <1>1, <2>1, <2>3
    <3>2. y = BitsOf(m, NumBits)
      BY <3>1, SubIs
    <3>3. y \in Bitmaps /\ Value(y) = m
      BY <1>1, <3>1, <3>2, ValueOfBits, Widths
    <3> HIDE DEF y
    <3>4. F[y] = left(y) /\ F[x] = left(x)
      BY <1>1, <2>1, <2>3, <3>1, <3>3
    <3>5. (Value(x) - 1) % d = (m - 1) % d
      <4>1. m - 1 \in Nat /\ (m - 1) + d = Value(x) - 1
        BY <1>1, <2>1, <3>1
      <4>2. ((m - 1) + d) % d = (m - 1) % d
        <5> HIDE DEF m, d
        <5> QED
          BY <1>1, <4>1, SameRest
      <4> QED
        BY <4>1, <4>2
    <3>6. left(y) = left(x)
      <4>1. (Value(y) - 1) % d = (Value(x) - 1) % d
        BY <3>3, <3>5
      <4> QED
        BY <4>1
    <3> HIDE DEF F, left
    <3> QED
      BY <2>2, <2>3, <3>4, <3>6 DEF y
  <2>4. CASE ~ (Value(x) > d)
    <3>1. F[x] = x
      <4>1. CASE Value(x) = 0
        BY <4>1
      <4>2. CASE Value(x) # 0
        <5>1. Value(x) - 1 \in 0..(d - 1)
          BY <1>1, <2>1, <2>4, <4>2
        <5>2. (Value(x) - 1) % d = Value(x) - 1
          <6>1. Value(x) - 1 = 0 * d + (Value(x) - 1) /\ Value(x) - 1 \in Nat /\ 0 \in Nat
            BY <1>1, <5>1
          <6> QED
            BY <1>1, <5>1, <6>1, QuotientIs
        <5>3. ((Value(x) - 1) % d) + 1 = Value(x)
          BY <2>1, <5>2
        <5>4. left(x) = x
          BY <1>1, <5>3, BitsOfValue
        <5> QED
          BY <4>2, <5>4
      <4> QED
        BY <4>1, <4>2
    <3> QED
      BY <2>2, <2>4, <3>1
  <2> QED
    BY <2>3, <2>4
<1>3. F = [x \in Bitmaps |-> F[x]]
  OBVIOUS
<1> HIDE DEF F
<1>4. F = [x \in Bitmaps |-> IF Cmp(x, diff) > 0 THEN F[Sub(x, diff)] ELSE x]
  BY <1>2, <1>3
<1> QED
  BY <1>4 DEF IsReduction

(* What the loop of RandInRangeP leaves is at most diff.                   *)
LEMMA ReductionIs ==
    ASSUME NEW diff \in Bitmaps, Value(diff) > 0, NEW f, IsReduction(f, diff)
    PROVE  \A x \in Bitmaps : f[x] \in Bitmaps /\ Value(f[x]) <= Value(diff)
<1> DEFINE d == Value(diff)
           good(x) == f[x] \in Bitmaps /\ Value(f[x]) <= d
           bad == {v \in Nat : \E x \in Bitmaps : Value(x) = v /\ ~ good(x)}
<1>1. d \in Nat \ {0} /\ NumBits \in Nat /\ \A x \in Bitmaps : x \in Bits(NumBits)
  BY Widths, ValueBelow
<1>2. \A x \in Bitmaps : f[x] = IF Cmp(x, diff) > 0 THEN f[Sub(x, diff)] ELSE x
  BY DEF IsReduction
<1>3. \A x \in Bitmaps : Value(x) \in Nat /\ Value(x) < Pow2[NumBits]
  BY <1>1, ValueBelow
<1>4. bad = {}
  <2> SUFFICES ASSUME bad # {} PROVE FALSE
    OBVIOUS
  <2>0. bad \subseteq Nat
    OBVIOUS
  <2>1. PICK v \in bad : \A w \in bad : v <= w
    <3> HIDE DEF bad
    <3> QED
      BY <2>0, SmallestElement
  <2>2. PICK x \in Bitmaps : Value(x) = v /\ ~ good(x)
    BY <2>1
  <2>3. Cmp(x, diff) > 0 <=> Value(x) > d
    BY CmpIs
  <2>4. CASE Value(x) > d
    <3> DEFINE y == Sub(x, diff)
               m == Value(x) - d
    <3>1. m \in Nat /\ m < Value(x) /\ m < Pow2[NumBits] /\ Value(x) >= Value(diff)
      <4>1. Value(x) \in Nat /\ Value(x) < Pow2[NumBits] /\ Pow2[NumBits] \in Nat
        BY <1>1, <1>3, Powers
      <4> QED
        BY <4>1, <1>1, <2>4
    <3>2. y = BitsOf(m, NumBits)
      BY <3>1, SubIs
    <3>3. y \in Bitmaps /\ Value(y) = m
      BY <1>1, <3>1, <3>2, ValueOfBits, Widths
    <3>4. f[x] = f[y]
      BY <1>2, <2>3, <2>4
    <3> HIDE DEF y
    <3>5. ~ good(y)
      BY <2>2, <3>4
    <3>6. m \in bad
      BY <3>1, <3>3, <3>5
    <3> HIDE DEF bad
    <3> QED
      BY <2>0, <2>1, <2>2, <3>1, <3>6
  <2>5. CASE ~ (Value(x) > d)
    <3>1. f[x] = x
      BY <1>2, <2>3, <2>5
    <3> QED
      BY <1>1, <1>3, <2>2, <2>5, <3>1
  <2> QED
    BY <2>4, <2>5
<1> SUFFICES ASSUME NEW x \in Bitmaps PROVE good(x)
  OBVIOUS
<1>5. Value(x) \notin bad
  BY <1>4
<1> QED
  BY <1>3, <1>5

(* RandInRangeP stays within its range, whatever Rand gave it.             *)
THEOREM EveryRandomWithin ==
    ASSUME NEW a \in Bitmaps, NEW b \in Bitmaps
    PROVE  RandomWithin(a, b)
<1> SUFFICES ASSUME Cmp(a, b) < 0, NEW r \in Bitmaps
             PROVE  RangeContains([start |-> a, end |-> b], RandInRangeP(r, a, b))
  BY DEF RandomWithin
<1> DEFINE diff == Sub(b, a)
           d == Value(b) - Value(a)
<1>1. NumBits \in Nat /\ \A x \in Bitmaps : x \in Bits(NumBits)
  BY Widths
<1>2. /\ Value(a) \in Nat /\ Value(b) \in Nat /\ Value(b) < Pow2[NumBits] /\ Value(a) < Value(b)
      /\ Pow2[NumBits] \in Nat
  BY <1>1, ValueBelow, CmpIs, Powers
<1>3. d \in Nat /\ d > 0 /\ d < Pow2[NumBits] /\ Value(b) >= Value(a)
  BY <1>2
<1>4. diff = BitsOf(d, NumBits)
  BY <1>3, SubIs
<1>5. diff \in Bitmaps /\ Value(diff) = d
  BY <1>1, <1>3, <1>4, ValueOfBits, Widths
<1> DEFINE loop == CHOOSE f : IsReduction(f, diff)
<1>6. RandInRangeP(r, a, b) = IF diff = Panic THEN Panic ELSE Add(loop[r], a)
  BY DEF RandInRangeP, IsReduction
<1> HIDE DEF diff
<1>7. IsReduction(loop, diff)
  BY <1>3, <1>5, ReductionExists
<1> HIDE DEF loop
<1>8. loop[r] \in Bitmaps /\ Value(loop[r]) <= d
  BY <1>3, <1>5, <1>7, ReductionIs
<1> DEFINE y == loop[r]
           z == RandInRangeP(r, a, b)
<1>9. z = Add(y, a)
  BY <1>5, <1>6, BitmapIsNoPanic
<1>10. y \in Bitmaps /\ Value(y) \in Nat /\ Value(y) <= d
  BY <1>1, <1>8, ValueBelow
<1> HIDE DEF y, z
<1>11. Value(y) + Value(a) \in Nat /\ Value(y) + Value(a) <= Value(b) /\ Value(y) + Value(a) < Pow2[NumBits]
  BY <1>2, <1>10
<1>12. z = BitsOf(Value(y) + Value(a), NumBits)
  BY <1>9, <1>10, <1>11, AddIs
<1>13. z \in Bitmaps /\ Value(z) = Value(y) + Value(a)
  BY <1>1, <1>11, <1>12, ValueOfBits, Widths
<1>14. Cmp(a, z) <= 0 /\ Cmp(b, z) >= 0
  <2>1. Value(a) <= Value(z) /\ Value(z) <= Value(b) /\ Value(z) \in Nat
    BY <1>2, <1>10, <1>11, <1>13
  <2>2. Cmp(a, z) \in {-1, 0, 1} /\ (Cmp(a, z) > 0 <=> Value(a) > Value(z))
    BY <1>13, CmpIs
  <2>3. Cmp(b, z) \in {-1, 0, 1} /\ (Cmp(b, z) < 0 <=> Value(b) < Value(z))
    BY <1>13, CmpIs
  <2> QED
    BY <1>2, <2>1, <2>2, <2>3
<1> QED
  BY <1>14 DEF RangeContains, z

-----------------------------------------------------------------------------
(* The run.                                                                *)

(* An input is what the action of its kind takes it from.                  *)
CodecInv ==
    /\ Is("request") => input.x \in Requests
    /\ Is("response") => input.x \in Responses
    /\ Is("error") => input.x \in Errors
    /\ Is("claim") => input.x \in Helpers \cup SignedHelpers
    /\ Is("json") => input.x \in JSONClaims
    /\ Is("signing") => input.x \in Signers \X Checks
    /\ Is("v1") => input.x \in LegacyClaims \X V1Signings \X V1Signings
    /\ Is("origin") => input.x \in Configurations \X Origins
    /\ Is("outcome") => input.x \in {"GET", "OPTIONS"} \X Outcomes
    /\ Is("form") => input.x \in FieldLists \X Forms \X {{}, {"z"}} \X BOOLEAN
    /\ Is("bitmaps") => input.x \in Bitmaps \X Bitmaps
    /\ Is("url") => input.x \in Urls
    /\ Is("address") => input.x \in [1..AddressLength -> 0..(AddressBase - 1)] \X Chains
    /\ Is("writing") => input.x \in Writings \X Chains

(* Inputs are taken from their sets.                                       *)
LEMMA CodecInvHolds == CodecSpec => []CodecInv
<1>1. CodecInit => CodecInv
  BY DEF CodecInit, CodecInv, Is, NoInput
<1>2. CodecInv /\ [CodecNext]_input => CodecInv'
  <2> SUFFICES ASSUME CodecInv, [CodecNext]_input PROVE CodecInv'
    OBVIOUS
  <2>1. CASE UNCHANGED input
    BY <2>1 DEF CodecInv, Is
  <2>2. CASE Back
    BY <2>2 DEF Back, CodecInv, Is, NoInput
  <2>3. CASE ARequest
    BY <2>3 DEF ARequest, Give, CodecInv, Is
  <2>4. CASE AResponse
    BY <2>4 DEF AResponse, Give, CodecInv, Is
  <2>5. CASE AnError
    BY <2>5 DEF AnError, Give, CodecInv, Is
  <2>6. CASE AClaim
    BY <2>6 DEF AClaim, Give, CodecInv, Is
  <2>7. CASE AJSONClaim
    BY <2>7 DEF AJSONClaim, Give, CodecInv, Is
  <2>8. CASE ASigning
    BY <2>8 DEF ASigning, Give, CodecInv, Is
  <2>9. CASE AV1Signing
    BY <2>9 DEF AV1Signing, Give, CodecInv, Is
  <2>10. CASE AnOrigin
    BY <2>10 DEF AnOrigin, Give, CodecInv, Is
  <2>11. CASE AnOutcome
    BY <2>11 DEF AnOutcome, Give, CodecInv, Is
  <2>12. CASE AForm
    BY <2>12 DEF AForm, Give, CodecInv, Is
  <2>13. CASE AUrl
    BY <2>13 DEF AUrl, Give, CodecInv, Is
  <2>14. CASE AnAddress
    BY <2>14 DEF AnAddress, Give, CodecInv, Is
  <2>15. CASE AWriting
    BY <2>15 DEF AWriting, Give, CodecInv, Is
  <2>16. CASE TwoBitmaps
    BY <2>16 DEF TwoBitmaps, Give, CodecInv, Is
  <2> QED
    BY <2>1, <2>2, <2>3, <2>4, <2>5, <2>6, <2>7, <2>8, <2>9, <2>10, <2>11, <2>12, <2>13,
       <2>14, <2>15, <2>16
      DEF CodecNext
<1> QED
  BY <1>1, <1>2, PTL DEF CodecSpec

(* Every message that the run sends arrives, whatever the number of bytes  *)
(* in ids and the base of the compact form: Request, Response and Error    *)
(* read what they write.                                                   *)
THEOREM MessagesArriveAlways == CodecSpec => []MessagesArrive
<1>1. CodecInv => MessagesArrive
  BY EveryMessageArrives, RunRequests, RunResponses, RunErrors DEF CodecInv, MessagesArrive
<1> QED
  BY <1>1, CodecInvHolds, PTL

(* Every claim and support of the run is loaded as CompileValue wrote it,  *)
(* and every JSON claim migrated as its version says, for every length of  *)
(* ids and signatures.                                                     *)
THEOREM ClaimsReloadAlways == CodecSpec => []ClaimsReload
<1>1. \A h \in Helpers \cup SignedHelpers : Reloads(h)
  <2>1. \A h \in HelperType(RunTexts, RunBytes) : Reloads(h)
    BY EveryHelperReloads
  <2> QED
    BY <2>1, RunHelpers, RunSignedHelpers
<1>2. \A json \in JSONClaims : Migrates(json)
  <2>1. PICK F : JSONClaims \subseteq JSONClaim(F)
    BY RunJSON
  <2>2. \A json \in JSONClaim(F) : Migrates(json)
    BY EveryJSONClaimMigrates
  <2> QED
    BY <2>1, <2>2
<1>3. CodecInv => ClaimsReload
  BY <1>1, <1>2 DEF CodecInv, ClaimsReload
<1> QED
  BY <1>3, CodecInvHolds, PTL

(* Every signature of the run is valid for nothing but what was signed,    *)
(* and for that if it has all its bytes, through CompileValue,             *)
(* DecodeClaimBytes and ValidateClaimSignature, for every length of ids    *)
(* and signatures.                                                         *)
THEOREM SignaturesBindAlways == CodecSpec => []SignaturesBind
<1>1. Signers \subseteq Signings /\ Checks \subseteq Signings /\ V1Signings \subseteq Signings
  BY DEF Signers, Checks, V1Signings
<1>2. \A s, t \in Signings : Binds(s, t)
  <2>1. \A s, t \in Signing(RunTexts, RunBytes, 1) : Binds(s, t)
    BY EverySignatureBinds
  <2> QED
    BY <2>1, RunSignings
<1>3. \A l \in LegacyClaims : \A s, t \in Signings : BindsV1(l, s, t)
  <2>1. PICK F : LegacyClaims \subseteq LegacyStream(F)
    BY RunLegacy
  <2>2. \A l \in LegacyStream(F) : \A s, t \in Signing(RunTexts, RunBytes, 1) : BindsV1(l, s, t)
    BY EveryV1SignatureBinds
  <2> QED
    BY <2>1, <2>2, RunSignings
<1>4. CodecInv => SignaturesBind
  <2> SUFFICES ASSUME CodecInv PROVE SignaturesBind
    OBVIOUS
  <2>1. ASSUME Is("signing") PROVE Binds(input.x[1], input.x[2])
    <3>1. input.x \in Signers \X Checks
      BY <2>1 DEF CodecInv
    <3>2. input.x[1] \in Signings /\ input.x[2] \in Signings
      BY <1>1, <3>1
    <3> QED
      BY <1>2, <3>2
  <2>2. ASSUME Is("v1") PROVE BindsV1(input.x[1], input.x[2], input.x[3])
    <3>1. input.x \in LegacyClaims \X V1Signings \X V1Signings
      BY <2>2 DEF CodecInv
    <3>2. input.x[1] \in LegacyClaims /\ input.x[2] \in Signings /\ input.x[3] \in Signings
      BY <1>1, <3>1
    <3> QED
      BY <1>3, <3>2
  <2> QED
    BY <2>1, <2>2 DEF SignaturesBind
<1> QED
  BY <1>4, CodecInvHolds, PTL

(* ServeHTTP and FormValues keep their promises for every request of the   *)
(* run, whatever texts are numbers and whichever origins are local.        *)
THEOREM RequestsServedAlways == CodecSpec => []RequestsServed
<1>1. CodecInv => RequestsServed
  <2> SUFFICES ASSUME CodecInv PROVE RequestsServed
    OBVIOUS
  <2>1. ASSUME Is("origin") PROVE OriginAllowed(input.x[1], input.x[2])
    <3>1. input.x \in Configurations \X Origins
      BY <2>1 DEF CodecInv
    <3>2. input.x[1] \in Configuration(RunNames)
      BY <3>1, RunConfigurations
    <3>3. "Origin" \in RunNames
      BY DEF RunNames
    <3> QED
      BY <3>2, <3>3, EveryOriginAllowed
  <2>2. ASSUME Is("outcome") PROVE FailureTold(input.x[1], input.x[2])
    <3>1. input.x \in {"GET", "OPTIONS"} \X Outcomes
      BY <2>2 DEF CodecInv
    <3>2. input.x[2] \in Outcome
      BY <3>1, RunOutcomes
    <3> QED
      BY <3>2, EveryFailureTold
  <2>3. ASSUME Is("form") PROVE FormTaken(input.x[1], input.x[2], input.x[3], input.x[4])
    <3>1. input.x \in FieldLists \X Forms \X {{}, {"z"}} \X BOOLEAN
      BY <2>3 DEF CodecInv
    <3>2. input.x[1] \in FieldList(RunNames) /\ input.x[4] \in BOOLEAN
      BY <3>1, RunFields
    <3> QED
      BY <3>2, EveryFormTaken
  <2> QED
    BY <2>1, <2>2, <2>3 DEF RequestsServed
<1> QED
  BY <1>1, CodecInvHolds, PTL

(* Identifiers compute on numbers, are read back from every form, and      *)
(* ranges divide, for every pair of bitmaps of any even number of bits per *)
(* byte and any number of bytes.                                           *)
THEOREM BitmapsAreNumbersAlways == CodecSpec => []BitmapsAreNumbers
<1>1. CodecInv => BitmapsAreNumbers
  <2> SUFFICES ASSUME CodecInv, Is("bitmaps")
               PROVE  /\ ArithmeticOf(input.x[1], input.x[2])
                      /\ FormsOf(input.x[1], input.x[2])
                      /\ IntervalsOf(input.x[1], input.x[2])
                      /\ RandomWithin(input.x[1], input.x[2])
    BY DEF BitmapsAreNumbers
  <2>1. input.x \in Bitmaps \X Bitmaps
    BY DEF CodecInv
  <2>2. input.x[1] \in Bitmaps /\ input.x[2] \in Bitmaps
    BY <2>1
  <2>3. IntervalsOf(input.x[1], input.x[2])
    <3>1. 1..4 \subseteq Nat \ {0}
      OBVIOUS
    <3> QED
      BY <2>2, <3>1, EveryRangeDivides DEF IntervalsOf
  <2> QED
    BY <2>2, <2>3, EveryArithmetic, EveryForm, EveryRandomWithin
<1> QED
  BY <1>1, CodecInvHolds, PTL

==============================================================================
