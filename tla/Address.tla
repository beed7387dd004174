------------------------------- MODULE Address -------------------------------
(***************************************************************************)
(* lbrycrd addresses: schema/address and schema/address/base58.            *)
(*                                                                         *)
(* Bytes and digits are numbers; the alphabet of base 58 is left out, and  *)
(* a character that is not in it is -1.  An address is a prefix byte, the  *)
(* hash of a public key and a checksum.                                    *)
(***************************************************************************)
EXTENDS Integers, Sequences, FiniteSets, SequencesExt

CONSTANTS AddressBase,       \* values of a byte: 256
          DigitBase,         \* b58Characters: 58
          PubkeyLength,      \* 20
          ChecksumLength,    \* 4
          WordBits,          \* bits of an int64: 64
          addressPrefixes,   \* the prefixes of each blockchain
          ChecksumOf(_)      \* SHA-256 twice, cut to ChecksumLength bytes

ASSUME AddressAssumption ==
    /\ AddressBase \in Nat \ {0, 1} /\ DigitBase \in Nat \ {0, 1}
    /\ PubkeyLength \in Nat /\ ChecksumLength \in Nat /\ WordBits \in Nat

PrefixLength == 1

Zeros58(n) == [i \in 1..n |-> 0]

AddressLength == PrefixLength + PubkeyLength + ChecksumLength

\* The powers of b.
Power(b) ==
    LET power[n \in Nat] == IF n = 0 THEN 1 ELSE b * power[n - 1]
    IN  power

\* big.Int.Int64: of a number that does not fit, the low bits.
Int64(n) == n % Power(2)[WordBits]

Number(digits, base) ==
    LET upTo[k \in 0..Len(digits)] == IF k = 0 THEN 0 ELSE base * upTo[k - 1] + digits[k]
    IN  upTo[Len(digits)]

----------------------------------------------------------------------------
(* base58.                                                                 *)

\* The digits of n, last first, until Int64 of the quotient is 0.
Base58Of[n \in Nat] ==
    LET quotient == n \div DigitBase
    IN  Append(IF Int64(quotient) = 0 THEN <<>> ELSE Base58Of[quotient], n % DigitBase)

EncodeBase58(data) == Base58Of[Number(data, AddressBase)]

CharacterIndexed(value) == \A i \in DOMAIN value : value[i] \in 0..(DigitBase - 1)

\* What is left of the number when size bytes are taken from it must be 0 as an int64.
DecodesBase58(value, size) ==
    /\ CharacterIndexed(value)
    /\ Int64(Number(value, DigitBase) \div Power(AddressBase)[size]) = 0

DecodeBase58(value, size) ==
    [i \in 1..size |-> (Number(value, DigitBase) \div Power(AddressBase)[size - i]) % AddressBase]

VerifyBase58Checksum(v) ==
    SubSeq(v, Len(v) - ChecksumLength + 1, Len(v)) = ChecksumOf(SubSeq(v, 1, Len(v) - ChecksumLength))

----------------------------------------------------------------------------
(* Addresses.                                                              *)

PrefixIsValid(address, blockchainName) == address[1] \in addressPrefixes[blockchainName]

ValidAddress(address, blockchainName) ==
    /\ blockchainName \in DOMAIN addressPrefixes
    /\ PrefixIsValid(address, blockchainName)
    /\ VerifyBase58Checksum(address)

DecodesAddress(address, blockchainName) ==
    /\ DecodesBase58(address, AddressLength)
    /\ ValidAddress(DecodeBase58(address, AddressLength), blockchainName)

DecodeAddress(address) == DecodeBase58(address, AddressLength)

EncodesAddress(address, blockchainName) == ValidAddress(address, blockchainName)

EncodeAddress(address) == EncodeBase58(address)

----------------------------------------------------------------------------
(* What the code promises.                                                 *)

\* Some quotient on the way is not 0, but 0 as an int64: EncodeBase58 stops there.
Truncated(n) ==
    \E k \in 1..(AddressLength * AddressBase) :
        n \div Power(DigitBase)[k] > 0 /\ Int64(n \div Power(DigitBase)[k]) = 0

\* A valid address is read as it was written, on the same blockchain, unless it is truncated;
\* then other bytes are read, or none.
AddressStands(address, blockchainName) ==
    EncodesAddress(address, blockchainName) =>
        (DecodesAddress(EncodeAddress(address), blockchainName) /\ DecodeAddress(EncodeAddress(address)) = address)
            = ~Truncated(Number(address, AddressBase))

\* An address that is accepted is the one writing of its bytes, leading zeros aside, unless its
\* number has more bytes than an address or its writing is truncated.
WritingStands(written, blockchainName) ==
    DecodesAddress(written, blockchainName) =>
        LET n == Number(written, DigitBase)
        IN  \/ written = Zeros58(Len(written) - Len(EncodeAddress(DecodeAddress(written))))
                           \o EncodeAddress(DecodeAddress(written))
            \/ n >= Power(AddressBase)[AddressLength]
            \/ Truncated(n)

==============================================================================
