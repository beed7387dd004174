------------------------------- MODULE Bitmap -------------------------------
(***************************************************************************)
(* The identifiers of the DHT, dht/bits/bitmap.go, and their ranges,       *)
(* dht/bits/range.go.                                                      *)
(*                                                                         *)
(* A Bitmap is the sequence of its bits, the highest first.  A byte has    *)
(* ByteBits bits (8 in the code) and is written as two digits; a string is *)
(* the sequence of its bytes or digits, each the sequence of its bits.     *)
(* math/big is arithmetic.  A panic and an error are values of their own.  *)
(***************************************************************************)
EXTENDS Integers, Sequences, FiniteSets, SequencesExt

CONSTANTS NumBytes, ByteBits

ASSUME BitmapAssumption ==
    /\ NumBytes \in Nat \ {0}
    /\ ByteBits \in Nat \ {0} /\ ByteBits % 2 = 0

NumBits == NumBytes * ByteBits

DigitBits == ByteBits \div 2

Bitmaps == [1..NumBits -> {0, 1}]

Panic == <<"panic">>

Failure == <<"error">>

\* The powers of 2.
Pow2[n \in Nat] == IF n = 0 THEN 1 ELSE 2 * Pow2[n - 1]

\* The bits of s, of any length, as a number.
Value(s) ==
    LET upTo[k \in 0..Len(s)] == IF k = 0 THEN 0 ELSE 2 * upTo[k - 1] + s[k]
    IN  upTo[Len(s)]

\* The number n with k bits.
BitsOf(n, k) == [i \in 1..k |-> (n \div Pow2[k - i]) % 2]

\* s cut into pieces of k bits, and the pieces put together again.
Pieces(s, k) == [i \in 1..(Len(s) \div k) |-> SubSeq(s, (i - 1) * k + 1, i * k)]

Join(p) == FlattenSeq(p)

----------------------------------------------------------------------------
(* Comparison and bitwise operations.                                      *)

Cmp(b, other) ==
    LET differ == {k \in 1..NumBits : b[k] # other[k]}
        first  == CHOOSE k \in differ : \A j \in differ : k <= j
    IN  IF differ = {} THEN 0 ELSE IF b[first] < other[first] THEN -1 ELSE 1

Xor(b, other) == [k \in 1..NumBits |-> (b[k] + other[k]) % 2]

And(b, other) == [k \in 1..NumBits |-> b[k] * other[k]]

Or(b, other) == [k \in 1..NumBits |-> IF b[k] + other[k] > 0 THEN 1 ELSE 0]

Not(b) == [k \in 1..NumBits |-> 1 - b[k]]

\* dist(b, x) < dist(b, y).
Closer(b, x, y) == Cmp(Xor(x, b), Xor(y, b)) < 0

----------------------------------------------------------------------------
(* Arithmetic.                                                             *)

\* The carry into bit k of the sum, from the last bit up.
CarryOf(b, other) ==
    LET carry[k \in 0..NumBits] ==
            IF k = NumBits THEN 0
            ELSE IF b[k + 1] + other[k + 1] + carry[k + 1] >= 2 THEN 1 ELSE 0
    IN  carry

add(b, other) ==
    LET carry == CarryOf(b, other)
    IN  [sum |-> [k \in 1..NumBits |-> (b[k] + other[k] + carry[k]) % 2], carry |-> carry[0]]

Add(b, other) == LET r == add(b, other) IN IF r.carry = 1 THEN Panic ELSE r.sum

One == BitsOf(1, NumBits)

\* As a slip: without the one that makes the inverse a complement.
SubInverse(b, other) ==
    IF Cmp(b, other) < 0 THEN Panic ELSE add(b, Not(other)).sum

Sub(b, other) ==
    IF Cmp(b, other) < 0 THEN Panic ELSE add(b, add(Not(other), One).sum).sum

----------------------------------------------------------------------------
(* Single bits, prefixes and suffixes.  Positions count from 0.            *)

Get(b, n) == b[n + 1]

Set(b, n, one) == [b EXCEPT ![n + 1] = one]

PrefixLen(b) ==
    LET ones == {k \in 1..NumBits : b[k] = 1}
    IN  IF ones = {} THEN NumBits ELSE (CHOOSE k \in ones : \A j \in ones : k <= j) - 1

Prefix(b, n, one) == [k \in 1..NumBits |-> IF k - 1 < n THEN one ELSE b[k]]

Suffix(b, n, one) == [k \in 1..NumBits |-> IF k - 1 >= NumBits - n THEN one ELSE b[k]]

----------------------------------------------------------------------------
(* Strings.                                                                *)

RawString(b) == Pieces(b, ByteBits)

FromBytes(data) == IF Len(data) # NumBytes THEN Failure ELSE Join(data)

\* Two digits per byte.
Hex(b) == Pieces(b, DigitBits)

\* hex.DecodeString refuses an odd number of digits.
FromHex(hexStr) ==
    IF Len(hexStr) % 2 = 1 THEN Failure
    ELSE FromBytes([i \in 1..(Len(hexStr) \div 2) |-> hexStr[2 * i - 1] \o hexStr[2 * i]])

ZeroDigit == BitsOf(0, DigitBits)

\* All leading zero digits are removed, but one digit is left.
HexSimplified(b) ==
    LET other == {i \in 1..(2 * NumBytes) : Hex(b)[i] # ZeroDigit}
    IN  IF other = {} THEN <<ZeroDigit>>
        ELSE SubSeq(Hex(b), CHOOSE i \in other : \A j \in other : i <= j, 2 * NumBytes)

\* strings.Repeat panics on a negative count.
FromShortHex(hexStr) ==
    IF Len(hexStr) > 2 * NumBytes THEN Panic
    ELSE FromHex([i \in 1..(2 * NumBytes - Len(hexStr)) |-> ZeroDigit] \o hexStr)

\* The ...P functions turn an error into a panic.
OrPanic(r) == IF r = Failure THEN Panic ELSE r

FromShortHexP(hexStr) == OrPanic(FromShortHex(hexStr))

Big(b) == Value(Join(Hex(b)))

\* big.Int.Text(16): the digits of n without leading zeros, with a sign if negative.
Text16(n) ==
    LET len == CHOOSE l \in 1..(2 * NumBytes + 1) :
                   /\ n < Pow2[DigitBits * l]
                   /\ l = 1 \/ n >= Pow2[DigitBits * (l - 1)]
    IN  Pieces(BitsOf(n, len * DigitBits), DigitBits)

FromBigP(n) == IF n < 0 THEN Panic ELSE FromShortHexP(Text16(n))

MaxP == OrPanic(FromHex([i \in 1..(2 * NumBytes) |-> [k \in 1..DigitBits |-> 1]]))

\* What RandInRangeP returns when Rand gave r; it does not end if low = high and r # 0.
RandInRangeP(r, low, high) ==
    LET diff == Sub(high, low)
        loop[x \in Bitmaps] == IF Cmp(x, diff) > 0 THEN loop[Sub(x, diff)] ELSE x
    IN  IF diff = Panic THEN Panic ELSE Add(loop[r], low)

----------------------------------------------------------------------------
(* Ranges.                                                                 *)

MaxRange == [start |-> BitsOf(0, NumBits), end |-> MaxP]

intervalStart(r, n, num) ==
    LET size == (Big(r.end) - Big(r.start)) \div num
        rem  == (Big(r.end) - Big(r.start)) % num
    IN  Big(r.start) + size * (n - 1) + ((rem * (n - 1)) % num)

IntervalP(r, n, num) ==
    IF num < 1 \/ n < 1 \/ n > num THEN Panic
    ELSE [start |-> FromBigP(intervalStart(r, n, num)),
          end   |-> FromBigP(IF n < num THEN intervalStart(r, n + 1, num) - 1 ELSE Big(r.end))]

RangeContains(r, b) == Cmp(r.start, b) <= 0 /\ Cmp(r.end, b) >= 0

----------------------------------------------------------------------------
(* What the operations promise of two bitmaps a and b.                     *)

\* Comparison, sum, difference and distance are those of the numbers the bitmaps stand for;
\* Add and Sub panic exactly when the result does not fit.  (The comment at bitmap.go:162 asks for
\* an other that is greater; the code panics on exactly that.)
ArithmeticOf(a, b) ==
    /\ (Cmp(a, b) < 0) = (Big(a) < Big(b))
    /\ (Cmp(a, b) = 0) = (a = b)
    /\ Add(a, b) = IF Big(a) + Big(b) < Pow2[NumBits] THEN BitsOf(Big(a) + Big(b), NumBits) ELSE Panic
    /\ Sub(a, b) = IF Big(a) >= Big(b) THEN BitsOf(Big(a) - Big(b), NumBits) ELSE Panic
    /\ Xor(a, b) = Sub(Or(a, b), And(a, b))
    /\ Add(And(a, b), And(a, Not(b))) = a
    /\ Closer(a, b, Not(b)) = (PrefixLen(Xor(a, b)) > 0)

\* Every written form is read back; every suffix spans the block of a that shares its prefix.
FormsOf(a, b) ==
    /\ FromBytes(RawString(a)) = a
    /\ FromHex(Hex(a)) = a
    /\ FromShortHex(HexSimplified(a)) = a
    /\ FromBigP(Big(a)) = a
    /\ \A n \in 0..NumBits :
        LET block == [start |-> Suffix(a, n, 0), end |-> Suffix(a, n, 1)]
        IN  /\ RangeContains(block, a)
            /\ Big(block.end) - Big(block.start) = Pow2[n] - 1
            /\ RangeContains(block, b) = (PrefixLen(Xor(a, b)) >= NumBits - n)
            /\ PrefixLen(Prefix(a, n, 0)) >= n
    /\ \A n \in 0..(NumBits - 1) : Set(a, n, Get(a, n)) = a

\* The intervals of a range follow each other without gap or overlap and are not empty, as long as
\* each of them has room for the remainder.
Divides(r, num) ==
    Big(r.end) - Big(r.start) >= num * num =>
        /\ IntervalP(r, 1, num).start = r.start
        /\ IntervalP(r, num, num).end = r.end
        /\ \A n \in 1..num :
            /\ Cmp(IntervalP(r, n, num).start, IntervalP(r, n, num).end) <= 0
            /\ n < num => IntervalP(r, n + 1, num).start = Add(IntervalP(r, n, num).end, One)

IntervalsOf(a, b) == \A num \in 1..4 : Divides([start |-> a, end |-> b], num)

\* Whatever the generator gives, a random bitmap in a range is within the range.  (The ToDo at
\* bitmap.go:365 doubts it; the loop before it lowers the number to the length of the range, and
\* its example of 60 in 50-100 cannot come about.)
RandomWithin(a, b) ==
    Cmp(a, b) < 0 =>
        \A r \in Bitmaps : RangeContains([start |-> a, end |-> b], RandInRangeP(r, a, b))

============================================================================
