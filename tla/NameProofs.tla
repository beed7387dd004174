------------------------------ MODULE NameProofs ------------------------------
(***************************************************************************)
(* Proofs about addresses and URLs.                                        *)
(*                                                                         *)
(* Addresses, for any base of bytes and of digits, any lengths and any     *)
(* width of an int64.  What Number has come to after each digit            *)
(* (NumberUpTo) is a quotient of the whole number (UpperDigits), so that   *)
(* digits and number determine each other.  Base58Of ends at the first     *)
(* quotient whose low bits are 0: it has Length58 digits, and these are    *)
(* all of the number unless the number is truncated (TruncatedIs).         *)
(*                                                                         *)
(* URLs, for any tokens and values.  A group takes a part of the text      *)
(* exactly if the part is of its kind and what follows does not go on with *)
(* it (Takes), so that the nine parts and what follows each of them are    *)
(* determined (Split), and nine parts that have the form of a path are     *)
(* found again in the text they are joined to (PathTaken).  What Parse     *)
(* reads of the parts is said by ParsedAs, and the parts that String       *)
(* writes are a path again (RewrittenPath).                                *)
(***************************************************************************)
EXTENDS CodecProofs

-----------------------------------------------------------------------------
(* Addresses.                                                              *)

(* Powers of any base.                                                     *)
LEMMA PowersOf ==
    ASSUME NEW b \in Nat \ {0}
    PROVE  /\ Power(b)[0] = 1
           /\ \A n \in Nat : Power(b)[n] \in Nat \ {0} /\ Power(b)[n + 1] = b * Power(b)[n]
<1> DEFINE h == [n \in Nat |-> [x \in Nat |-> b * x]]
           IsPow(p) == p = [n \in Nat |-> IF n = 0 THEN 1 ELSE b * p[n - 1]]
           power == Power(b)
<1>1. h \in [Nat -> [Nat -> Nat]]
  <2>1. \A x \in Nat : b * x \in Nat
    OBVIOUS
  <2> QED
    BY <2>1
<1>2. PICK f : Loop(Nat, 1, h, f)
  <2>1. 1 \in Nat
    OBVIOUS
  <2> HIDE DEF h
  <2> QED
    BY <1>1, <2>1, LoopValues
<1>3. f \in [Nat -> Nat] /\ f[0] = 1 /\ \A n \in Nat : f[n + 1] = b * f[n]
  BY <1>2 DEF Loop
<1>4. IsPow(f)
  <2>1. ASSUME NEW n \in Nat PROVE f[n] = IF n = 0 THEN 1 ELSE b * f[n - 1]
    <3>1. CASE n = 0
      BY <1>3, <3>1
    <3>2. CASE n # 0
      <4>1. n - 1 \in Nat /\ (n - 1) + 1 = n
        BY <3>2
      <4>2. f[(n - 1) + 1] = b * f[n - 1]
        BY <1>3, <4>1
      <4> QED
        BY <3>2, <4>1, <4>2
    <3> QED
      BY <3>1, <3>2
  <2>2. f = [n \in Nat |-> f[n]]
    BY <1>3
  <2> QED
    BY <2>1, <2>2
<1>5. IsPow(power)
  <2>1. power = CHOOSE p : IsPow(p)
    BY DEF Power
  <2> HIDE DEF IsPow, power
  <2> QED
    BY <1>4, <2>1
<1> HIDE DEF power
<1>6. power[0] = 1 /\ \A n \in Nat : power[n + 1] = b * power[n]
  <2>1. \A n \in Nat : power[n] = IF n = 0 THEN 1 ELSE b * power[n - 1]
    BY <1>5
  <2>2. ASSUME NEW n \in Nat PROVE power[n + 1] = b * power[n]
    <3>1. n + 1 \in Nat /\ n + 1 # 0 /\ (n + 1) - 1 = n
      OBVIOUS
    <3> QED
      BY <2>1, <3>1
  <2> QED
    BY <2>1, <2>2
<1>7. \A n \in Nat : power[n] \in Nat \ {0}
  <2> DEFINE G == {n \in Nat : power[n] \in Nat \ {0}}
  <2>1. 0 \in G
    BY <1>6
  <2>2. ASSUME NEW n \in Nat, n \in G PROVE n + 1 \in G
    <3>1. \A x \in Nat \ {0} : b * x \in Nat \ {0}
      OBVIOUS
    <3> QED
      BY <1>6, <2>2, <3>1
  <2>3. \A n \in Nat : n \in G
    <3> HIDE DEF G
    <3> QED
      BY <2>1, <2>2, EveryNumber
  <2> QED
    BY <2>3
<1> QED
  BY <1>6, <1>7 DEF power

(* n digits of the base b, and the number of the first k of them.          *)
Digits(b, n) == [1..n -> 0..(b - 1)]

IsNumberUpTo(s, b, n, f) == f = [k \in 0..n |-> IF k = 0 THEN 0 ELSE b * f[k - 1] + s[k]]

NumberUpTo(s, b) == CHOOSE f : IsNumberUpTo(s, b, Len(s), f)

(* NumberUpTo is what Number computes, digit by digit.                     *)
LEMMA NumberSteps ==
    ASSUME NEW b \in Nat \ {0}, NEW n \in Nat, NEW s \in Digits(b, n)
    PROVE  /\ NumberUpTo(s, b) \in [0..n -> Nat]
           /\ NumberUpTo(s, b)[0] = 0
           /\ \A k \in 1..n : s[k] \in 0..(b - 1) /\ NumberUpTo(s, b)[k] = b * NumberUpTo(s, b)[k - 1] + s[k]
           /\ Number(s, b) = NumberUpTo(s, b)[n]
<1> DEFINE h == [k \in Nat |-> [x \in Nat |-> b * x + (IF k + 1 \in 1..n THEN s[k + 1] ELSE 0)]]
           v == NumberUpTo(s, b)
<1>1. s \in Seq(0..(b - 1)) /\ Len(s) = n
  BY IntervalSeq DEF Digits
<1>2. \A k \in 1..n : s[k] \in 0..(b - 1)
  BY DEF Digits
<1>3. h \in [Nat -> [Nat -> Nat]]
  <2>1. ASSUME NEW k \in Nat PROVE (IF k + 1 \in 1..n THEN s[k + 1] ELSE 0) \in Nat
    BY <1>2
  <2>2. \A x, y \in Nat : b * x + y \in Nat
    OBVIOUS
  <2> QED
    BY <2>1, <2>2
<1>4. PICK f : Loop(Nat, 0, h, f)
  <2>1. 0 \in Nat
    OBVIOUS
  <2> HIDE DEF h
  <2> QED
    BY <1>3, <2>1, LoopValues
<1>5. ASSUME NEW k \in 1..n PROVE f[k] = b * f[k - 1] + s[k]
  <2>1. k - 1 \in Nat /\ (k - 1) + 1 = k
    OBVIOUS
  <2>2. f[k] = h[k - 1][f[k - 1]] /\ f[k - 1] \in Nat
    BY <1>4, <2>1 DEF Loop
  <2>3. h[k - 1][f[k - 1]] = b * f[k - 1] + (IF (k - 1) + 1 \in 1..n THEN s[(k - 1) + 1] ELSE 0)
    BY <2>1, <2>2
  <2> QED
    BY <2>1, <2>2, <2>3
<1> DEFINE g == [k \in 0..n |-> f[k]]
<1>6. IsNumberUpTo(s, b, n, g)
  <2>1. ASSUME NEW k \in 0..n PROVE g[k] = IF k = 0 THEN 0 ELSE b * g[k - 1] + s[k]
    <3>1. CASE k = 0
      BY <1>4, <3>1 DEF Loop
    <3>2. CASE k # 0
      <4>1. k \in 1..n /\ k - 1 \in 0..n
        BY <3>2
      <4> QED
        BY <1>5, <3>2, <4>1
    <3> QED
      BY <3>1, <3>2
  <2> QED
    BY <2>1 DEF IsNumberUpTo
<1>7. IsNumberUpTo(s, b, n, v)
  <2> HIDE DEF g
  <2> QED
    BY <1>1, <1>6 DEF NumberUpTo
<1>8. Number(s, b) = v[n]
  BY <1>1 DEF Number, NumberUpTo, IsNumberUpTo
<1> HIDE DEF v
<1>9. v[0] = 0 /\ \A k \in 1..n : v[k] = b * v[k - 1] + s[k]
  <2>1. \A k \in 0..n : v[k] = IF k = 0 THEN 0 ELSE b * v[k - 1] + s[k]
    BY <1>7 DEF IsNumberUpTo
  <2> QED
    BY <2>1
<1>10. v \in [0..n -> Nat]
  <2> DEFINE G == {k \in Nat : k <= n => v[k] \in Nat}
  <2>1. 0 \in G
    BY <1>9
  <2>2. ASSUME NEW k \in Nat, k \in G PROVE k + 1 \in G
    <3> SUFFICES ASSUME k + 1 <= n PROVE v[k + 1] \in Nat
      OBVIOUS
    <3>1. k + 1 \in 1..n /\ (k + 1) - 1 = k /\ v[k] \in Nat
      BY <2>2
    <3>2. v[k + 1] = b * v[k] + s[k + 1] /\ s[k + 1] \in Nat
      BY <1>2, <1>9, <3>1
    <3>3. \A x, y \in Nat : b * x + y \in Nat
      OBVIOUS
    <3> QED
      BY <3>1, <3>2, <3>3
  <2>3. \A k \in Nat : k \in G
    <3> HIDE DEF G
    <3> QED
      BY <2>1, <2>2, EveryNumber
  <2>4. v = [k \in 0..n |-> v[k]]
    BY <1>7 DEF IsNumberUpTo
  <2>5. \A k \in 0..n : v[k] \in Nat
    BY <2>3
  <2> QED
    BY <2>4, <2>5
<1> QED
  BY <1>2, <1>8, <1>9, <1>10 DEF v

(* A digit below b does not reach the next multiple of b.                  *)
LEMMA NextDigit ==
    ASSUME NEW b \in Nat \ {0}, NEW a \in Nat, NEW p \in Nat, NEW x \in Nat, NEW d \in 0..(b - 1),
           a * p <= x, x < (a + 1) * p
    PROVE  a * (b * p) <= b * x + d /\ b * x + d < (a + 1) * (b * p)
<1>1. a * (b * p) = b * (a * p) /\ (a + 1) * (b * p) = b * ((a + 1) * p)
  OBVIOUS
<1> DEFINE l == a * p
           u == (a + 1) * p
<1>2. l \in Nat /\ u \in Nat /\ l <= x /\ x + 1 <= u
  OBVIOUS
<1> HIDE DEF l, u
<1>3. l * b <= x * b /\ (x + 1) * b <= u * b
  BY <1>2, TimesMonotone
<1>4. l * b = b * l /\ x * b = b * x /\ u * b = b * u /\ (x + 1) * b = b * x + b
  BY <1>2
<1>5. b * l \in Int /\ b * x \in Int /\ b * u \in Int
  BY <1>2
<1>6. b * l <= b * x + d /\ b * x + d < b * u
  BY <1>3, <1>4, <1>5
<1> QED
  BY <1>1, <1>6 DEF l, u

(* The first i digits say which multiple of a power a number is above.     *)
LEMMA UpperDigits ==
    ASSUME NEW b \in Nat \ {0}, NEW n \in Nat, NEW s \in Digits(b, n), NEW i \in 0..n
    PROVE  \A j \in i..n :
              /\ NumberUpTo(s, b)[i] * Power(b)[j - i] <= NumberUpTo(s, b)[j]
              /\ NumberUpTo(s, b)[j] < (NumberUpTo(s, b)[i] + 1) * Power(b)[j - i]
<1> DEFINE v == NumberUpTo(s, b)
           P == Power(b)
           Within(j) == v[i] * P[j - i] <= v[j] /\ v[j] < (v[i] + 1) * P[j - i]
           G == {d \in Nat : i + d <= n => Within(i + d)}
<1>1. /\ \A k \in 0..n : v[k] \in Nat
      /\ \A k \in 1..n : s[k] \in 0..(b - 1) /\ v[k] = b * v[k - 1] + s[k]
  BY NumberSteps
<1>0. P[0] = 1 /\ \A k \in Nat : P[k] \in Nat \ {0} /\ P[k + 1] = b * P[k]
  BY PowersOf
<1> HIDE DEF v, P
<1>2. 0 \in G
  <2>1. (i + 0) - i = 0 /\ i + 0 = i /\ v[i] \in Nat
    BY <1>1
  <2> QED
    BY <1>0, <2>1
<1>3. ASSUME NEW d \in Nat, d \in G PROVE d + 1 \in G
  <2> SUFFICES ASSUME i + (d + 1) <= n PROVE Within(i + (d + 1))
    OBVIOUS
  <2> DEFINE j == i + d
             p == P[d]
             a == v[i]
             x == v[j]
  <2>1. j \in 0..n /\ j + 1 \in 1..n /\ (j + 1) - 1 = j /\ i + (d + 1) = j + 1 /\ j - i = d /\ (j + 1) - i = d + 1
    OBVIOUS
  <2>2. a * p <= x /\ x < (a + 1) * p
    BY <1>3, <2>1
  <2>3. p \in Nat /\ a \in Nat /\ x \in Nat /\ P[d + 1] = b * p
    BY <1>0, <1>1, <2>1
  <2>4. v[j + 1] = b * x + s[j + 1] /\ s[j + 1] \in 0..(b - 1)
    BY <1>1, <2>1
  <2>7. a * P[d + 1] <= v[j + 1] /\ v[j + 1] < (a + 1) * P[d + 1]
    <3> HIDE DEF j, p, x, a
    <3> QED
      BY <2>2, <2>3, <2>4, NextDigit
  <2> QED
    BY <2>1, <2>7
<1>4. \A d \in Nat : d \in G
  <2> HIDE DEF G
  <2> QED
    BY <1>2, <1>3, EveryNumber
<1>5. ASSUME NEW j \in i..n PROVE Within(j)
  <2>1. j - i \in Nat /\ i + (j - i) = j
    OBVIOUS
  <2>2. j - i \in G
    BY <1>4, <2>1
  <2> QED
    BY <2>1, <2>2
<1> QED
  BY <1>5 DEF v, P

(* Digits have a number, which is less than the next power,                *)
LEMMA NumberBelow ==
    ASSUME NEW b \in Nat \ {0}, NEW n \in Nat, NEW s \in Digits(b, n)
    PROVE  Number(s, b) \in Nat /\ Number(s, b) < Power(b)[n]
<1> DEFINE v == NumberUpTo(s, b)
           P == Power(b)
<1>1. v[0] = 0 /\ Number(s, b) = v[n] /\ v[n] \in Nat
  BY NumberSteps
<1>2. 0 \in 0..n /\ n \in 0..n /\ n - 0 = n
  OBVIOUS
<1>3. v[n] < (v[0] + 1) * P[n - 0]
  BY <1>2, UpperDigits
<1>4. (0 + 1) * P[n] = P[n]
  BY PowersOf
<1> HIDE DEF v, P
<1>5. v[n] < P[n]
  BY <1>1, <1>2, <1>3, <1>4
<1> QED
  BY <1>1, <1>5 DEF P

(* and of which they are the digits.                                       *)
LEMMA DigitsOfNumber ==
    ASSUME NEW b \in Nat \ {0}, NEW n \in Nat, NEW s \in Digits(b, n), NEW i \in 1..n
    PROVE  (Number(s, b) \div Power(b)[n - i]) % b = s[i]
<1> DEFINE v == NumberUpTo(s, b)
           x == Number(s, b)
           q == v[i]
           p == Power(b)[n - i]
<1>1. x \in Nat /\ q \in Nat /\ p \in Nat \ {0} /\ x = v[n]
  <2>1. v \in [0..n -> Nat] /\ x = v[n]
    BY NumberSteps
  <2>2. n - i \in Nat /\ i \in 0..n /\ n \in 0..n
    OBVIOUS
  <2>3. p \in Nat \ {0}
    BY <2>2, PowersOf
  <2>4. x = v[n] /\ x \in Nat /\ q \in Nat
    <3> HIDE DEF v, x
    <3> QED
      BY <2>1, <2>2
  <2> QED
    BY <2>3, <2>4
<1>2. q * p <= x /\ x < (q + 1) * p
  <2>1. i \in 0..n /\ n \in i..n
    OBVIOUS
  <2> QED
    BY <1>1, <2>1, UpperDigits
<1>0. q = b * v[i - 1] + s[i] /\ s[i] \in 0..(b - 1) /\ v[i - 1] \in Nat
  <2>1. i - 1 \in 0..n
    OBVIOUS
  <2> QED
    BY <2>1, NumberSteps
<1> HIDE DEF x, q, p, v
<1>3. (q + 1) * p = q * p + p /\ q * p \in Int
  BY <1>1, TimesTwo
<1>4. x - q * p \in 0..(p - 1) /\ x = q * p + (x - q * p)
  BY <1>1, <1>2, <1>3
<1>5. x \div p = q
  BY <1>1, <1>4, QuotientIs
<1>6. q = v[i - 1] * b + s[i]
  BY <1>0
<1>7. q % b = s[i]
  <2> DEFINE y == v[i - 1]
             z == s[i]
  <2>1. q \in Nat /\ y \in Nat /\ z \in 0..(b - 1) /\ q = y * b + z
    BY <1>0, <1>1, <1>6
  <2> HIDE DEF y, z
  <2>2. q % b = z
    BY <2>1, QuotientIs
  <2> QED
    BY <2>2 DEF z
<1> QED
  BY <1>5, <1>7 DEF x, q, p

(* Dividing twice is dividing by the product.                              *)
DividedTwice(x, p, b) ==
    /\ (x \div p) \div b = x \div (b * p)
    /\ x \div p = b * (x \div (b * p)) + ((x \div p) % b)
    /\ x \div p \in Nat /\ b * p \in Nat \ {0}

(* So it is.                                                               *)
LEMMA DivideTwice ==
    ASSUME NEW x \in Nat, NEW p \in Nat \ {0}, NEW b \in Nat \ {0}
    PROVE  DividedTwice(x, p, b)
<1> DEFINE q == x \div p
           r == x % p
<1>1. x = p * q + r /\ r \in 0..(p - 1) /\ q \in Nat
  BY DivMod
<1> DEFINE d == q \div b
           m == q % b
<1>2. q = b * d + m /\ m \in 0..(b - 1) /\ d \in Nat
  BY <1>1, DivMod
<1> HIDE DEF q, r, d, m
<1>3. x = d * (b * p) + (m * p + r)
  <2>1. p * q = d * (b * p) + m * p
    <3>1. p * q = p * (b * d + m)
      BY <1>2
    <3>2. p * (b * d + m) = d * (b * p) + m * p
      BY <1>2
    <3> QED
      BY <3>1, <3>2
  <2>2. d * (b * p) \in Int /\ m * p \in Int
    BY <1>2
  <2> HIDE DEF q
  <2> QED
    BY <1>1, <2>1, <2>2
<1>4. m * p + r \in 0..(b * p - 1)
  <2>1. m + 1 \in Nat /\ m + 1 <= b /\ m \in Nat
    BY <1>2
  <2>2. (m + 1) * p <= b * p /\ (m + 1) * p = m * p + p /\ m * p \in Nat /\ b * p \in Nat
    BY <2>1, TimesMonotone
  <2> QED
    BY <1>1, <2>2
<1>5. b * p \in Nat \ {0}
  OBVIOUS
<1>6. x \in Nat /\ x \div (b * p) = d
  BY <1>2, <1>3, <1>4, <1>5, QuotientIs
<1> QED
  BY <1>1, <1>2, <1>5, <1>6 DEF q, m, d, DividedTwice

(* The last k digits of x.                                                 *)
Spell(x, b, k) == [i \in 1..k |-> (x \div Power(b)[k - i]) % b]

(* A number that fits is the number of its digits.                         *)
LEMMA NumberOfDigits ==
    ASSUME NEW b \in Nat \ {0}, NEW n \in Nat, NEW x \in Nat
    PROVE  Spell(x, b, n) \in Digits(b, n) /\ (x < Power(b)[n] => Number(Spell(x, b, n), b) = x)
<1> DEFINE s == Spell(x, b, n)
           v == NumberUpTo(s, b)
           P == Power(b)
           G == {i \in Nat : i <= n => v[i] = x \div P[n - i]}
<1>0. P[0] = 1 /\ \A k \in Nat : P[k] \in Nat \ {0} /\ P[k + 1] = b * P[k]
  BY PowersOf
<1>1. ASSUME NEW i \in 1..n PROVE s[i] = (x \div P[n - i]) % b /\ s[i] \in 0..(b - 1)
  <2>1. P[n - i] \in Nat \ {0}
    <3> HIDE DEF P
    <3> QED
      BY <1>0
  <2>2. x \div P[n - i] \in Nat
    <3> HIDE DEF P
    <3> QED
      BY <2>1, DivMod
  <2>3. s[i] = (x \div P[n - i]) % b
    BY DEF Spell
  <2>4. (x \div P[n - i]) % b \in 0..(b - 1)
    <3> HIDE DEF P
    <3> QED
      BY <2>2, DivMod
  <2> QED
    BY <2>3, <2>4
<1>2. s \in Digits(b, n)
  <2>1. s = [i \in 1..n |-> s[i]]
    BY DEF Spell
  <2> HIDE DEF s
  <2> QED
    BY <1>1, <2>1 DEF Digits
<1> SUFFICES ASSUME x < P[n] PROVE Number(s, b) = x
  BY <1>2
<1> HIDE DEF s
<1>3. v[0] = 0 /\ Number(s, b) = v[n] /\ \A k \in 1..n : v[k] = b * v[k - 1] + s[k]
  BY <1>2, NumberSteps
<1> HIDE DEF v, P
<1>4. 0 \in G
  <2>1. P[n] \in Nat \ {0} /\ n - 0 = n
    BY <1>0
  <2>2. x = 0 * P[n] + x /\ x \in 0..(P[n] - 1)
    BY <2>1
  <2>3. x \div P[n] = 0
    BY <2>1, <2>2, QuotientIs
  <2> QED
    BY <1>3, <2>1, <2>3
<1>5. ASSUME NEW i \in Nat, i \in G PROVE i + 1 \in G
  <2> SUFFICES ASSUME i + 1 <= n PROVE v[i + 1] = x \div P[n - (i + 1)]
    OBVIOUS
  <2> DEFINE p == P[n - (i + 1)]
  <2>1. n - (i + 1) \in Nat /\ (n - (i + 1)) + 1 = n - i /\ i + 1 \in 1..n /\ (i + 1) - 1 = i
    OBVIOUS
  <2>2. p \in Nat \ {0} /\ P[n - i] = b * p
    BY <1>0, <2>1
  <2>3. v[i] = x \div (b * p)
    BY <1>5, <2>1, <2>2
  <2>4. v[i + 1] = b * v[i] + s[i + 1] /\ s[i + 1] = (x \div p) % b
    BY <1>1, <1>3, <2>1
  <2>5. x \div p = b * (x \div (b * p)) + ((x \div p) % b)
    <3> HIDE DEF p
    <3>1. DividedTwice(x, p, b)
      BY <2>2, DivideTwice
    <3> QED
      BY <3>1 DEF DividedTwice
  <2> HIDE DEF p
  <2>6. v[i + 1] = x \div p
    BY <2>3, <2>4, <2>5
  <2> QED
    BY <2>6 DEF p
<1>6. \A i \in Nat : i \in G
  <2> HIDE DEF G
  <2> QED
    BY <1>4, <1>5, EveryNumber
<1>7. v[n] = x \div P[n - n] /\ n - n = 0
  BY <1>6
<1>8. x \div 1 = x
  OBVIOUS
<1> QED
  BY <1>0, <1>3, <1>7, <1>8

(* A base is at least 2.                                                   *)
LEMMA TwiceAtLeast ==
    ASSUME NEW b \in Nat \ {0, 1}
    PROVE  \A p \in Nat : b * p >= 2 * p
<1> SUFFICES ASSUME NEW p \in Nat PROVE b * p >= 2 * p
  OBVIOUS
<1>1. (b - 2) * p >= 0
  OBVIOUS
<1>2. b * p = 2 * p + (b - 2) * p
  OBVIOUS
<1> QED
  BY <1>1, <1>2

(* The powers of a base grow, and leave every number behind.               *)
LEMMA PowersOfGrow ==
    ASSUME NEW b \in Nat \ {0, 1}
    PROVE  /\ \A n \in Nat : n < Power(b)[n]
           /\ \A m, n \in Nat : m <= n => Power(b)[m] <= Power(b)[n]
<1> DEFINE P == Power(b)
<1>1. P[0] = 1 /\ \A k \in Nat : P[k] \in Nat \ {0} /\ P[k + 1] = b * P[k]
  BY PowersOf
<1> HIDE DEF P
<1>2. \A k \in Nat : P[k + 1] >= 2 * P[k]
  <2> SUFFICES ASSUME NEW k \in Nat PROVE P[k + 1] >= 2 * P[k]
    OBVIOUS
  <2>1. P[k] \in Nat /\ P[k + 1] = b * P[k]
    BY <1>1
  <2>2. \A p \in Nat : b * p >= 2 * p
    BY TwiceAtLeast
  <2> QED
    BY <2>1, <2>2
<1>3. \A n \in Nat : n < P[n]
  <2> DEFINE G == {n \in Nat : n < P[n]}
  <2>1. 0 \in G
    BY <1>1
  <2>2. ASSUME NEW n \in Nat, n \in G PROVE n + 1 \in G
    BY <1>1, <1>2, <2>2
  <2>3. \A n \in Nat : n \in G
    <3> HIDE DEF G
    <3> QED
      BY <2>1, <2>2, EveryNumber
  <2> QED
    BY <2>3
<1>4. ASSUME NEW m \in Nat, NEW n \in Nat, m <= n PROVE P[m] <= P[n]
  <2> DEFINE G == {d \in Nat : P[m] <= P[m + d]}
  <2>1. 0 \in G
    BY <1>1
  <2>2. ASSUME NEW d \in Nat, d \in G PROVE d + 1 \in G
    <3>1. m + d \in Nat /\ m + (d + 1) = (m + d) + 1
      OBVIOUS
    <3>2. P[m + (d + 1)] >= 2 * P[m + d] /\ P[m + d] \in Nat /\ P[m] \in Nat /\ P[m + (d + 1)] \in Nat
      BY <1>1, <1>2, <3>1
    <3> QED
      BY <2>2, <3>2
  <2>3. \A d \in Nat : d \in G
    <3> HIDE DEF G
    <3> QED
      BY <2>1, <2>2, EveryNumber
  <2>4. n - m \in Nat /\ m + (n - m) = n
    BY <1>4
  <2>5. n - m \in G
    BY <2>3, <2>4
  <2> QED
    BY <2>4, <2>5
<1> QED
  BY <1>3, <1>4 DEF P

(* EncodeBase58 stops after k digits, and not before.                      *)
Stops(x, k) == Int64(x \div Power(DigitBase)[k]) = 0

Length58(x) == CHOOSE k \in Nat \ {0} : Stops(x, k) /\ \A j \in Nat \ {0} : Stops(x, j) => k <= j

(* Of 0 all bits are 0.                                                    *)
LEMMA Int64Zero == Int64(0) = 0
<1>1. 2 \in Nat \ {0} /\ WordBits \in Nat
  BY AddressAssumption
<1>2. Power(2)[WordBits] \in Nat \ {0}
  BY <1>1, PowersOf
<1> DEFINE p == Power(2)[WordBits]
<1> HIDE DEF p
<1>3. p \in Nat \ {0} => 0 % p = 0
  OBVIOUS
<1> QED
  BY <1>2, <1>3 DEF Int64, p

(* It does stop.                                                           *)
LEMMA Length58Is ==
    ASSUME NEW x \in Nat
    PROVE  /\ Length58(x) \in Nat \ {0} /\ Stops(x, Length58(x))
           /\ \A j \in Nat \ {0} : Stops(x, j) => Length58(x) <= j
<1> DEFINE T == {k \in Nat \ {0} : Stops(x, k)}
<1>1. x + 1 \in T
  <2>1. x + 1 < Power(DigitBase)[x + 1]
    BY PowersOfGrow, AddressAssumption
  <2>2. Power(DigitBase)[x + 1] \in Nat \ {0}
    BY PowersOf, AddressAssumption
  <2> DEFINE p == Power(DigitBase)[x + 1]
  <2>3. p \in Nat \ {0} /\ x < p
    BY <2>1, <2>2
  <2> HIDE DEF p
  <2>4. x \div p = 0
    BY <2>3, ZeroQuotient
  <2>5. Stops(x, x + 1)
    BY <2>4, Int64Zero DEF Stops, p
  <2> QED
    BY <2>5
<1>2. T \subseteq Nat /\ T # {}
  BY <1>1
<1>3. PICK k \in T : \A j \in T : k <= j
  <2> HIDE DEF T
  <2> QED
    BY <1>2, SmallestElement
<1>4. k \in Nat \ {0} /\ Stops(x, k) /\ \A j \in Nat \ {0} : Stops(x, j) => k <= j
  BY <1>3
<1> QED
  BY <1>4 DEF Length58

(* One digit less of the quotient.                                         *)
LEMMA Length58Step ==
    ASSUME NEW x \in Nat
    PROVE  LET q == x \div DigitBase
           IN  /\ q \in Nat
               /\ Int64(q) = 0 => Length58(x) = 1
               /\ Int64(q) # 0 => Length58(x) = Length58(q) + 1 /\ q < x
<1> DEFINE b == DigitBase
           q == x \div b
           P == Power(b)
<1>0. b \in Nat \ {0, 1} /\ b \in Nat \ {0}
  BY AddressAssumption
<1>1. P[0] = 1 /\ \A k \in Nat : P[k] \in Nat \ {0} /\ P[k + 1] = b * P[k]
  BY <1>0, PowersOf
<1>2. q \in Nat
  BY <1>0, DivMod
<1>3. \A k \in Nat : Stops(x, k + 1) <=> Stops(q, k)
  <2> SUFFICES ASSUME NEW k \in Nat PROVE Stops(x, k + 1) <=> Stops(q, k)
    OBVIOUS
  <2>1. x \div P[k + 1] = q \div P[k]
    <3>1. P[k] \in Nat \ {0} /\ P[k + 1] = b * P[k]
      BY <1>1
    <3> DEFINE p == P[k]
    <3> HIDE DEF P, p, b
    <3>2. p \in Nat \ {0}
      BY <3>1 DEF p
    <3>3. (x \div b) \div p = x \div (p * b)
      <4>1. DividedTwice(x, b, p)
        BY <1>0, <3>2, DivideTwice
      <4> QED
        BY <4>1 DEF DividedTwice
    <3>4. p * b = b * p
      BY <1>0, <3>2
    <3> QED
      BY <3>1, <3>3, <3>4 DEF p
  <2> QED
    BY <2>1 DEF Stops
<1>4. Stops(q, 0) <=> Int64(q) = 0
  <2>1. q \div 1 = q
    BY <1>2
  <2> QED
    BY <1>1, <2>1 DEF Stops
<1>5. Stops(x, 1) <=> Int64(q) = 0
  BY <1>3, <1>4
<1>6. ASSUME Int64(q) = 0 PROVE Length58(x) = 1
  <2>1. Length58(x) <= 1 /\ Length58(x) \in Nat \ {0}
    BY <1>5, <1>6, Length58Is
  <2> QED
    BY <2>1
<1>7. ASSUME Int64(q) # 0 PROVE Length58(x) = Length58(q) + 1
  <2> DEFINE j == Length58(q)
             k == Length58(x)
  <2>1. j \in Nat \ {0} /\ Stops(q, j) /\ \A i \in Nat \ {0} : Stops(q, i) => j <= i
    BY <1>2, Length58Is
  <2>2. k \in Nat \ {0} /\ Stops(x, k) /\ \A i \in Nat \ {0} : Stops(x, i) => k <= i
    BY Length58Is
  <2> HIDE DEF j, k
  <2>3. k <= j + 1
    BY <1>3, <2>1, <2>2
  <2>4. k # 1
    BY <1>5, <1>7, <2>2
  <2>5. k - 1 \in Nat \ {0} /\ (k - 1) + 1 = k
    BY <2>2, <2>4
  <2>6. Stops(q, k - 1)
    BY <1>3, <2>2, <2>5
  <2>7. j <= k - 1
    BY <2>1, <2>5, <2>6
  <2>8. k = j + 1
    BY <2>1, <2>2, <2>3, <2>7
  <2> QED
    BY <2>8 DEF j, k
<1>8. ASSUME Int64(q) # 0 PROVE q < x
  <2>1. q # 0
    BY <1>8, Int64Zero
  <2>2. x = b * q + (x % b) /\ x % b \in 0..(b - 1)
    BY <1>0, DivMod
  <2>3. 2 * q <= b * q
    <3> HIDE DEF q, b
    <3> QED
      BY <1>0, <1>2, TwiceAtLeast
  <2> DEFINE bq == b * q
  <2>4. bq \in Int
    BY <1>0, <1>2
  <2> HIDE DEF q, b, bq
  <2>5. x >= bq /\ 2 * q <= bq
    BY <2>2, <2>3, <2>4, <1>0 DEF bq
  <2> QED
    BY <1>2, <2>1, <2>4, <2>5
<1> QED
  BY <1>2, <1>6, <1>7, <1>8

(* The last digit after those of the quotient.                             *)
LEMMA SpellStep ==
    ASSUME NEW b \in Nat \ {0}, NEW k \in Nat, NEW x \in Nat
    PROVE  Spell(x, b, k + 1) = Append(Spell(x \div b, b, k), x % b)
<1> DEFINE q == x \div b
           P == Power(b)
           s == Spell(q, b, k)
           t == Spell(x, b, k + 1)
           u == Append(s, x % b)
<1>0. P[0] = 1 /\ \A n \in Nat : P[n] \in Nat \ {0} /\ P[n + 1] = b * P[n]
  BY PowersOf
<1>1. q \in Nat /\ x % b \in 0..(b - 1)
  BY DivMod
<1>2. s \in Digits(b, k) /\ t \in Digits(b, k + 1)
  BY <1>1, NumberOfDigits
<1>3. s \in Seq(0..(b - 1)) /\ Len(s) = k /\ t \in Seq(0..(b - 1)) /\ Len(t) = k + 1
  BY <1>2, IntervalSeq DEF Digits
<1>4. \A i \in 1..k : s[i] = (q \div P[k - i]) % b
  BY DEF Spell
<1>5. \A i \in 1..(k + 1) : t[i] = (x \div P[(k + 1) - i]) % b
  BY DEF Spell
<1> HIDE DEF s, t, P
<1>6. u \in Seq(0..(b - 1)) /\ Len(u) = k + 1 /\ u[k + 1] = x % b /\ \A i \in 1..k : u[i] = s[i]
  BY <1>1, <1>3, AppendProperties
<1> HIDE DEF u
<1>7. ASSUME NEW i \in 1..(k + 1) PROVE t[i] = u[i]
  <2>1. CASE i = k + 1
    <3>1. x \div 1 = x /\ (k + 1) - (k + 1) = 0
      OBVIOUS
    <3>2. t[k + 1] = (x \div P[0]) % b
      BY <1>5, <3>1
    <3> QED
      BY <1>0, <1>6, <2>1, <3>1, <3>2
  <2>2. CASE i # k + 1
    <3> DEFINE m == k - i
               p == P[m]
    <3>1. i \in 1..k /\ m \in Nat /\ (k + 1) - i = m + 1
      BY <2>2
    <3>2. p \in Nat \ {0} /\ P[m + 1] = b * p
      BY <1>0, <3>1
    <3>3. s[i] = (q \div p) % b /\ t[i] = (x \div (b * p)) % b
      BY <1>4, <1>5, <3>1, <3>2
    <3> HIDE DEF p
    <3>4. (x \div b) \div p = x \div (p * b)
      <4>1. DividedTwice(x, b, p)
        BY <3>2, DivideTwice
      <4> QED
        BY <4>1 DEF DividedTwice
    <3>5. p * b = b * p
      BY <3>2
    <3> QED
      BY <1>6, <3>1, <3>3, <3>4, <3>5
  <2> QED
    BY <2>1, <2>2
<1>8. t = u
  BY <1>3, <1>6, <1>7, SeqEqual
<1> QED
  BY <1>8 DEF t, u, s

(* The digits of EncodeBase58, as any function that makes them.            *)
IsBase58(f) ==
    f = [n \in Nat |-> Append(IF Int64(n \div DigitBase) = 0 THEN <<>> ELSE f[n \div DigitBase], n % DigitBase)]

(* Those until it stops.                                                   *)
LEMMA Base58Is ==
    ASSUME NEW x \in Nat
    PROVE  Base58Of[x] = Spell(x, DigitBase, Length58(x))
<1> DEFINE b == DigitBase
           F == [n \in Nat |-> Spell(n, b, Length58(n))]
<1>0. b \in Nat \ {0}
  BY AddressAssumption
<1>1. ASSUME NEW n \in Nat
      PROVE  Spell(n, b, Length58(n))
               = Append(IF Int64(n \div b) = 0 THEN <<>> ELSE Spell(n \div b, b, Length58(n \div b)), n % b)
  <2> DEFINE q == n \div b
  <2>1. /\ q \in Nat /\ (Int64(q) = 0 => Length58(n) = 1)
        /\ (Int64(q) # 0 => Length58(n) = Length58(q) + 1)
    BY Length58Step
  <2>2. CASE Int64(q) = 0
    <3>1. Spell(n, b, 0 + 1) = Append(Spell(q, b, 0), n % b)
      BY <1>0, SpellStep
    <3>2. Spell(q, b, 0) = <<>>
      BY DEF Spell
    <3>3. 0 + 1 = 1
      OBVIOUS
    <3>4. Spell(n, b, 1) = Append(<<>>, n % b)
      BY <3>1, <3>2, <3>3
    <3> QED
      BY <2>1, <2>2, <3>4
  <2>3. CASE Int64(q) # 0
    <3>1. Length58(q) \in Nat
      BY <2>1, Length58Is
    <3>2. Spell(n, b, Length58(q) + 1) = Append(Spell(q, b, Length58(q)), n % b)
      BY <1>0, <3>1, SpellStep
    <3> QED
      BY <2>1, <2>3, <3>2
  <2> QED
    BY <2>2, <2>3
<1>2. IsBase58(F)
  <2>1. ASSUME NEW n \in Nat
        PROVE  F[n] = Append(IF Int64(n \div b) = 0 THEN <<>> ELSE F[n \div b], n % b)
    <3>1. n \div b \in Nat
      BY <1>0, DivMod
    <3>2. F[n] = Spell(n, b, Length58(n)) /\ F[n \div b] = Spell(n \div b, b, Length58(n \div b))
      BY <3>1
    <3> QED
      BY <1>1, <3>2
  <2>2. F = [n \in Nat |-> F[n]]
    OBVIOUS
  <2> HIDE DEF F
  <2> QED
    BY <2>1, <2>2 DEF IsBase58
<1>3. IsBase58(Base58Of)
  <2>1. Base58Of = CHOOSE f : IsBase58(f)
    BY DEF Base58Of, IsBase58
  <2> HIDE DEF F
  <2> QED
    BY <1>2, <2>1
<1> DEFINE bad == {n \in Nat : Base58Of[n] # Spell(n, b, Length58(n))}
<1>4. bad = {}
  <2> SUFFICES ASSUME bad # {} PROVE FALSE
    OBVIOUS
  <2>0. bad \subseteq Nat
    OBVIOUS
  <2>1. PICK n \in bad : \A k \in bad : n <= k
    <3> HIDE DEF bad
    <3> QED
      BY <2>0, SmallestElement
  <2> DEFINE q == n \div b
  <2>2. n \in Nat /\ q \in Nat /\ (Int64(q) # 0 => q < n)
    BY <2>1, Length58Step
  <2>3. Base58Of[n] = Append(IF Int64(q) = 0 THEN <<>> ELSE Base58Of[q], n % b)
    BY <1>3, <2>2 DEF IsBase58
  <2>4. Spell(n, b, Length58(n)) = Append(IF Int64(q) = 0 THEN <<>> ELSE Spell(q, b, Length58(q)), n % b)
    BY <1>1, <2>2
  <2>5. Int64(q) # 0 => q \notin bad
    <3> HIDE DEF q, bad
    <3> QED
      BY <2>0, <2>1, <2>2
  <2>6. Int64(q) # 0 => Base58Of[q] = Spell(q, b, Length58(q))
    BY <2>2, <2>5
  <2>7. Base58Of[n] = Spell(n, b, Length58(n))
    <3> HIDE DEF q
    <3> QED
      BY <2>3, <2>4, <2>6
  <2> QED
    BY <2>1, <2>7
<1> QED
  BY <1>4

(* A quotient is 0 below the divisor only.                                 *)
LEMMA QuotientZero ==
    ASSUME NEW x \in Nat, NEW p \in Nat \ {0}
    PROVE  x \div p > 0 <=> x >= p
<1> DEFINE q == x \div p
           r == x % p
<1>1. x = p * q + r /\ r \in 0..(p - 1) /\ q \in Nat
  BY DivMod
<1>2. x < p => q = 0
  BY ZeroQuotient
<1> HIDE DEF q, r
<1>3. q = 0 => x < p
  BY <1>1
<1>4. q > 0 <=> x >= p
  BY <1>1, <1>2, <1>3
<1> QED
  BY <1>4 DEF q

(* The bound of Truncated: no address has more digits.                     *)
LEMMA EnoughDigits ==
    ASSUME NEW b \in Nat \ {0, 1}, NEW B \in Nat \ {0, 1}
    PROVE  \A l \in Nat : Power(B)[l] <= Power(b)[l * B]
<1> DEFINE P == Power(b)
           Q == Power(B)
<1>1. /\ P[0] = 1 /\ \A k \in Nat : P[k] \in Nat \ {0} /\ P[k + 1] = b * P[k]
      /\ Q[0] = 1 /\ \A k \in Nat : Q[k] \in Nat \ {0} /\ Q[k + 1] = B * Q[k]
  BY PowersOf
<1> HIDE DEF P, Q
<1>2. ASSUME NEW m \in Nat PROVE \A n \in Nat : P[m] * (n + 1) <= P[m + n]
  <2> DEFINE G == {n \in Nat : P[m] * (n + 1) <= P[m + n]}
  <2>1. 0 \in G
    BY <1>1
  <2>2. ASSUME NEW n \in Nat, n \in G PROVE n + 1 \in G
    <3> DEFINE p == P[m]
               r == P[m + n]
    <3>1. m + n \in Nat /\ (m + n) + 1 = m + (n + 1)
      OBVIOUS
    <3>2. p \in Nat /\ r \in Nat /\ P[m + (n + 1)] = b * r /\ p * (n + 1) <= r
      BY <1>1, <2>2, <3>1
    <3> HIDE DEF p, r
    <3>3. b * r >= 2 * r
      BY <3>2, TwiceAtLeast
    <3>4. p * ((n + 1) + 1) = p * (n + 1) + p /\ p * (n + 1) = p * n + p /\ p * n >= 0 /\ p * n \in Int
      BY <3>2
    <3> DEFINE pn == p * n
    <3>5. pn \in Int /\ pn >= 0 /\ p * (n + 1) = pn + p /\ p * ((n + 1) + 1) = pn + p + p
      BY <3>4
    <3> HIDE DEF pn
    <3>6. pn + p + p <= 2 * r
      BY <3>2, <3>5
    <3>7. b * r \in Int
      BY <3>2
    <3>8. p * ((n + 1) + 1) <= P[m + (n + 1)]
      BY <3>2, <3>3, <3>5, <3>6, <3>7
    <3> QED
      BY <3>8 DEF p
  <2>3. \A n \in Nat : n \in G
    <3> HIDE DEF G
    <3> QED
      BY <2>1, <2>2, EveryNumber
  <2> QED
    BY <2>3
<1> DEFINE H == {l \in Nat : Q[l] <= P[l * B]}
<1>3. 0 \in H
  <2>1. 0 * B = 0
    OBVIOUS
  <2> QED
    BY <1>1, <2>1
<1>4. ASSUME NEW l \in Nat, l \in H PROVE l + 1 \in H
  <2> DEFINE m == l * B
             p == P[m]
             q == Q[l]
             r == P[m + B]
  <2>1. m \in Nat /\ (l + 1) * B = m + B
    OBVIOUS
  <2>2. q <= p
    BY <1>4
  <2> HIDE DEF m
  <2>3. p * (B + 1) <= r
    BY <1>2, <2>1
  <2>4. p \in Nat /\ q \in Nat /\ r \in Nat /\ Q[l + 1] = B * q
    BY <1>1, <2>1
  <2> HIDE DEF p, q, r
  <2>5. q * B <= p * B /\ q * B = B * q /\ p * (B + 1) = p * B + p /\ p * B \in Int
    BY <2>2, <2>4, TimesMonotone
  <2>6. Q[l + 1] <= r
    BY <2>3, <2>4, <2>5
  <2>7. Q[l + 1] <= P[(l + 1) * B]
    BY <2>1, <2>6 DEF r
  <2> QED
    BY <2>7
<1>5. \A l \in Nat : l \in H
  <2> HIDE DEF H
  <2> QED
    BY <1>3, <1>4, EveryNumber
<1> QED
  BY <1>5 DEF P, Q

(* The number is cut exactly if it does not fit into the digits written.   *)
LEMMA TruncatedIs ==
    ASSUME NEW x \in Nat, x < Power(AddressBase)[AddressLength]
    PROVE  Truncated(x) <=> x >= Power(DigitBase)[Length58(x)]
<1> DEFINE P == Power(DigitBase)
           K == Length58(x)
           most == AddressLength * AddressBase
<1>1. \A k \in Nat : P[k] \in Nat \ {0}
  BY PowersOf, AddressAssumption
<1>2. \A m, n \in Nat : m <= n => P[m] <= P[n]
  BY PowersOfGrow, AddressAssumption
<1>3. AddressLength \in Nat /\ most \in Nat
  BY AddressAssumption DEF AddressLength, PrefixLength
<1>4. x < P[most]
  <2>1. Power(AddressBase)[AddressLength] <= P[most]
    BY <1>3, EnoughDigits, AddressAssumption
  <2>2. Power(AddressBase)[AddressLength] \in Nat
    BY <1>3, PowersOf, AddressAssumption
  <2> QED
    BY <1>1, <1>3, <2>1, <2>2
<1>5. K \in Nat \ {0} /\ Stops(x, K) /\ \A j \in Nat \ {0} : Stops(x, j) => K <= j
  BY Length58Is
<1> HIDE DEF K, P, most
<1>6. \A k \in Nat : x \div P[k] > 0 <=> x >= P[k]
  BY <1>1, QuotientZero
<1>7. Truncated(x) <=> \E k \in 1..most : x \div P[k] > 0 /\ Stops(x, k)
  BY DEF Truncated, Stops, P, most
<1>8. ASSUME x >= P[K] PROVE Truncated(x)
  <2>1. K \in 1..most
    <3>1. ~ (most <= K)
      BY <1>1, <1>2, <1>3, <1>4, <1>5, <1>8
    <3> QED
      BY <1>3, <1>5, <3>1
  <2> QED
    BY <1>5, <1>6, <1>7, <1>8, <2>1
<1>9. ASSUME Truncated(x) PROVE x >= P[K]
  <2>1. PICK k \in 1..most : x \div P[k] > 0 /\ Stops(x, k)
    BY <1>7, <1>9
  <2>2. k \in Nat \ {0} /\ x >= P[k] /\ K <= k
    BY <1>3, <1>5, <1>6, <2>1
  <2>3. P[K] <= P[k] /\ P[K] \in Nat /\ P[k] \in Nat
    BY <1>1, <1>2, <1>5, <2>2
  <2> QED
    BY <2>2, <2>3
<1> QED
  BY <1>8, <1>9 DEF K, P

(* DecodeBase58 spells its number.                                         *)
LEMMA DecodeSpells ==
    ASSUME NEW value, NEW size
    PROVE  DecodeBase58(value, size) = Spell(Number(value, DigitBase), AddressBase, size)
BY DEF DecodeBase58, Spell

(* Digits are spelled from their number.                                   *)
LEMMA SpelledAgain ==
    ASSUME NEW b \in Nat \ {0}, NEW n \in Nat, NEW s \in Digits(b, n)
    PROVE  Spell(Number(s, b), b, n) = s
<1>1. \A i \in 1..n : (Number(s, b) \div Power(b)[n - i]) % b = s[i]
  BY DigitsOfNumber
<1>2. s = [i \in 1..n |-> s[i]]
  BY DEF Digits
<1> QED
  BY <1>1, <1>2 DEF Spell

(* A valid address of any bytes is read as EncodeAddress wrote it exactly  *)
(* if EncodeBase58 does not meet a quotient whose low 64 bits are 0.       *)
THEOREM EveryAddressStands ==
    ASSUME NEW address \in Digits(AddressBase, AddressLength), NEW blockchainName
    PROVE  AddressStands(address, blockchainName)
<1> DEFINE B == AddressBase
           b == DigitBase
           L == AddressLength
           x == Number(address, B)
           K == Length58(x)
           E == EncodeAddress(address)
           y == Number(E, b)
           D == DecodeAddress(E)
           ok == DecodesAddress(E, blockchainName) /\ D = address
<1> SUFFICES ASSUME EncodesAddress(address, blockchainName)
             PROVE  ok = ~ Truncated(x)
  BY DEF AddressStands
<1>0. b \in Nat \ {0} /\ B \in Nat \ {0} /\ L \in Nat
  BY AddressAssumption DEF AddressLength, PrefixLength
<1>1. x \in Nat /\ x < Power(B)[L]
  BY <1>0, NumberBelow
<1>2. K \in Nat \ {0}
  BY <1>1, Length58Is
<1>3. E = Spell(x, b, K)
  BY <1>1, Base58Is DEF EncodeAddress, EncodeBase58
<1>4. E \in Digits(b, K) /\ (x < Power(b)[K] => y = x)
  BY <1>0, <1>1, <1>2, <1>3, NumberOfDigits
<1>5. y \in Nat /\ y < Power(b)[K]
  BY <1>0, <1>2, <1>4, NumberBelow
<1>6. D = Spell(y, B, L)
  BY DecodeSpells DEF DecodeAddress
<1>7. Truncated(x) <=> x >= Power(b)[K]
  BY <1>1, TruncatedIs
<1>8. Power(b)[K] \in Nat /\ Power(B)[L] \in Nat \ {0}
  BY <1>0, <1>2, PowersOf
<1>9. CASE x < Power(b)[K]
  <2>1. y = x
    BY <1>4, <1>9
  <2>2. D = address
    BY <1>0, <1>6, <2>1, SpelledAgain
  <2>3. CharacterIndexed(E)
    BY <1>4 DEF CharacterIndexed, Digits
  <2>4. x \div Power(B)[L] = 0
    <3> HIDE DEF x
    <3> QED
      BY <1>1, <1>8, ZeroQuotient
  <2>5. DecodesBase58(E, L)
    BY <2>1, <2>3, <2>4, Int64Zero DEF DecodesBase58
  <2>6. DecodesAddress(E, blockchainName)
    BY <2>2, <2>5 DEF DecodesAddress, DecodeAddress, EncodesAddress
  <2>7. ~ Truncated(x)
    BY <1>1, <1>7, <1>8, <1>9
  <2> QED
    BY <2>2, <2>6, <2>7
<1>10. CASE ~ (x < Power(b)[K])
  <2>1. Truncated(x)
    BY <1>1, <1>7, <1>8, <1>10
  <2>2. y < Power(B)[L] /\ y # x
    BY <1>1, <1>5, <1>8, <1>10
  <2>3. Number(D, B) = y
    BY <1>0, <1>5, <1>6, <2>2, NumberOfDigits
  <2>4. D # address
    BY <2>2, <2>3
  <2> QED
    BY <2>1, <2>4
<1> QED
  BY <1>9, <1>10

(* An address that DecodeAddress accepts, of any length, is the one that   *)
(* EncodeAddress makes of its bytes with zeros before it, unless its       *)
(* number does not fit or is truncated.                                    *)
THEOREM EveryWritingStands ==
    ASSUME NEW written \in Seq(Int), written # <<>>, NEW blockchainName
    PROVE  WritingStands(written, blockchainName)
<1> DEFINE B == AddressBase
           b == DigitBase
           L == AddressLength
           m == Len(written)
           n == Number(written, b)
           D == DecodeAddress(written)
           E == EncodeAddress(D)
           K == Length58(n)
           P == Power(b)
<1> SUFFICES ASSUME DecodesAddress(written, blockchainName), n < Power(B)[L], ~ Truncated(n)
             PROVE  written = Zeros58(m - Len(E)) \o E
  <2>0. b \in Nat \ {0} /\ B \in Nat \ {0} /\ L \in Nat
    BY AddressAssumption DEF AddressLength, PrefixLength
  <2>1. Power(B)[L] \in Nat
    BY <2>0, PowersOf
  <2>2. ASSUME DecodesAddress(written, blockchainName) PROVE n \in Nat
    <3>1. written \in Digits(b, m) /\ m \in Nat
      <4>1. CharacterIndexed(written)
        BY <2>2 DEF DecodesAddress, DecodesBase58
      <4>2. m \in Nat /\ DOMAIN written = 1..m /\ written = [i \in 1..m |-> written[i]]
        BY LenProperties
      <4> QED
        BY <4>1, <4>2 DEF CharacterIndexed, Digits
    <3> QED
      BY <2>0, <3>1, NumberBelow
  <2>3. ASSUME DecodesAddress(written, blockchainName) PROVE n < Power(B)[L] \/ n >= Power(B)[L]
    BY <2>1, <2>2, <2>3
  <2> QED
    BY <2>3 DEF WritingStands
<1>0. b \in Nat \ {0} /\ B \in Nat \ {0} /\ L \in Nat
  BY AddressAssumption DEF AddressLength, PrefixLength
<1>1. written \in Digits(b, m) /\ m \in Nat \ {0}
  <2>1. CharacterIndexed(written)
    BY DEF DecodesAddress, DecodesBase58
  <2>2. m \in Nat /\ DOMAIN written = 1..m /\ written = [i \in 1..m |-> written[i]]
    BY LenProperties
  <2>3. m # 0
    BY EmptySeq
  <2> QED
    BY <2>1, <2>2, <2>3 DEF CharacterIndexed, Digits
<1>2. n \in Nat /\ n < P[m]
  BY <1>0, <1>1, NumberBelow
<1>3. D = Spell(n, B, L)
  BY DecodeSpells DEF DecodeAddress
<1>4. Number(D, B) = n
  BY <1>0, <1>2, <1>3, NumberOfDigits
<1>5. E = Spell(n, b, K)
  BY <1>2, <1>4, Base58Is DEF EncodeAddress, EncodeBase58
<1>6. K \in Nat \ {0} /\ Stops(n, K) /\ \A j \in Nat \ {0} : Stops(n, j) => K <= j
  BY <1>2, Length58Is
<1>7. E \in Digits(b, K)
  BY <1>0, <1>2, <1>5, <1>6, NumberOfDigits
<1>8. \A k \in Nat : P[k] \in Nat \ {0}
  BY <1>0, PowersOf
<1>9. n < P[K]
  <2>1. ~ (n >= P[K])
    BY <1>2, TruncatedIs
  <2> QED
    BY <1>2, <1>6, <1>8, <2>1
<1>10. \A i \in 1..m : written[i] = (n \div P[m - i]) % b
  BY <1>0, <1>1, DigitsOfNumber
<1>11. \A i \in 1..K : E[i] = (n \div P[K - i]) % b
  BY <1>5 DEF Spell
<1>12. \A i, j \in Nat : i <= j => P[i] <= P[j]
  BY PowersOfGrow, AddressAssumption
<1>13. E \in Seq(Int) /\ Len(E) = K
  <2>1. E \in [1..K -> Int]
    BY <1>0, <1>7 DEF Digits
  <2> QED
    BY <1>6, <2>1, IntervalSeq
<1> HIDE DEF n, E, K, P, D, m, b
<1>14. K <= m
  <2> SUFFICES ASSUME K > m PROVE FALSE
    BY <1>1, <1>6
  <2> DEFINE k == K - 1
  <2>1. k \in Nat \ {0} /\ m <= k /\ ~ (K <= k)
    BY <1>1, <1>6
  <2>2. ~ Stops(n, k)
    BY <1>6, <2>1
  <2>3. n < P[k]
    <3>1. P[m] <= P[k] /\ P[m] \in Nat /\ P[k] \in Nat
      BY <1>1, <1>8, <1>12, <2>1
    <3> QED
      BY <1>2, <3>1
  <2> HIDE DEF k
  <2>4. n \div P[k] = 0
    BY <1>2, <1>8, <2>1, <2>3, ZeroQuotient
  <2>5. Stops(n, k)
    BY <2>4, Int64Zero DEF Stops, P, b
  <2> QED
    BY <2>2, <2>5
<1> DEFINE zs == m - K
           Z == Zeros58(zs)
<1>15. zs \in Nat /\ zs + K = m
  BY <1>1, <1>6, <1>14
<1>16. Z \in Seq(Int) /\ Len(Z) = zs /\ \A i \in 1..zs : Z[i] = 0
  <2>1. Z \in [1..zs -> Int] /\ \A i \in 1..zs : Z[i] = 0
    BY DEF Zeros58
  <2> HIDE DEF zs, Z
  <2> QED
    BY <1>15, <2>1, IntervalSeq
<1> DEFINE t == Z \o E
<1> HIDE DEF zs, Z
<1>17. /\ t \in Seq(Int) /\ Len(t) = m
       /\ \A i \in 1..m : t[i] = IF i <= zs THEN Z[i] ELSE E[i - zs]
  <2>1. /\ t \in Seq(Int) /\ Len(t) = Len(Z) + Len(E)
        /\ \A i \in 1..(Len(Z) + Len(E)) : t[i] = IF i <= Len(Z) THEN Z[i] ELSE E[i - Len(Z)]
    BY <1>13, <1>16, ConcatProperties
  <2> HIDE DEF t
  <2> QED
    BY <1>13, <1>15, <1>16, <2>1
<1> HIDE DEF t
<1>18. ASSUME NEW i \in 1..m PROVE written[i] = t[i]
  <2>1. CASE i <= zs
    <3>1. m - i \in Nat /\ K <= m - i /\ i \in 1..zs
      BY <1>1, <1>6, <1>15, <2>1
    <3>2. n < P[m - i]
      <4>1. P[K] <= P[m - i] /\ P[K] \in Nat /\ P[m - i] \in Nat
        BY <1>6, <1>8, <1>12, <3>1
      <4> QED
        BY <1>2, <1>9, <4>1
    <3>3. n \div P[m - i] = 0
      BY <1>2, <1>8, <3>1, <3>2, ZeroQuotient
    <3>4. 0 % b = 0
      BY <1>0
    <3> QED
      BY <1>10, <1>16, <1>17, <2>1, <3>1, <3>3, <3>4
  <2>2. CASE ~ (i <= zs)
    <3> DEFINE j == i - zs
    <3>1. j \in 1..K /\ K - j = m - i
      BY <1>1, <1>6, <1>15, <2>2
    <3> HIDE DEF j
    <3>2. E[j] = written[i]
      BY <1>10, <1>11, <3>1
    <3>3. t[i] = E[j]
      BY <1>17, <2>2 DEF j
    <3> QED
      BY <3>2, <3>3
  <2> QED
    BY <2>1, <2>2
<1>19. Len(written) = Len(t) /\ \A i \in 1..Len(written) : written[i] = t[i]
  BY <1>17, <1>18 DEF m
<1>20. written = t
  BY <1>17, <1>19, SeqEqual
<1> QED
  BY <1>13, <1>20 DEF t, Z, zs

-----------------------------------------------------------------------------
(* URLs.                                                                   *)

(* What a group takes of s.                                                *)
Part(g, s) == IF g.token THEN Optional(s, g.set) ELSE UpTo(s, g.set)

(* Of p and r behind it, the group takes p.                                *)
Takes(g, p, r) ==
    IF g.token
    THEN \/ p = <<>> /\ (r = <<>> \/ r[1] \notin g.set)
         \/ \E t \in g.set : p = <<t>>
    ELSE /\ \A i \in 1..Len(p) : p[i] \notin g.set
         /\ r = <<>> \/ r[1] \in g.set

(* What is beyond p is r.                                                  *)
LEMMA BeyondIs ==
    ASSUME NEW T, NEW p \in Seq(T), NEW r \in Seq(T)
    PROVE  Beyond(p \o r, p) = r
<1> DEFINE s == p \o r
<1>1. s \in Seq(T) /\ Len(s) = Len(p) + Len(r)
      /\ \A i \in 1..Len(p) + Len(r) : s[i] = IF i <= Len(p) THEN p[i] ELSE r[i - Len(p)]
  BY ConcatProperties
<1>2. Len(p) \in Nat /\ Len(r) \in Nat
  BY LenProperties
<1> HIDE DEF s
<1>3. \A i \in (Len(p) + 1)..Len(s) : s[i] \in T
  BY <1>1, <1>2, ElementOfSeq
<1> DEFINE q == SubSeq(s, Len(p) + 1, Len(s))
<1>4. q \in Seq(T) /\ Len(q) = (IF Len(p) + 1 <= Len(s) THEN Len(s) - (Len(p) + 1) + 1 ELSE 0)
      /\ \A i \in 1..Len(s) - (Len(p) + 1) + 1 : q[i] = s[Len(p) + 1 + i - 1]
  BY <1>1, <1>2, <1>3, SubSeqProperties
<1> HIDE DEF q
<1>5. Len(q) = Len(r)
  BY <1>1, <1>2, <1>4
<1>6. ASSUME NEW i \in 1..Len(q) PROVE q[i] = r[i]
  <2>1. q[i] = s[Len(p) + i]
    <3>1. i \in 1..Len(s) - (Len(p) + 1) + 1 /\ Len(p) + 1 + i - 1 = Len(p) + i
      BY <1>1, <1>2, <1>5
    <3> QED
      BY <1>4, <3>1
  <2>2. s[Len(p) + i] = r[i]
    <3>1. Len(p) + i \in 1..Len(p) + Len(r) /\ ~(Len(p) + i <= Len(p)) /\ Len(p) + i - Len(p) = i
      BY <1>2, <1>5
    <3> QED
      BY <1>1, <3>1
  <2> QED
    BY <2>1, <2>2
<1>7. q = r
  BY <1>4, <1>5, <1>6, SeqEqual
<1> QED
  BY <1>7 DEF Beyond, q, s

(* The first token of p and r.                                             *)
LEMMA FirstOf ==
    ASSUME NEW T, NEW p \in Seq(T), NEW r \in Seq(T)
    PROVE  /\ p \o r \in Seq(T)
           /\ p = <<>> => p \o r = r
           /\ p # <<>> => p \o r # <<>> /\ (p \o r)[1] = p[1]
           /\ \A i \in 1..Len(p) : (p \o r)[i] = p[i]
           /\ r # <<>> => (p \o r)[Len(p) + 1] = r[1]
           /\ Len(p \o r) = Len(p) + Len(r)
           /\ Len(p) \in Nat /\ Len(r) \in Nat
           /\ p # <<>> => Len(p) > 0
           /\ r # <<>> => Len(r) > 0
<1>1. p \o r \in Seq(T) /\ Len(p \o r) = Len(p) + Len(r)
      /\ \A i \in 1..Len(p) + Len(r) : (p \o r)[i] = IF i <= Len(p) THEN p[i] ELSE r[i - Len(p)]
  BY ConcatProperties
<1>2. Len(p) \in Nat /\ Len(r) \in Nat
  BY LenProperties
<1>3. p # <<>> => Len(p) \in Nat \ {0}
  BY EmptySeq
<1>4. r # <<>> => Len(r) \in Nat \ {0}
  BY EmptySeq
<1>5. p = <<>> => p \o r = r
  BY ConcatEmptySeq
<1>6. p # <<>> => p \o r # <<>> /\ (p \o r)[1] = p[1]
  <2> SUFFICES ASSUME p # <<>> PROVE p \o r # <<>> /\ (p \o r)[1] = p[1]
    OBVIOUS
  <2>1. Len(p \o r) # 0
    BY <1>1, <1>2, <1>3
  <2>2. (p \o r)[1] = p[1]
    BY <1>1, <1>2, <1>3
  <2> QED
    BY <2>1, <2>2, EmptySeq
<1>7. r # <<>> => (p \o r)[Len(p) + 1] = r[1]
  BY <1>1, <1>2, <1>4
<1>8. \A i \in 1..Len(p) : (p \o r)[i] = p[i]
  BY <1>1, <1>2
<1> QED
  BY <1>1, <1>2, <1>3, <1>4, <1>5, <1>6, <1>7, <1>8

(* The first i tokens.                                                     *)
LEMMA FirstTokens ==
    ASSUME NEW T, NEW p \in Seq(T), NEW r \in Seq(T)
    PROVE  SubSeq(p \o r, 1, Len(p)) = p
<1> DEFINE s == p \o r
<1>1. s \in Seq(T) /\ Len(s) = Len(p) + Len(r) /\ \A i \in 1..Len(p) : s[i] = p[i]
  BY FirstOf
<1>2. Len(p) \in Nat /\ Len(r) \in Nat
  BY LenProperties
<1> HIDE DEF s
<1>3. \A i \in 1..Len(p) : s[i] \in T
  BY <1>1, <1>2, ElementOfSeq
<1> DEFINE q == SubSeq(s, 1, Len(p))
<1>4. q \in Seq(T) /\ Len(q) = (IF 1 <= Len(p) THEN Len(p) - 1 + 1 ELSE 0)
      /\ \A i \in 1..Len(p) - 1 + 1 : q[i] = s[1 + i - 1]
  BY <1>2, <1>3, SubSeqProperties
<1> HIDE DEF q
<1>5. Len(q) = Len(p)
  BY <1>2, <1>4
<1>6. \A i \in 1..Len(q) : q[i] = p[i]
  BY <1>1, <1>2, <1>4, <1>5
<1>7. q = p
  BY <1>4, <1>5, <1>6, SeqEqual
<1> QED
  BY <1>7 DEF q, s

(* A group takes what it should,                                           *)
LEMMA TakesIs ==
    ASSUME NEW T, NEW p \in Seq(T), NEW r \in Seq(T), NEW g, Takes(g, p, r)
    PROVE  Part(g, p \o r) = p
<1> DEFINE s == p \o r
<1>1. /\ s \in Seq(T) /\ Len(s) = Len(p) + Len(r)
      /\ p = <<>> => s = r
      /\ p # <<>> => s # <<>> /\ s[1] = p[1]
      /\ \A i \in 1..Len(p) : s[i] = p[i]
      /\ r # <<>> => s[Len(p) + 1] = r[1]
      /\ Len(p) \in Nat /\ Len(r) \in Nat
      /\ r # <<>> => Len(r) > 0
  BY FirstOf
<1>2. SubSeq(s, 1, Len(p)) = p
  BY FirstTokens
<1>3. DOMAIN s = 1..(Len(p) + Len(r))
  BY <1>1, LenProperties
<1>4. r = <<>> => s = p
  BY ConcatEmptySeq
<1>5. r = <<>> => Len(r) = 0
  OBVIOUS
<1> HIDE DEF s
<1>6. CASE g.token
  <2>1. CASE p = <<>> /\ (r = <<>> \/ r[1] \notin g.set)
    <3>1. s = <<>> \/ Head(s) \notin g.set
      BY <1>1, <2>1
    <3> QED
      BY <1>6, <2>1, <3>1 DEF Part, Optional, s
  <2>2. ASSUME NEW t \in g.set, p = <<t>> PROVE Part(g, s) = p
    <3>1. s # <<>> /\ s[1] = t
      BY <1>1, <2>2
    <3>2. Head(s) = t
      BY <1>1, <3>1
    <3> QED
      BY <1>6, <2>2, <3>1, <3>2 DEF Part, Optional
  <2> QED
    BY <1>6, <2>1, <2>2 DEF Takes, s
<1>7. CASE ~g.token
  <2>1. /\ \A i \in 1..Len(p) : p[i] \notin g.set
        /\ r = <<>> \/ r[1] \in g.set
    BY <1>7 DEF Takes
  <2> DEFINE at == {i \in DOMAIN s : s[i] \in g.set}
  <2>2. CASE r = <<>>
    <3>1. at = {}
      BY <1>1, <1>3, <1>5, <2>1, <2>2
    <3> QED
      BY <1>4, <1>7, <2>2, <3>1 DEF Part, UpTo, s
  <2>3. CASE r # <<>>
    <3>1. Len(p) + 1 \in at
      BY <1>1, <1>3, <2>1, <2>3
    <3>2. \A i \in at : Len(p) + 1 <= i
      BY <1>1, <1>3, <2>1
    <3>3. \A i \in at : i \in Int
      BY <1>3
    <3> HIDE DEF at
    <3> DEFINE m == CHOOSE i \in at : \A j \in at : i <= j
    <3>4. m \in at /\ \A j \in at : m <= j
      BY <3>1, <3>2
    <3>5. m = Len(p) + 1
      BY <1>1, <3>1, <3>2, <3>3, <3>4
    <3> HIDE DEF m
    <3>6. m - 1 = Len(p)
      BY <1>1, <3>5
    <3>7. UpTo(s, g.set) = SubSeq(s, 1, m - 1)
      BY <3>1 DEF UpTo, at, m
    <3> QED
      BY <1>2, <1>7, <3>6, <3>7 DEF Part, s
  <2> QED
    BY <2>2, <2>3
<1> QED
  BY <1>6, <1>7

(* and everything is taken so: the parts of s are s.                       *)
LEMMA TakesAny ==
    ASSUME NEW T, NEW s \in Seq(T), NEW g
    PROVE  /\ Part(g, s) \in Seq(T) /\ Beyond(s, Part(g, s)) \in Seq(T)
           /\ s = Part(g, s) \o Beyond(s, Part(g, s))
           /\ Takes(g, Part(g, s), Beyond(s, Part(g, s)))
<1>1. Len(s) \in Nat /\ DOMAIN s = 1..Len(s)
  BY LenProperties
<1>2. \A i \in 1..Len(s) : s[i] \in T
  BY ElementOfSeq
<1>3. ASSUME NEW n \in 0..Len(s)
      PROVE  /\ SubSeq(s, 1, n) \in Seq(T) /\ Len(SubSeq(s, 1, n)) = n
             /\ \A i \in 1..n : SubSeq(s, 1, n)[i] = s[i]
             /\ Beyond(s, SubSeq(s, 1, n)) \in Seq(T)
             /\ n < Len(s) => Beyond(s, SubSeq(s, 1, n))[1] = s[n + 1]
             /\ n = Len(s) => Beyond(s, SubSeq(s, 1, n)) = <<>>
             /\ s = SubSeq(s, 1, n) \o Beyond(s, SubSeq(s, 1, n))
  <2>1. n \in Int /\ \A i \in 1..n : s[i] \in T
    BY <1>1, <1>2
  <2>2. SubSeq(s, 1, n) \in Seq(T) /\ Len(SubSeq(s, 1, n)) = (IF 1 <= n THEN n - 1 + 1 ELSE 0)
        /\ \A i \in 1..n - 1 + 1 : SubSeq(s, 1, n)[i] = s[1 + i - 1]
    BY <2>1, SubSeqProperties
  <2>3. Len(SubSeq(s, 1, n)) = n
    BY <1>1, <2>2
  <2>4. Beyond(s, SubSeq(s, 1, n)) = SubSeq(s, n + 1, Len(s))
    BY <2>3 DEF Beyond
  <2>5. n + 1 \in Int /\ Len(s) \in Int /\ \A i \in (n + 1)..Len(s) : s[i] \in T
    BY <1>1, <1>2
  <2>6. SubSeq(s, n + 1, Len(s)) \in Seq(T)
        /\ \A i \in 1..Len(s) - (n + 1) + 1 : SubSeq(s, n + 1, Len(s))[i] = s[n + 1 + i - 1]
    BY <2>5, SubSeqProperties
  <2>7. n < Len(s) => SubSeq(s, n + 1, Len(s))[1] = s[n + 1]
    <3> SUFFICES ASSUME n < Len(s) PROVE SubSeq(s, n + 1, Len(s))[1] = s[n + 1]
      OBVIOUS
    <3>1. 1 \in 1..Len(s) - (n + 1) + 1 /\ n + 1 + 1 - 1 = n + 1
      BY <1>1
    <3> QED
      BY <2>6, <3>1
  <2>8. n = Len(s) => SubSeq(s, n + 1, Len(s)) = <<>>
    BY <1>1, <2>5, SubSeqEmpty
  <2>9. s = SubSeq(s, 1, n) \o SubSeq(s, n + 1, Len(s))
    <3>1. SubSeq(s, 1, Len(s)) = s
      BY SubSeqFull
    <3>2. 1 \in 1..Len(s) + 1 /\ n \in (1 - 1)..Len(s) /\ Len(s) \in n..Len(s)
      BY <1>1
    <3>3. SubSeq(s, 1, n) \o SubSeq(s, n + 1, Len(s)) = SubSeq(s, 1, Len(s))
      BY <3>2, ConcatAdjacentSubSeq
    <3> QED
      BY <3>1, <3>3
  <2>10. \A i \in 1..n : SubSeq(s, 1, n)[i] = s[i]
    BY <1>1, <2>2
  <2> QED
    BY <2>2, <2>3, <2>4, <2>6, <2>7, <2>8, <2>9, <2>10
<1>4. PICK n \in 0..Len(s) :
          /\ Part(g, s) = SubSeq(s, 1, n)
          /\ IF g.token THEN n = (IF s # <<>> /\ s[1] \in g.set THEN 1 ELSE 0)
             ELSE (\A i \in 1..n : s[i] \notin g.set) /\ (n < Len(s) => s[n + 1] \in g.set)
  <2>1. CASE g.token /\ s # <<>> /\ s[1] \in g.set
    <3>1. Len(s) > 0
      BY <1>1, <2>1, EmptySeq
    <3>2. SubSeq(s, 1, 1) = <<s[1]>>
      <4>1. 1 \in 1..Len(s) /\ 1 \in 0..Len(s)
        BY <1>1, <3>1
      <4>2. SubSeq(s, 1, 1) \in Seq(T) /\ Len(SubSeq(s, 1, 1)) = 1 /\ SubSeq(s, 1, 1)[1] = s[1]
        BY <1>3, <4>1
      <4>3. <<s[1]>> \in Seq(T) /\ Len(<<s[1]>>) = 1 /\ <<s[1]>>[1] = s[1]
        BY <1>2, <4>1
      <4>4. \A i \in 1..Len(SubSeq(s, 1, 1)) : SubSeq(s, 1, 1)[i] = <<s[1]>>[i]
        BY <4>2, <4>3
      <4>5. Len(SubSeq(s, 1, 1)) = Len(<<s[1]>>)
        BY <4>2, <4>3
      <4> QED
        BY <4>2, <4>3, <4>4, <4>5, SeqEqual
    <3>3. Part(g, s) = SubSeq(s, 1, 1)
      BY <2>1, <3>2 DEF Part, Optional
    <3>4. 1 \in 0..Len(s)
      BY <1>1, <3>1
    <3> QED
      BY <2>1, <3>3, <3>4
  <2>2. CASE g.token /\ ~(s # <<>> /\ s[1] \in g.set)
    <3>1. SubSeq(s, 1, 0) = <<>>
      BY SubSeqEmpty
    <3>2. Part(g, s) = SubSeq(s, 1, 0)
      BY <2>2, <3>1 DEF Part, Optional
    <3>4. 0 \in 0..Len(s)
      BY <1>1
    <3> QED
      BY <2>2, <3>2, <3>4
  <2>3. CASE ~g.token
    <3> DEFINE at == {i \in DOMAIN s : s[i] \in g.set}
    <3>1. CASE at = {}
      <4>1. Part(g, s) = SubSeq(s, 1, Len(s))
        BY <2>3, <3>1, SubSeqFull DEF Part, UpTo
      <4>2. \A i \in 1..Len(s) : s[i] \notin g.set
        BY <1>1, <3>1
      <4>3. Len(s) \in 0..Len(s) /\ ~(Len(s) < Len(s))
        BY <1>1
      <4> QED
        BY <2>3, <4>1, <4>2, <4>3
    <3>2. CASE at # {}
      <4>1. at \subseteq Nat
        BY <1>1
      <4> DEFINE m == CHOOSE i \in at : \A j \in at : i <= j
      <4>2. UpTo(s, g.set) = SubSeq(s, 1, m - 1)
        BY <3>2 DEF UpTo
      <4> HIDE DEF at
      <4>3. \E i \in at : \A j \in at : i <= j
        BY <3>2, <4>1, SmallestElement
      <4>4. m \in at /\ \A j \in at : m <= j
        BY <4>3
      <4> HIDE DEF m
      <4>5. m \in 1..Len(s) /\ s[m] \in g.set
        BY <1>1, <4>4 DEF at
      <4>6. \A i \in 1..(m - 1) : s[i] \notin g.set
        <5> SUFFICES ASSUME NEW i \in 1..(m - 1), s[i] \in g.set PROVE FALSE
          OBVIOUS
        <5>1. i \in at
          BY <1>1, <4>5 DEF at
        <5> QED
          BY <4>4, <4>5, <5>1
      <4>7. m - 1 \in 0..Len(s) /\ (m - 1) + 1 = m
        BY <1>1, <4>5
      <4> QED
        BY <2>3, <4>2, <4>5, <4>6, <4>7 DEF Part
    <3> QED
      BY <3>1, <3>2
  <2> QED
    BY <2>1, <2>2, <2>3
<1> DEFINE p == SubSeq(s, 1, n)
           r == Beyond(s, p)
<1>5. /\ p \in Seq(T) /\ Len(p) = n
      /\ \A i \in 1..n : p[i] = s[i]
      /\ r \in Seq(T)
      /\ n < Len(s) => r[1] = s[n + 1]
      /\ n = Len(s) => r = <<>>
      /\ s = p \o r
  BY <1>3
<1> HIDE DEF p, r
<1>6. ASSUME g.token PROVE Takes(g, p, r)
  <2>1. CASE n = 1
    <3>1. s # <<>> /\ s[1] \in g.set
      BY <1>4, <1>6, <2>1
    <3>2. s[1] \in T
      BY <1>1, <1>2, <2>1
    <3>3. p = <<s[1]>>
      <4>1. <<s[1]>> \in Seq(T) /\ Len(<<s[1]>>) = 1 /\ <<s[1]>>[1] = s[1]
        BY <3>2
      <4>2. Len(p) = 1 /\ p[1] = s[1]
        BY <1>5, <2>1
      <4> QED
        BY <1>5, <4>1, <4>2, SeqEqual
    <3> QED
      BY <1>6, <3>1, <3>3 DEF Takes
  <2>2. CASE n = 0
    <3>1. ~(s # <<>> /\ s[1] \in g.set)
      BY <1>4, <1>6, <2>2
    <3>2. p = <<>>
      BY <1>5, <2>2, EmptySeq
    <3>3. r = s
      BY <1>5, <3>2, ConcatEmptySeq
    <3> QED
      BY <1>6, <3>1, <3>2, <3>3 DEF Takes
  <2> QED
    BY <1>4, <1>6, <2>1, <2>2
<1>7. ASSUME ~g.token PROVE Takes(g, p, r)
  <2>1. (\A i \in 1..n : s[i] \notin g.set) /\ (n < Len(s) => s[n + 1] \in g.set)
    BY <1>4, <1>7
  <2>2. ~(n < Len(s)) => n = Len(s)
    <3>1. n \in 0..Len(s) /\ Len(s) \in Nat
      BY <1>1, <1>4
    <3> QED
      BY <3>1
  <2> QED
    BY <1>5, <1>7, <2>1, <2>2 DEF Takes
<1>8. Takes(g, p, r)
  BY <1>6, <1>7
<1> QED
  BY <1>4, <1>5, <1>8 DEF p, r

(* c are the parts of the URL, and R[k] is what follows the k-th.          *)
Split(T, url, c, R) ==
    /\ c \in [1..9 -> Seq(T)] /\ R \in [0..9 -> Seq(T)] /\ R[0] = url
    /\ \A k \in 1..9 : R[k - 1] = c[k] \o R[k] /\ Takes(Groups[k], c[k], R[k])

(* What Components has taken after each group, as any function that does.  *)
IsAfter(url, f) ==
    f = [k \in 0..9 |-> IF k = 0 THEN [parts |-> <<>>, rest |-> url] ELSE TakeGroup(f[k - 1], Groups[k])]

(* There are nine groups.                                                  *)
LEMMA NineGroups == Len(Groups) = 9
  BY DEF Groups

(* A group is taken from what the earlier ones left.                       *)
LEMMA TakeGroupIs ==
    ASSUME NEW T, NEW p \in Seq(T), NEW r \in Seq(T), NEW g, Takes(g, p, r), NEW ps
    PROVE  TakeGroup([parts |-> ps, rest |-> p \o r], g) = [parts |-> Append(ps, p), rest |-> r]
<1>1. Part(g, p \o r) = p
  BY TakesIs
<1>2. Beyond(p \o r, p) = r
  BY BeyondIs
<1> QED
  BY <1>1, <1>2 DEF TakeGroup, Part

(* Parts that the groups take are the components.                          *)
LEMMA ComponentsIs ==
    ASSUME NEW T, NEW url, NEW c, NEW R, Split(T, url, c, R)
    PROVE  Components(url) = c
<1> DEFINE first(k) == [i \in 1..k |-> c[i]]
           f == [k \in 0..9 |-> [parts |-> first(k), rest |-> R[k]]]
<1>1. \A k \in 1..9 : c[k] \in Seq(T) /\ R[k] \in Seq(T) /\ R[k - 1] = c[k] \o R[k]
                      /\ Takes(Groups[k], c[k], R[k])
  <2> SUFFICES ASSUME NEW k \in 1..9
               PROVE  c[k] \in Seq(T) /\ R[k] \in Seq(T) /\ R[k - 1] = c[k] \o R[k]
                      /\ Takes(Groups[k], c[k], R[k])
    OBVIOUS
  <2>1. k \in 0..9
    OBVIOUS
  <2>2. c \in [1..9 -> Seq(T)] /\ R \in [0..9 -> Seq(T)]
    BY DEF Split
  <2>3. R[k - 1] = c[k] \o R[k] /\ Takes(Groups[k], c[k], R[k])
    BY DEF Split
  <2>4. c[k] \in Seq(T) /\ R[k] \in Seq(T)
    BY <2>1, <2>2
  <2> QED
    BY <2>3, <2>4
<1>2. R[0] = url
  BY DEF Split
<1>3. \A k \in 0..9 : first(k) \in Seq(Seq(T)) /\ Len(first(k)) = k /\ \A i \in 1..k : first(k)[i] = c[i]
  <2> SUFFICES ASSUME NEW k \in 0..9 PROVE first(k) \in Seq(Seq(T)) /\ Len(first(k)) = k
    OBVIOUS
  <2>1. \A i \in 1..k : c[i] \in Seq(T)
    <3>1. 1..k \subseteq 1..9
      OBVIOUS
    <3> QED
      BY <1>1, <3>1
  <2>2. first(k) \in [1..k -> Seq(T)]
    BY <2>1
  <2>3. k \in Nat
    OBVIOUS
  <2> HIDE DEF first
  <2> QED
    BY <2>2, <2>3, IntervalSeq
<1>4. \A k \in 1..9 : Append(first(k - 1), c[k]) = first(k)
  <2> SUFFICES ASSUME NEW k \in 1..9 PROVE Append(first(k - 1), c[k]) = first(k)
    OBVIOUS
  <2> HIDE DEF first
  <2>1. k - 1 \in 0..9 /\ k \in 0..9
    OBVIOUS
  <2>2. first(k - 1) \in Seq(Seq(T)) /\ Len(first(k - 1)) = k - 1 /\ \A i \in 1..(k - 1) : first(k - 1)[i] = c[i]
    BY <1>3, <2>1
  <2>3. first(k) \in Seq(Seq(T)) /\ Len(first(k)) = k /\ \A i \in 1..k : first(k)[i] = c[i]
    BY <1>3, <2>1
  <2>4. c[k] \in Seq(T)
    BY <1>1
  <2> DEFINE a == Append(first(k - 1), c[k])
  <2>5. /\ a \in Seq(Seq(T)) /\ Len(a) = Len(first(k - 1)) + 1
        /\ \A i \in 1..Len(first(k - 1)) : a[i] = first(k - 1)[i]
        /\ a[Len(first(k - 1)) + 1] = c[k]
    BY <2>2, <2>4, AppendProperties
  <2> HIDE DEF a
  <2>6. Len(a) = Len(first(k))
    BY <2>2, <2>3, <2>5
  <2>7. ASSUME NEW i \in 1..Len(a) PROVE a[i] = first(k)[i]
    <3>1. i \in 1..k
      BY <2>3, <2>6
    <3>2. CASE i = k
      BY <2>2, <2>3, <2>5, <3>1, <3>2
    <3>3. CASE i # k
      <4>1. i \in 1..(k - 1)
        BY <3>1, <3>3
      <4>2. a[i] = first(k - 1)[i]
        BY <2>2, <2>5, <4>1
      <4> QED
        BY <2>2, <2>3, <3>1, <4>1, <4>2
    <3> QED
      BY <3>2, <3>3
  <2>8. a = first(k)
    BY <2>3, <2>5, <2>6, <2>7, SeqEqual
  <2> QED
    BY <2>8 DEF a
<1>5. first(0) = <<>>
  BY <1>3, EmptySeq
<1>6. first(9) = c
  BY DEF Split
<1> HIDE DEF first
<1>7. \A k \in 1..9 : TakeGroup(f[k - 1], Groups[k]) = f[k]
  <2> SUFFICES ASSUME NEW k \in 1..9 PROVE TakeGroup(f[k - 1], Groups[k]) = f[k]
    OBVIOUS
  <2>0. k - 1 \in 0..9 /\ k \in 0..9
    OBVIOUS
  <2>1. f[k - 1] = [parts |-> first(k - 1), rest |-> R[k - 1]]
    BY <2>0
  <2>2. f[k] = [parts |-> first(k), rest |-> R[k]]
    BY <2>0
  <2> HIDE DEF f
  <2>3. c[k] \in Seq(T) /\ R[k] \in Seq(T) /\ R[k - 1] = c[k] \o R[k] /\ Takes(Groups[k], c[k], R[k])
    BY <1>1
  <2>4. TakeGroup([parts |-> first(k - 1), rest |-> c[k] \o R[k]], Groups[k])
          = [parts |-> Append(first(k - 1), c[k]), rest |-> R[k]]
    BY <2>3, TakeGroupIs
  <2>5. Append(first(k - 1), c[k]) = first(k)
    BY <1>4
  <2> QED
    BY <2>1, <2>2, <2>3, <2>4, <2>5
<1>8. f[0] = [parts |-> <<>>, rest |-> url]
  BY <1>2, <1>5
<1>9. f[9].parts = c
  BY <1>6
<1>10. f = [k \in 0..9 |-> f[k]]
  OBVIOUS
<1> HIDE DEF f
<1>11. IsAfter(url, f)
  BY <1>7, <1>8, <1>10 DEF IsAfter
<1> DEFINE h == CHOOSE x : IsAfter(url, x)
<1>12. IsAfter(url, h)
  BY <1>11
<1>13. Components(url) = h[9].parts
  BY NineGroups DEF Components, IsAfter
<1> HIDE DEF h
<1> DEFINE G == {k \in Nat : k \in 0..9 => h[k] = f[k]}
<1>14. 0 \in G
  BY <1>8, <1>12 DEF IsAfter
<1>15. ASSUME NEW k \in Nat, k \in G PROVE k + 1 \in G
  <2> SUFFICES ASSUME k + 1 \in 0..9 PROVE h[k + 1] = f[k + 1]
    OBVIOUS
  <2>1. k \in 0..9 /\ k + 1 \in 1..9 /\ k + 1 # 0 /\ (k + 1) - 1 = k
    OBVIOUS
  <2>2. h[k + 1] = TakeGroup(h[k], Groups[k + 1])
    BY <1>12, <2>1 DEF IsAfter
  <2>3. h[k] = f[k]
    BY <1>15, <2>1
  <2>4. TakeGroup(f[k], Groups[k + 1]) = f[k + 1]
    BY <1>7, <2>1
  <2> QED
    BY <2>2, <2>3, <2>4
<1> HIDE DEF G
<1>16. 9 \in G
  BY <1>14, <1>15, EveryNumber
<1> QED
  BY <1>9, <1>13, <1>16 DEF G

(* Every URL is split so.                                                  *)
LEMMA ComponentsSplit ==
    ASSUME NEW T, NEW url \in Seq(T)
    PROVE  \E R : Split(T, url, Components(url), R)
<1> DEFINE h == [n \in Nat |-> [s \in Seq(T) |-> Beyond(s, Part(Groups[n + 1], s))]]
<1>1. h \in [Nat -> [Seq(T) -> Seq(T)]]
  BY TakesAny
<1>2. PICK f : Loop(Seq(T), url, h, f)
  <2> HIDE DEF h
  <2> QED
    BY <1>1, LoopValues
<1>3. f \in [Nat -> Seq(T)] /\ f[0] = url
  BY <1>2 DEF Loop
<1>4. \A n \in Nat : f[n + 1] = Beyond(f[n], Part(Groups[n + 1], f[n]))
  BY <1>2, <1>3 DEF Loop
<1> HIDE DEF h
<1> DEFINE R == [k \in 0..9 |-> f[k]]
           c == [k \in 1..9 |-> Part(Groups[k], f[k - 1])]
<1>5. \A k \in 1..9 : /\ c[k] \in Seq(T)
                      /\ R[k - 1] = c[k] \o R[k]
                      /\ Takes(Groups[k], c[k], R[k])
  <2> SUFFICES ASSUME NEW k \in 1..9
               PROVE  /\ c[k] \in Seq(T)
                      /\ R[k - 1] = c[k] \o R[k]
                      /\ Takes(Groups[k], c[k], R[k])
    OBVIOUS
  <2>1. k - 1 \in Nat /\ (k - 1) + 1 = k /\ k - 1 \in 0..9 /\ k \in 0..9
    OBVIOUS
  <2>2. f[k - 1] \in Seq(T)
    BY <1>3, <2>1
  <2>3. f[k] = Beyond(f[k - 1], Part(Groups[k], f[k - 1]))
    BY <1>4, <2>1
  <2>4. c[k] = Part(Groups[k], f[k - 1]) /\ R[k] = f[k] /\ R[k - 1] = f[k - 1]
    BY <2>1
  <2> HIDE DEF c, R
  <2> DEFINE p == Part(Groups[k], f[k - 1])
  <2>5. p \in Seq(T) /\ f[k - 1] = p \o Beyond(f[k - 1], p) /\ Takes(Groups[k], p, Beyond(f[k - 1], p))
    BY <2>2, TakesAny
  <2> QED
    BY <2>3, <2>4, <2>5
<1>6. R \in [0..9 -> Seq(T)] /\ R[0] = url
  <2>1. \A k \in 0..9 : f[k] \in Seq(T)
    <3>1. 0..9 \subseteq Nat
      OBVIOUS
    <3> QED
      BY <1>3, <3>1
  <2> QED
    BY <1>3, <2>1
<1>7. c = [k \in 1..9 |-> c[k]]
  OBVIOUS
<1> HIDE DEF c, R
<1>8. c \in [1..9 -> Seq(T)]
  BY <1>5, <1>7
<1>9. Split(T, url, c, R)
  BY <1>5, <1>6, <1>8 DEF Split
<1>10. Components(url) = c
  BY <1>9, ComponentsIs
<1> QED
  BY <1>9, <1>10

(* The groups one by one.                                                  *)
LEMMA GroupsAre ==
    /\ Groups[1] = Token(Protocols) /\ Groups[2] = Token(Hosts)
    /\ Groups[3] = Text(Separators \cup {"/"}) /\ Groups[4] = Token(Separators) /\ Groups[5] = Text({"/"})
    /\ Groups[6] = Token({"/"})
    /\ Groups[7] = Text(Separators \cup {"/"}) /\ Groups[8] = Token(Separators) /\ Groups[9] = Text({"/"})
  BY DEF Groups

(* A token is taken or missing.                                            *)
LEMMA TokenTakes ==
    ASSUME NEW S, NEW p, NEW r
    PROVE  Takes(Token(S), p, r) <=> \/ p = <<>> /\ (r = <<>> \/ r[1] \notin S)
                                     \/ \E t \in S : p = <<t>>
  BY DEF Takes, Token

NoneOf(s, S) == \A i \in 1..Len(s) : s[i] \notin S

(* A text is taken up to one of a set.                                     *)
LEMMA TextTakes ==
    ASSUME NEW S, NEW p, NEW r
    PROVE  Takes(Text(S), p, r) <=> NoneOf(p, S) /\ (r = <<>> \/ r[1] \in S)
  BY DEF Takes, Text, NoneOf

(* Tokens that are in neither part are not in both together.               *)
LEMMA NoneOfConcat ==
    ASSUME NEW T, NEW p \in Seq(T), NEW r \in Seq(T), NEW S
    PROVE  NoneOf(p \o r, S) <=> NoneOf(p, S) /\ NoneOf(r, S)
<1> DEFINE s == p \o r
<1>1. Len(s) = Len(p) + Len(r)
      /\ \A i \in 1..Len(p) + Len(r) : s[i] = IF i <= Len(p) THEN p[i] ELSE r[i - Len(p)]
  BY ConcatProperties
<1>2. Len(p) \in Nat /\ Len(r) \in Nat
  BY LenProperties
<1> HIDE DEF s
<1>3. ASSUME NoneOf(s, S) PROVE NoneOf(p, S)
  BY <1>1, <1>2, <1>3 DEF NoneOf
<1>4. ASSUME NoneOf(s, S) PROVE NoneOf(r, S)
  <2> SUFFICES ASSUME NEW i \in 1..Len(r) PROVE r[i] \notin S
    BY DEF NoneOf
  <2>1. Len(p) + i \in 1..Len(p) + Len(r) /\ ~(Len(p) + i <= Len(p)) /\ Len(p) + i - Len(p) = i
    BY <1>2
  <2>2. s[Len(p) + i] = r[i]
    BY <1>1, <2>1
  <2>3. Len(p) + i \in 1..Len(s)
    BY <1>1, <2>1
  <2> QED
    BY <1>4, <2>2, <2>3 DEF NoneOf
<1>5. ASSUME NoneOf(p, S), NoneOf(r, S) PROVE NoneOf(s, S)
  <2> SUFFICES ASSUME NEW i \in 1..Len(s) PROVE s[i] \notin S
    BY DEF NoneOf
  <2>1. CASE i <= Len(p)
    BY <1>1, <1>2, <1>5, <2>1 DEF NoneOf
  <2>2. CASE ~(i <= Len(p))
    <3>1. i - Len(p) \in 1..Len(r)
      BY <1>1, <1>2, <2>2
    <3>2. s[i] = r[i - Len(p)]
      BY <1>1, <2>2
    <3> QED
      BY <1>5, <3>1, <3>2 DEF NoneOf
  <2> QED
    BY <2>1, <2>2
<1> QED
  BY <1>3, <1>4, <1>5 DEF s

(* The parts of a path: a name, a separator only with a value, and after a *)
(* slash the same.                                                         *)
Path(T, d) ==
    /\ d \in [1..9 -> Seq(T)]
    /\ \A k \in {3, 7} : NoneOf(d[k], Separators \cup {"/"})
    /\ \A k \in {4, 8} : /\ d[k] = <<>> \/ \E t \in Separators : d[k] = <<t>>
                         /\ d[k] = <<>> => d[k + 1] = <<>>
                         /\ NoneOf(d[k + 1], {"/"})
    /\ d[6] \in {<<>>, <<"/">>}
    /\ d[6] = <<>> => d[7] = <<>> /\ d[8] = <<>> /\ d[9] = <<>>

(* A part that would begin with what ends it is empty.                     *)
LEMMA EmptyPart ==
    ASSUME NEW T, NEW p \in Seq(T), NEW r \in Seq(T), NEW S, NoneOf(p, S),
           p \o r = <<>> \/ (p \o r)[1] \in S
    PROVE  p = <<>>
<1> SUFFICES ASSUME p # <<>> PROVE FALSE
  OBVIOUS
<1>1. p \o r # <<>> /\ (p \o r)[1] = p[1] /\ Len(p) \in Nat /\ Len(p) > 0
  BY FirstOf
<1>2. 1 \in 1..Len(p)
  BY <1>1
<1> QED
  BY <1>1, <1>2 DEF NoneOf

(* Each part of a URL, and what follows it.                                *)
Chain(T, c, R) ==
    /\ R[0] = c[1] \o R[1] /\ R[1] = c[2] \o R[2] /\ R[2] = c[3] \o R[3]
    /\ R[3] = c[4] \o R[4] /\ R[4] = c[5] \o R[5] /\ R[5] = c[6] \o R[6]
    /\ R[6] = c[7] \o R[7] /\ R[7] = c[8] \o R[8] /\ R[8] = c[9] \o R[9]
    /\ c[1] \in Seq(T) /\ c[2] \in Seq(T) /\ c[3] \in Seq(T) /\ c[4] \in Seq(T) /\ c[5] \in Seq(T)
    /\ c[6] \in Seq(T) /\ c[7] \in Seq(T) /\ c[8] \in Seq(T) /\ c[9] \in Seq(T)
    /\ R[0] \in Seq(T) /\ R[1] \in Seq(T) /\ R[2] \in Seq(T) /\ R[3] \in Seq(T) /\ R[4] \in Seq(T)
    /\ R[5] \in Seq(T) /\ R[6] \in Seq(T) /\ R[7] \in Seq(T) /\ R[8] \in Seq(T) /\ R[9] \in Seq(T)

(* Parts one by one.                                                       *)
LEMMA ChainIs ==
    ASSUME NEW T, NEW c \in [1..9 -> Seq(T)], NEW R \in [0..9 -> Seq(T)],
           \A k \in 1..9 : R[k - 1] = c[k] \o R[k]
    PROVE  Chain(T, c, R)
<1>0. \A k \in 1..9 : R[k - 1] = c[k] \o R[k]
  OBVIOUS
<1>1. R[0] = c[1] \o R[1]
  <2>1. PICK k \in 1..9 : k = 1
    OBVIOUS
  <2>2. R[k - 1] = c[k] \o R[k]
    BY <1>0
  <2>3. k - 1 = 0
    BY <2>1
  <2> QED
    BY <2>1, <2>2, <2>3
<1>2. R[1] = c[2] \o R[2]
  <2>1. PICK k \in 1..9 : k = 2
    OBVIOUS
  <2>2. R[k - 1] = c[k] \o R[k]
    BY <1>0
  <2>3. k - 1 = 1
    BY <2>1
  <2> QED
    BY <2>1, <2>2, <2>3
<1>3. R[2] = c[3] \o R[3]
  <2>1. PICK k \in 1..9 : k = 3
    OBVIOUS
  <2>2. R[k - 1] = c[k] \o R[k]
    BY <1>0
  <2>3. k - 1 = 2
    BY <2>1
  <2> QED
    BY <2>1, <2>2, <2>3
<1>4. R[3] = c[4] \o R[4]
  <2>1. PICK k \in 1..9 : k = 4
    OBVIOUS
  <2>2. R[k - 1] = c[k] \o R[k]
    BY <1>0
  <2>3. k - 1 = 3
    BY <2>1
  <2> QED
    BY <2>1, <2>2, <2>3
<1>5. R[4] = c[5] \o R[5]
  <2>1. PICK k \in 1..9 : k = 5
    OBVIOUS
  <2>2. R[k - 1] = c[k] \o R[k]
    BY <1>0
  <2>3. k - 1 = 4
    BY <2>1
  <2> QED
    BY <2>1, <2>2, <2>3
<1>6. R[5] = c[6] \o R[6]
  <2>1. PICK k \in 1..9 : k = 6
    OBVIOUS
  <2>2. R[k - 1] = c[k] \o R[k]
    BY <1>0
  <2>3. k - 1 = 5
    BY <2>1
  <2> QED
    BY <2>1, <2>2, <2>3
<1>7. R[6] = c[7] \o R[7]
  <2>1. PICK k \in 1..9 : k = 7
    OBVIOUS
  <2>2. R[k - 1] = c[k] \o R[k]
    BY <1>0
  <2>3. k - 1 = 6
    BY <2>1
  <2> QED
    BY <2>1, <2>2, <2>3
<1>8. R[7] = c[8] \o R[8]
  <2>1. PICK k \in 1..9 : k = 8
    OBVIOUS
  <2>2. R[k - 1] = c[k] \o R[k]
    BY <1>0
  <2>3. k - 1 = 7
    BY <2>1
  <2> QED
    BY <2>1, <2>2, <2>3
<1>9. R[8] = c[9] \o R[9]
  <2>1. PICK k \in 1..9 : k = 9
    OBVIOUS
  <2>2. R[k - 1] = c[k] \o R[k]
    BY <1>0
  <2>3. k - 1 = 8
    BY <2>1
  <2> QED
    BY <2>1, <2>2, <2>3
<1>10. c \in [1..9 -> Seq(T)] /\ R \in [0..9 -> Seq(T)]
  OBVIOUS
<1>11. /\ c[1] \in Seq(T) /\ c[2] \in Seq(T) /\ c[3] \in Seq(T) /\ c[4] \in Seq(T) /\ c[5] \in Seq(T)
       /\ c[6] \in Seq(T) /\ c[7] \in Seq(T) /\ c[8] \in Seq(T) /\ c[9] \in Seq(T)
  BY <1>10
<1>12. /\ R[0] \in Seq(T) /\ R[1] \in Seq(T) /\ R[2] \in Seq(T) /\ R[3] \in Seq(T) /\ R[4] \in Seq(T)
       /\ R[5] \in Seq(T) /\ R[6] \in Seq(T) /\ R[7] \in Seq(T) /\ R[8] \in Seq(T) /\ R[9] \in Seq(T)
  BY <1>10
<1> QED
  BY <1>1, <1>2, <1>3, <1>4, <1>5, <1>6, <1>7, <1>8, <1>9, <1>11, <1>12 DEF Chain

(* The groups of a URL one by one.                                         *)
LEMMA SplitSteps ==
    ASSUME NEW T, NEW url, NEW c, NEW R, Split(T, url, c, R)
    PROVE  Chain(T, c, R)
<1>1. c \in [1..9 -> Seq(T)] /\ R \in [0..9 -> Seq(T)]
  BY DEF Split
<1>2. \A k \in 1..9 : R[k - 1] = c[k] \o R[k]
  BY DEF Split
<1> QED
  BY <1>1, <1>2, ChainIs

(* Nothing is two empty parts.                                             *)
LEMMA BothEmpty ==
    ASSUME NEW T, NEW p \in Seq(T), NEW r \in Seq(T), p \o r = <<>>
    PROVE  p = <<>> /\ r = <<>>
<1>1. p = <<>>
  BY FirstOf
<1>2. p \o r = r
  BY <1>1, FirstOf
<1> QED
  BY <1>1, <1>2

(* The components of a URL are a path.                                     *)
LEMMA PathOf ==
    ASSUME NEW T, NEW url, NEW c, NEW R, Split(T, url, c, R)
    PROVE  Path(T, c)
<1>1. c \in [1..9 -> Seq(T)] /\ R \in [0..9 -> Seq(T)]
  BY DEF Split
<1>2. \A k \in 1..9 : R[k - 1] = c[k] \o R[k] /\ Takes(Groups[k], c[k], R[k])
  BY DEF Split
<1>3. c[3] \in Seq(T) /\ c[4] \in Seq(T) /\ c[5] \in Seq(T) /\ c[6] \in Seq(T) /\ c[7] \in Seq(T)
      /\ c[8] \in Seq(T) /\ c[9] \in Seq(T)
  BY <1>1
<1>4. R[3] \in Seq(T) /\ R[4] \in Seq(T) /\ R[5] \in Seq(T) /\ R[6] \in Seq(T) /\ R[7] \in Seq(T)
      /\ R[8] \in Seq(T) /\ R[9] \in Seq(T)
  BY <1>1
<1>5. R[3] = c[4] \o R[4] /\ R[4] = c[5] \o R[5] /\ R[5] = c[6] \o R[6] /\ R[6] = c[7] \o R[7]
      /\ R[7] = c[8] \o R[8] /\ R[8] = c[9] \o R[9]
  <2>1. Chain(T, c, R)
    BY SplitSteps
  <2> QED
    BY <2>1 DEF Chain
<1>6. /\ Takes(Groups[3], c[3], R[3]) /\ Takes(Groups[4], c[4], R[4]) /\ Takes(Groups[5], c[5], R[5])
      /\ Takes(Groups[6], c[6], R[6]) /\ Takes(Groups[7], c[7], R[7]) /\ Takes(Groups[8], c[8], R[8])
      /\ Takes(Groups[9], c[9], R[9])
  BY <1>2
<1>7. NoneOf(c[3], Separators \cup {"/"}) /\ (R[3] = <<>> \/ R[3][1] \in Separators \cup {"/"})
  BY <1>6, GroupsAre, TextTakes
<1>8. NoneOf(c[7], Separators \cup {"/"}) /\ (R[7] = <<>> \/ R[7][1] \in Separators \cup {"/"})
  BY <1>6, GroupsAre, TextTakes
<1>9. NoneOf(c[5], {"/"}) /\ (R[5] = <<>> \/ R[5][1] \in {"/"})
  BY <1>6, GroupsAre, TextTakes
<1>10. NoneOf(c[9], {"/"})
  BY <1>6, GroupsAre, TextTakes
<1>11. (c[4] = <<>> /\ (R[4] = <<>> \/ R[4][1] \notin Separators)) \/ \E t \in Separators : c[4] = <<t>>
  BY <1>6, GroupsAre, TokenTakes
<1>12. (c[8] = <<>> /\ (R[8] = <<>> \/ R[8][1] \notin Separators)) \/ \E t \in Separators : c[8] = <<t>>
  BY <1>6, GroupsAre, TokenTakes
<1>13. (c[6] = <<>> /\ (R[6] = <<>> \/ R[6][1] \notin {"/"})) \/ \E t \in {"/"} : c[6] = <<t>>
  BY <1>6, GroupsAre, TokenTakes
<1>14. ASSUME c[4] = <<>> PROVE c[5] = <<>>
  <2>1. R[3] = R[4]
    BY <1>4, <1>5, <1>14, ConcatEmptySeq
  <2>2. R[4] = <<>> \/ R[4][1] \in {"/"}
    BY <1>7, <1>11, <1>14, <2>1
  <2> QED
    BY <1>3, <1>4, <1>5, <1>9, <2>2, EmptyPart
<1>15. ASSUME c[8] = <<>> PROVE c[9] = <<>>
  <2>1. R[7] = R[8]
    BY <1>4, <1>5, <1>15, ConcatEmptySeq
  <2>2. R[8] = <<>> \/ R[8][1] \in {"/"}
    BY <1>8, <1>12, <1>15, <2>1
  <2> QED
    BY <1>3, <1>4, <1>5, <1>10, <2>2, EmptyPart
<1>16. ASSUME c[6] = <<>> PROVE c[7] = <<>> /\ c[8] = <<>> /\ c[9] = <<>>
  <2>1. R[5] = R[6]
    BY <1>4, <1>5, <1>16, ConcatEmptySeq
  <2>2. R[6] = <<>>
    BY <1>9, <1>13, <1>16, <2>1
  <2>3. c[7] = <<>> /\ R[7] = <<>>
    BY <1>3, <1>4, <1>5, <2>2, BothEmpty
  <2>4. c[8] = <<>> /\ R[8] = <<>>
    BY <1>3, <1>4, <1>5, <2>3, BothEmpty
  <2>5. c[9] = <<>>
    BY <1>3, <1>4, <1>5, <2>4, BothEmpty
  <2> QED
    BY <2>3, <2>4, <2>5
<1>17. \A k \in {3, 7} : NoneOf(c[k], Separators \cup {"/"})
  BY <1>7, <1>8
<1>18. \A k \in {4, 8} : /\ c[k] = <<>> \/ \E t \in Separators : c[k] = <<t>>
                         /\ c[k] = <<>> => c[k + 1] = <<>>
                         /\ NoneOf(c[k + 1], {"/"})
  <2> SUFFICES ASSUME NEW k \in {4, 8}
               PROVE  /\ c[k] = <<>> \/ \E t \in Separators : c[k] = <<t>>
                      /\ c[k] = <<>> => c[k + 1] = <<>>
                      /\ NoneOf(c[k + 1], {"/"})
    OBVIOUS
  <2>1. CASE k = 4
    <3>1. k + 1 = 5
      BY <2>1
    <3> QED
      BY <1>9, <1>11, <1>14, <2>1, <3>1
  <2>2. CASE k = 8
    <3>1. k + 1 = 9
      BY <2>2
    <3> QED
      BY <1>10, <1>12, <1>15, <2>2, <3>1
  <2> QED
    BY <2>1, <2>2
<1> QED
  BY <1>1, <1>13, <1>16, <1>17, <1>18 DEF Path

(* R[k] is what follows the k-th of the n parts, when nothing follows the  *)
(* last.                                                                   *)
Follows(T, n, d, R) ==
    /\ d \in [1..n -> Seq(T)] /\ R \in [0..n -> Seq(T)] /\ R[n] = <<>>
    /\ \A k \in 1..n : R[k - 1] = d[k] \o R[k]

(* Any parts can be followed so.                                           *)
LEMMA FollowsExists ==
    ASSUME NEW T, NEW n \in Nat, NEW d \in [1..n -> Seq(T)]
    PROVE  \E R : Follows(T, n, d, R)
<1> DEFINE h == [j \in Nat |-> [s \in Seq(T) |-> IF n - j \in 1..n THEN d[n - j] \o s ELSE s]]
<1>1. h \in [Nat -> [Seq(T) -> Seq(T)]]
  <2> SUFFICES ASSUME NEW j \in Nat, NEW s \in Seq(T), n - j \in 1..n PROVE d[n - j] \o s \in Seq(T)
    OBVIOUS
  <2>1. d[n - j] \in Seq(T)
    OBVIOUS
  <2> QED
    BY <2>1, ConcatProperties
<1>2. <<>> \in Seq(T)
  BY EmptySeq
<1>3. PICK f : Loop(Seq(T), <<>>, h, f)
  <2> HIDE DEF h
  <2> QED
    BY <1>1, <1>2, LoopValues
<1>4. f \in [Nat -> Seq(T)] /\ f[0] = <<>>
  BY <1>3 DEF Loop
<1>5. \A j \in Nat : n - j \in 1..n => f[j + 1] = d[n - j] \o f[j]
  BY <1>3, <1>4 DEF Loop
<1> HIDE DEF h
<1> DEFINE R == [k \in 0..n |-> f[n - k]]
<1>6. R \in [0..n -> Seq(T)]
  <2>1. \A k \in 0..n : f[n - k] \in Seq(T)
    <3>1. \A k \in 0..n : n - k \in Nat
      OBVIOUS
    <3> QED
      BY <1>4, <3>1
  <2> QED
    BY <2>1
<1>7. R[n] = <<>>
  BY <1>4
<1>8. ASSUME NEW k \in 1..n PROVE R[k - 1] = d[k] \o R[k]
  <2>1. n - k \in Nat /\ n - (n - k) = k /\ (n - k) + 1 = n - (k - 1) /\ k - 1 \in 0..n /\ k \in 0..n
    OBVIOUS
  <2>2. R[k - 1] = f[n - (k - 1)] /\ R[k] = f[n - k]
    BY <2>1
  <2> HIDE DEF R
  <2>3. f[(n - k) + 1] = d[n - (n - k)] \o f[n - k]
    <3> DEFINE j == n - k
    <3>1. j \in Nat /\ n - j \in 1..n
      BY <2>1
    <3> HIDE DEF j
    <3>2. f[j + 1] = d[n - j] \o f[j]
      BY <1>5, <3>1
    <3> QED
      BY <3>2 DEF j
  <2> QED
    BY <2>1, <2>2, <2>3
<1> HIDE DEF R
<1> QED
  BY <1>6, <1>7, <1>8 DEF Follows

(* FlattenSeq joins the parts.                                             *)
LEMMA FlattenFollows ==
    ASSUME NEW T, NEW n \in Nat \ {0}, NEW d, NEW R, Follows(T, n, d, R)
    PROVE  FlattenSeq(d) = R[0]
<1>1. d \in [1..n -> Seq(T)] /\ R \in [0..n -> Seq(T)] /\ R[n] = <<>>
  BY DEF Follows
<1>2. \A k \in 1..n : R[k - 1] = d[k] \o R[k]
  BY DEF Follows
<1>3. Len(d) = n
  BY <1>1, IntervalSeq
<1> DEFINE h == [j \in Nat |-> [s \in Seq(T) |-> IF j + 2 \in 1..n THEN s \o d[j + 2] ELSE s]]
<1>4. h \in [Nat -> [Seq(T) -> Seq(T)]]
  <2> SUFFICES ASSUME NEW j \in Nat, NEW s \in Seq(T), j + 2 \in 1..n PROVE s \o d[j + 2] \in Seq(T)
    OBVIOUS
  <2>1. d[j + 2] \in Seq(T)
    BY <1>1
  <2> QED
    BY <2>1, ConcatProperties
<1>5. d[1] \in Seq(T)
  BY <1>1
<1>6. PICK f : Loop(Seq(T), d[1], h, f)
  <2> HIDE DEF h
  <2> QED
    BY <1>4, <1>5, LoopValues
<1>7. f \in [Nat -> Seq(T)] /\ f[0] = d[1]
  BY <1>6 DEF Loop
<1>8. \A j \in Nat : j + 2 \in 1..n => f[j + 1] = f[j] \o d[j + 2]
  BY <1>6, <1>7 DEF Loop
<1> HIDE DEF h
<1> DEFINE g == [i \in 1..n |-> f[i - 1]]
<1>9. ASSUME NEW i \in 1..n PROVE g[i] = IF i = 1 THEN d[i] ELSE g[i - 1] \o d[i]
  <2>1. CASE i = 1
    BY <1>7, <2>1
  <2>2. CASE i # 1
    <3> DEFINE j == i - 2
    <3>1. j \in Nat /\ j + 2 = i /\ j + 1 = i - 1 /\ i - 1 \in 1..n /\ (i - 1) - 1 = j
      BY <2>2
    <3>2. g[i] = f[i - 1] /\ g[i - 1] = f[(i - 1) - 1]
      BY <3>1
    <3> HIDE DEF g, j
    <3>3. f[j + 1] = f[j] \o d[j + 2]
      BY <1>8, <3>1
    <3> QED
      BY <2>2, <3>1, <3>2, <3>3
  <2> QED
    BY <2>1, <2>2
<1>10. g = [i \in 1..Len(d) |-> IF i = 1 THEN d[i] ELSE g[i - 1] \o d[i]]
  <2>1. g = [i \in 1..n |-> g[i]]
    OBVIOUS
  <2> HIDE DEF g
  <2>2. g = [i \in 1..n |-> IF i = 1 THEN d[i] ELSE g[i - 1] \o d[i]]
    BY <1>9, <2>1
  <2> QED
    BY <1>3, <2>2
<1>11. g[n] = f[n - 1]
  OBVIOUS
<1> HIDE DEF g
<1>12. FlattenSeq(d) = g[n]
  <2>1. Len(d) \in Nat /\ Len(d) # 0
    BY <1>3
  <2> QED
    BY <1>3, <1>10, <2>1, FlattenIs
<1> DEFINE P(j) == \A k \in 1..n : k = j + 1 => R[0] = f[j] \o R[k]
           G == {j \in Nat : P(j)}
<1>13. P(0)
  <2> SUFFICES ASSUME NEW k \in 1..n, k = 0 + 1 PROVE R[0] = f[0] \o R[k]
    OBVIOUS
  <2>1. R[k - 1] = d[k] \o R[k]
    BY <1>2
  <2>2. k - 1 = 0 /\ k = 1
    OBVIOUS
  <2>3. R[0] = d[k] \o R[k]
    BY <2>1, <2>2
  <2>4. f[0] = d[k]
    BY <1>7, <2>2
  <2> QED
    BY <2>3, <2>4
<1>14. ASSUME NEW j \in Nat, P(j) PROVE P(j + 1)
  <2> SUFFICES ASSUME NEW m \in 1..n, m = (j + 1) + 1 PROVE R[0] = f[j + 1] \o R[m]
    OBVIOUS
  <2> DEFINE k == j + 1
  <2>1. k \in 1..n /\ m - 1 = k /\ m \in 0..n /\ m = j + 2
    OBVIOUS
  <2>2. R[0] = f[j] \o R[k]
    BY <1>14, <2>1
  <2> HIDE DEF P
  <2>3. R[m - 1] = d[m] \o R[m]
    BY <1>2
  <2>4. f[k] = f[j] \o d[m]
    <3>1. f[j + 1] = f[j] \o d[j + 2]
      BY <1>8, <2>1
    <3> QED
      BY <2>1, <3>1
  <2> HIDE DEF k
  <2>5. f[j] \in Seq(T) /\ d[m] \in Seq(T) /\ R[m] \in Seq(T)
    BY <1>1, <1>7, <2>1
  <2>6. (f[j] \o d[m]) \o R[m] = f[j] \o (d[m] \o R[m])
    <3> DEFINE a == f[j]
               b == d[m]
               e == R[m]
    <3>1. a \in Seq(T) /\ b \in Seq(T) /\ e \in Seq(T)
      BY <2>5
    <3> HIDE DEF a, b, e
    <3>2. (a \o b) \o e = a \o (b \o e)
      BY <3>1, ConcatAssociative
    <3> QED
      BY <3>2 DEF a, b, e
  <2>7. R[0] = f[k] \o R[m]
    BY <2>1, <2>2, <2>3, <2>4, <2>6
  <2> QED
    BY <2>7 DEF k
<1>15. P(n - 1)
  <2>1. 0 \in G /\ \A j \in Nat : j \in G => j + 1 \in G
    <3> HIDE DEF P
    <3> QED
      BY <1>13, <1>14
  <2>2. \A j \in Nat : j \in G
    <3> HIDE DEF G
    <3> QED
      BY <2>1, EveryNumber
  <2>3. n - 1 \in Nat
    OBVIOUS
  <2> HIDE DEF P
  <2> QED
    BY <2>2, <2>3
<1>16. R[0] = f[n - 1] \o R[n]
  <2>1. n \in 1..n /\ n = (n - 1) + 1
    OBVIOUS
  <2> QED
    BY <1>15, <2>1
<1>17. R[0] = f[n - 1]
  <2>1. f[n - 1] \in Seq(T)
    BY <1>7
  <2> QED
    BY <1>1, <1>16, <2>1, ConcatEmptySeq
<1> QED
  BY <1>11, <1>12, <1>17

(* One part after the other, when nothing follows the last.                *)
LEMMA FollowsSteps ==
    ASSUME NEW T, NEW d, NEW R, Follows(T, 9, d, R)
    PROVE  Chain(T, d, R) /\ R[9] = <<>>
<1>1. d \in [1..9 -> Seq(T)] /\ R \in [0..9 -> Seq(T)] /\ R[9] = <<>>
  BY DEF Follows
<1>2. \A k \in 1..9 : R[k - 1] = d[k] \o R[k]
  BY DEF Follows
<1>3. Chain(T, d, R)
  BY <1>1, <1>2, ChainIs
<1> QED
  BY <1>1, <1>3

(* Separators and slashes are no hosts.                                    *)
LEMMA NoHosts == "/" \notin Hosts /\ "/" \notin Separators /\ \A t \in Separators : t \notin Hosts
  BY DEF Hosts, Separators

(* The first token of the first part is the first of all.                  *)
LEMMA PartFirst ==
    ASSUME NEW T, NEW p \in Seq(T), NEW r \in Seq(T), p # <<>>, NEW s, s = p \o r
    PROVE  s # <<>> /\ s[1] = p[1]
  BY FirstOf

(* A single token begins what it is in front of.                           *)
LEMMA TokenFirst ==
    ASSUME NEW T, NEW p \in Seq(T), NEW r \in Seq(T), NEW t, p = <<t>>, NEW s, s = p \o r
    PROVE  s # <<>> /\ s[1] = t
<1>1. p # <<>> /\ p[1] = t
  OBVIOUS
<1>2. p \o r # <<>> /\ (p \o r)[1] = p[1]
  BY <1>1, FirstOf
<1> QED
  BY <1>1, <1>2

(* A path behind lbry:// is taken apart as it was put together.            *)
LEMMA PathTaken ==
    ASSUME NEW T, NEW d, NEW R, Path(T, d), Follows(T, 9, d, R),
           d[1] = <<"lbry://">>, d[2] = <<>>, d[3] # <<>> => d[3][1] \notin Hosts
    PROVE  Components(R[0]) = d
<1>1. Chain(T, d, R) /\ R[9] = <<>>
  BY FollowsSteps
<1>2. /\ R[2] = d[3] \o R[3] /\ R[3] = d[4] \o R[4] /\ R[4] = d[5] \o R[5] /\ R[5] = d[6] \o R[6]
      /\ R[6] = d[7] \o R[7] /\ R[7] = d[8] \o R[8] /\ R[8] = d[9] \o R[9]
      /\ d[3] \in Seq(T) /\ d[4] \in Seq(T) /\ d[5] \in Seq(T) /\ d[6] \in Seq(T) /\ d[7] \in Seq(T)
      /\ d[8] \in Seq(T) /\ d[9] \in Seq(T)
      /\ R[2] \in Seq(T) /\ R[3] \in Seq(T) /\ R[4] \in Seq(T) /\ R[5] \in Seq(T) /\ R[6] \in Seq(T)
      /\ R[7] \in Seq(T) /\ R[8] \in Seq(T) /\ R[9] \in Seq(T)
  BY <1>1 DEF Chain
<1>3. NoneOf(d[3], Separators \cup {"/"}) /\ NoneOf(d[7], Separators \cup {"/"})
  BY DEF Path
<1>4. /\ d[4] = <<>> \/ \E t \in Separators : d[4] = <<t>>
      /\ d[4] = <<>> => d[5] = <<>>
      /\ NoneOf(d[5], {"/"})
  <2>1. PICK k \in {4, 8} : k = 4
    OBVIOUS
  <2>2. /\ d[k] = <<>> \/ \E t \in Separators : d[k] = <<t>>
        /\ d[k] = <<>> => d[k + 1] = <<>>
        /\ NoneOf(d[k + 1], {"/"})
    BY DEF Path
  <2>3. k + 1 = 5
    BY <2>1
  <2> QED
    BY <2>1, <2>2, <2>3
<1>5. /\ d[8] = <<>> \/ \E t \in Separators : d[8] = <<t>>
      /\ d[8] = <<>> => d[9] = <<>>
      /\ NoneOf(d[9], {"/"})
  <2>1. PICK k \in {4, 8} : k = 8
    OBVIOUS
  <2>2. /\ d[k] = <<>> \/ \E t \in Separators : d[k] = <<t>>
        /\ d[k] = <<>> => d[k + 1] = <<>>
        /\ NoneOf(d[k + 1], {"/"})
    BY DEF Path
  <2>3. k + 1 = 9
    BY <2>1
  <2> QED
    BY <2>1, <2>2, <2>3
<1>6. d[6] \in {<<>>, <<"/">>} /\ (d[6] = <<>> => d[7] = <<>> /\ d[8] = <<>> /\ d[9] = <<>>)
  BY DEF Path
<1>7. d[9] = <<>> => R[8] = <<>>
  BY <1>1, <1>2, ConcatEmptySeq
<1>8. d[8] = <<>> => R[8] = <<>> /\ R[7] = <<>>
  BY <1>2, <1>5, <1>7, ConcatEmptySeq
<1>9. R[7] = <<>> \/ R[7][1] \in Separators
  <2>1. CASE d[8] = <<>>
    BY <1>8, <2>1
  <2>2. ASSUME NEW t \in Separators, d[8] = <<t>> PROVE R[7] # <<>> /\ R[7][1] = t
    BY <1>2, <2>2, TokenFirst
  <2> QED
    BY <1>5, <2>1, <2>2
<1>10. d[6] = <<>> => R[6] = <<>> /\ R[5] = <<>>
  BY <1>2, <1>6, <1>8, ConcatEmptySeq
<1>11. R[5] = <<>> \/ R[5][1] = "/"
  <2>1. CASE d[6] = <<>>
    BY <1>10, <2>1
  <2>2. ASSUME d[6] = <<"/">> PROVE R[5] # <<>> /\ R[5][1] = "/"
    BY <1>2, <2>2, TokenFirst
  <2> QED
    BY <1>6, <2>1, <2>2
<1>12. d[4] = <<>> => R[4] = R[5] /\ R[3] = R[5]
  BY <1>2, <1>4, ConcatEmptySeq
<1>13. R[3] = <<>> \/ R[3][1] \in Separators \cup {"/"}
  <2>1. CASE d[4] = <<>>
    BY <1>11, <1>12, <2>1
  <2>2. CASE d[4] # <<>>
    <3>1. PICK t \in Separators : d[4] = <<t>>
      BY <1>4, <2>2
    <3>2. R[3] # <<>> /\ R[3][1] = t
      BY <1>2, <3>1, TokenFirst
    <3> QED
      BY <3>2
  <2> QED
    BY <2>1, <2>2
<1>14. R[2] = <<>> \/ R[2][1] \notin Hosts
  <2>1. CASE d[3] = <<>>
    BY <1>2, <1>13, <2>1, ConcatEmptySeq, NoHosts
  <2>2. CASE d[3] # <<>>
    <3>0. d[3] \in Seq(T) /\ R[3] \in Seq(T) /\ R[2] = d[3] \o R[3]
      BY <1>2
    <3>1. R[2] # <<>> /\ R[2][1] = d[3][1]
      BY <2>2, <3>0, PartFirst
    <3> QED
      BY <2>2, <3>1
  <2> QED
    BY <2>1, <2>2
<1>15. Takes(Groups[1], d[1], R[1])
  <2>1. "lbry://" \in Protocols
    BY DEF Protocols
  <2> QED
    BY <2>1, GroupsAre, TokenTakes
<1>16. Takes(Groups[2], d[2], R[2])
  BY <1>14, GroupsAre, TokenTakes
<1>17. Takes(Groups[3], d[3], R[3])
  BY <1>3, <1>13, GroupsAre, TextTakes
<1>18. Takes(Groups[4], d[4], R[4])
  <2>1. CASE d[4] = <<>>
    <3>1. R[4] = <<>> \/ R[4][1] \notin Separators
      BY <1>11, <1>12, <2>1, NoHosts
    <3>2. Takes(Token(Separators), d[4], R[4])
      BY <2>1, <3>1, TokenTakes
    <3> QED
      BY <3>2, GroupsAre
  <2>2. CASE d[4] # <<>>
    <3>1. Takes(Token(Separators), d[4], R[4])
      BY <1>4, <2>2, TokenTakes
    <3> QED
      BY <3>1, GroupsAre
  <2> QED
    BY <2>1, <2>2
<1>19. Takes(Groups[5], d[5], R[5])
  <2>1. R[5] = <<>> \/ R[5][1] \in {"/"}
    BY <1>11
  <2> QED
    BY <1>4, <2>1, GroupsAre, TextTakes
<1>20. Takes(Groups[6], d[6], R[6])
  <2>1. d[6] = <<>> \/ \E t \in {"/"} : d[6] = <<t>>
    BY <1>6
  <2> QED
    <3>1. Takes(Token({"/"}), d[6], R[6])
      BY <1>10, <2>1, TokenTakes
    <3> QED
      BY <3>1, GroupsAre
<1>21. Takes(Groups[7], d[7], R[7])
  <2>1. R[7] = <<>> \/ R[7][1] \in Separators \cup {"/"}
    BY <1>9
  <2> QED
    BY <1>3, <2>1, GroupsAre, TextTakes
<1>22. Takes(Groups[8], d[8], R[8])
  <2>1. Takes(Token(Separators), d[8], R[8])
    BY <1>5, <1>8, TokenTakes
  <2> QED
    BY <2>1, GroupsAre
<1>23. Takes(Groups[9], d[9], R[9])
  BY <1>1, <1>5, GroupsAre, TextTakes
<1>24. \A k \in 1..9 : Takes(Groups[k], d[k], R[k])
  <2> SUFFICES ASSUME NEW k \in 1..9 PROVE Takes(Groups[k], d[k], R[k])
    OBVIOUS
  <2>1. k \in {1, 2, 3, 4, 5, 6, 7, 8, 9}
    OBVIOUS
  <2> QED
    BY <1>15, <1>16, <1>17, <1>18, <1>19, <1>20, <1>21, <1>22, <1>23, <2>1
<1>25. Split(T, R[0], d, R)
  BY <1>24 DEF Split, Follows
<1> QED
  BY <1>25, ComponentsIs

(* A token is not in s, said of its places.                                *)
LEMMA NotInSet ==
    ASSUME NEW T, NEW s \in Seq(T), NEW x
    PROVE  x \notin ToSet(s) <=> NoneOf(s, {x})
<1>1. DOMAIN s = 1..Len(s)
  BY LenProperties
<1> QED
  BY <1>1 DEF ToSet, NoneOf

(* Tokens that are in no part are not in the whole.                        *)
LEMMA ChainNone ==
    ASSUME NEW T, NEW c, NEW R, Chain(T, c, R), NEW S
    PROVE  NoneOf(R[0], S) <=> (\A k \in 1..9 : NoneOf(c[k], S)) /\ NoneOf(R[9], S)
<1>1. NoneOf(R[0], S) <=> NoneOf(c[1], S) /\ NoneOf(R[1], S)
  <2>1. R[0] = c[1] \o R[1] /\ c[1] \in Seq(T) /\ R[1] \in Seq(T)
    BY DEF Chain
  <2> QED
    BY <2>1, NoneOfConcat
<1>2. NoneOf(R[1], S) <=> NoneOf(c[2], S) /\ NoneOf(R[2], S)
  <2>1. R[1] = c[2] \o R[2] /\ c[2] \in Seq(T) /\ R[2] \in Seq(T)
    BY DEF Chain
  <2> QED
    BY <2>1, NoneOfConcat
<1>3. NoneOf(R[2], S) <=> NoneOf(c[3], S) /\ NoneOf(R[3], S)
  <2>1. R[2] = c[3] \o R[3] /\ c[3] \in Seq(T) /\ R[3] \in Seq(T)
    BY DEF Chain
  <2> QED
    BY <2>1, NoneOfConcat
<1>4. NoneOf(R[3], S) <=> NoneOf(c[4], S) /\ NoneOf(R[4], S)
  <2>1. R[3] = c[4] \o R[4] /\ c[4] \in Seq(T) /\ R[4] \in Seq(T)
    BY DEF Chain
  <2> QED
    BY <2>1, NoneOfConcat
<1>5. NoneOf(R[4], S) <=> NoneOf(c[5], S) /\ NoneOf(R[5], S)
  <2>1. R[4] = c[5] \o R[5] /\ c[5] \in Seq(T) /\ R[5] \in Seq(T)
    BY DEF Chain
  <2> QED
    BY <2>1, NoneOfConcat
<1>6. NoneOf(R[5], S) <=> NoneOf(c[6], S) /\ NoneOf(R[6], S)
  <2>1. R[5] = c[6] \o R[6] /\ c[6] \in Seq(T) /\ R[6] \in Seq(T)
    BY DEF Chain
  <2> QED
    BY <2>1, NoneOfConcat
<1>7. NoneOf(R[6], S) <=> NoneOf(c[7], S) /\ NoneOf(R[7], S)
  <2>1. R[6] = c[7] \o R[7] /\ c[7] \in Seq(T) /\ R[7] \in Seq(T)
    BY DEF Chain
  <2> QED
    BY <2>1, NoneOfConcat
<1>8. NoneOf(R[7], S) <=> NoneOf(c[8], S) /\ NoneOf(R[8], S)
  <2>1. R[7] = c[8] \o R[8] /\ c[8] \in Seq(T) /\ R[8] \in Seq(T)
    BY DEF Chain
  <2> QED
    BY <2>1, NoneOfConcat
<1>9. NoneOf(R[8], S) <=> NoneOf(c[9], S) /\ NoneOf(R[9], S)
  <2>1. R[8] = c[9] \o R[9] /\ c[9] \in Seq(T) /\ R[9] \in Seq(T)
    BY DEF Chain
  <2> QED
    BY <2>1, NoneOfConcat
<1>10. \A k \in 1..9 : k \in {1, 2, 3, 4, 5, 6, 7, 8, 9}
  OBVIOUS
<1>11. ASSUME NoneOf(R[0], S) PROVE \A k \in 1..9 : NoneOf(c[k], S)
  BY <1>1, <1>2, <1>3, <1>4, <1>5, <1>6, <1>7, <1>8, <1>9, <1>10, <1>11
<1>12. ASSUME \A k \in 1..9 : NoneOf(c[k], S), NoneOf(R[9], S) PROVE NoneOf(R[0], S)
  <2>1. /\ NoneOf(c[1], S) /\ NoneOf(c[2], S) /\ NoneOf(c[3], S) /\ NoneOf(c[4], S) /\ NoneOf(c[5], S)
        /\ NoneOf(c[6], S) /\ NoneOf(c[7], S) /\ NoneOf(c[8], S) /\ NoneOf(c[9], S)
    BY <1>12
  <2> QED
    BY <1>1, <1>2, <1>3, <1>4, <1>5, <1>6, <1>7, <1>8, <1>9, <1>12, <2>1
<1> QED
  BY <1>1, <1>2, <1>3, <1>4, <1>5, <1>6, <1>7, <1>8, <1>9, <1>11, <1>12

(* A host is at the front of a URL or behind a protocol: elsewhere its     *)
(* characters are a word and a slash.                                      *)
HostPlaced(url) ==
    \A i \in 1..Len(url) : url[i] \in Hosts => i = 1 \/ (i = 2 /\ url[1] \in Protocols)

(* CleanUrl keeps the front of a URL.                                      *)
LEMMA CleanIs ==
    ASSUME NEW T, NEW url \in Seq(T)
    PROVE  /\ CleanUrl(url) \in Seq(T)
           /\ Len(CleanUrl(url)) <= Len(url)
           /\ \A i \in 1..Len(CleanUrl(url)) : CleanUrl(url)[i] = url[i]
<1>1. Len(url) \in Nat /\ DOMAIN url = 1..Len(url)
  BY LenProperties
<1> DEFINE at == QueryMarks(url)
           m == CHOOSE i \in at : \A j \in at : j <= i
<1>2. CASE at = {}
  <2>1. CleanUrl(url) = url
    BY <1>2 DEF CleanUrl
  <2> QED
    BY <1>1, <2>1
<1>3. CASE at # {}
  <2>1. CleanUrl(url) = SubSeq(url, 1, m - 1)
    BY <1>3 DEF CleanUrl
  <2>2. at # {} /\ at \subseteq 1..Len(url)
    <3>1. at \subseteq DOMAIN url
      BY Zenon DEF QueryMarks
    <3> QED
      BY <1>1, <1>3, <3>1
  <2> HIDE DEF at
  <2>3. \E i \in at : \A j \in at : j <= i
    <3> DEFINE down == {Len(url) - i : i \in at}
    <3>1. down \subseteq Nat /\ down # {}
      <4>1. \A i \in at : Len(url) - i \in Nat
        BY <1>1, <2>2
      <4>2. PICK i : i \in at
        BY <2>2
      <4>3. Len(url) - i \in down
        BY <4>2
      <4> QED
        BY <4>1, <4>3
    <3>2. PICK n \in down : \A k \in down : n <= k
      <4> HIDE DEF down
      <4> QED
        BY <3>1, SmallestElement
    <3>3. PICK i \in at : n = Len(url) - i
      BY <3>2
    <3>4. \A j \in at : Len(url) - i <= Len(url) - j
      BY <3>2, <3>3
    <3>5. \A j \in at : j <= i
      BY <1>1, <2>2, <3>4
    <3> QED
      BY <3>5
  <2>4. m \in at
    BY <2>3
  <2> HIDE DEF m
  <2>5. m \in 1..Len(url)
    BY <2>2, <2>4
  <2>6. m - 1 \in Int /\ \A i \in 1..(m - 1) : url[i] \in T
    <3>1. \A i \in 1..(m - 1) : i \in 1..Len(url)
      BY <1>1, <2>5
    <3> QED
      BY <2>5, <3>1, ElementOfSeq
  <2> DEFINE s == SubSeq(url, 1, m - 1)
  <2>7. s \in Seq(T) /\ Len(s) = (IF 1 <= m - 1 THEN m - 1 - 1 + 1 ELSE 0)
        /\ \A i \in 1..(m - 1) - 1 + 1 : s[i] = url[1 + i - 1]
    BY <2>6, SubSeqProperties
  <2> HIDE DEF s
  <2>8. Len(s) = m - 1
    BY <2>5, <2>7
  <2>9. \A i \in 1..Len(s) : s[i] = url[i]
    BY <2>5, <2>7, <2>8
  <2>10. Len(s) <= Len(url)
    BY <1>1, <2>5, <2>8
  <2> QED
    BY <2>1, <2>7, <2>9, <2>10 DEF s
<1> QED
  BY <1>2, <1>3

(* Hosts stay where they are.                                              *)
LEMMA CleanHosts ==
    ASSUME NEW T, NEW url \in Seq(T), HostPlaced(url)
    PROVE  HostPlaced(CleanUrl(url))
<1> DEFINE s == CleanUrl(url)
<1>1. s \in Seq(T) /\ Len(s) <= Len(url) /\ \A i \in 1..Len(s) : s[i] = url[i]
  BY CleanIs
<1>2. Len(s) \in Nat /\ Len(url) \in Nat
  BY <1>1, LenProperties
<1> HIDE DEF s
<1>3. ASSUME NEW i \in 1..Len(s), s[i] \in Hosts PROVE i = 1 \/ (i = 2 /\ s[1] \in Protocols)
  <2>1. i \in 1..Len(url) /\ s[i] = url[i] /\ 1 \in 1..Len(s)
    BY <1>1, <1>2
  <2>2. s[1] = url[1]
    BY <1>1, <2>1
  <2> QED
    BY <1>3, <2>1, <2>2 DEF HostPlaced
<1>4. HostPlaced(s)
  BY <1>3 DEF HostPlaced
<1> QED
  BY <1>4 DEF s

(* Without a question mark there is nothing to clean.                      *)
LEMMA CleanNothing ==
    ASSUME NEW url, "?" \notin ToSet(url)
    PROVE  CleanUrl(url) = url
<1>1. QueryMarks(url) = {}
  BY Zenon DEF ToSet, QueryMarks
<1> QED
  BY <1>1 DEF CleanUrl

(* A name does not begin with a host.                                      *)
LEMMA NoHostFirst ==
    ASSUME NEW T, NEW url \in Seq(T), NEW c, NEW R, Split(T, url, c, R), HostPlaced(url), c[3] # <<>>
    PROVE  c[3][1] \notin Hosts
<1>1. Chain(T, c, R) /\ R[0] = url
  BY SplitSteps DEF Split
<1>2. /\ R[0] = c[1] \o R[1] /\ R[1] = c[2] \o R[2] /\ R[2] = c[3] \o R[3]
      /\ c[1] \in Seq(T) /\ c[2] \in Seq(T) /\ c[3] \in Seq(T)
      /\ R[0] \in Seq(T) /\ R[1] \in Seq(T) /\ R[2] \in Seq(T) /\ R[3] \in Seq(T)
  BY <1>1 DEF Chain
<1>3. R[2] # <<>> /\ R[2][1] = c[3][1]
  <2> DEFINE p == c[3]
             r == R[3]
  <2>1. R[2] = p \o r /\ p \in Seq(T) /\ r \in Seq(T) /\ p # <<>>
    BY <1>2
  <2> HIDE DEF p, r
  <2>2. R[2] # <<>> /\ R[2][1] = p[1]
    BY <2>1, PartFirst
  <2> QED
    BY <2>2 DEF p
<1>4. Takes(Groups[1], c[1], R[1]) /\ Takes(Groups[2], c[2], R[2])
  BY DEF Split
<1>5. c[1] = <<>> \/ \E p \in Protocols : c[1] = <<p>>
  BY <1>4, GroupsAre, TokenTakes
<1>6. (c[2] = <<>> /\ (R[2] = <<>> \/ R[2][1] \notin Hosts)) \/ \E t \in Hosts : c[2] = <<t>>
  BY <1>4, GroupsAre, TokenTakes
<1>7. ASSUME NEW t \in Hosts, c[2] = <<t>>, c[3][1] \in Hosts PROVE FALSE
  <2>1. R[1] = c[2] \o R[2] /\ c[2] \in Seq(T) /\ R[2] \in Seq(T) /\ Len(c[2]) = 1 /\ c[2][1] = t
    BY <1>2, <1>7
  <2>2. R[1] # <<>> /\ R[1][1] = t
    BY <2>1, <1>7, TokenFirst
  <2>3. Len(R[2]) \in Nat \ {0}
    BY <1>2, <1>3, EmptySeq
  <2>4. Len(R[1]) = 1 + Len(R[2]) /\ R[1][2] = R[2][1]
    <3> DEFINE a == c[2]
               b == R[2]
    <3>1. a \in Seq(T) /\ b \in Seq(T) /\ Len(a) = 1 /\ Len(b) \in Nat \ {0}
      BY <2>1, <2>3
    <3> HIDE DEF a, b
    <3>2. Len(a \o b) = Len(a) + Len(b)
          /\ \A i \in 1..Len(a) + Len(b) : (a \o b)[i] = IF i <= Len(a) THEN a[i] ELSE b[i - Len(a)]
      BY <3>1, ConcatProperties
    <3>3. (a \o b)[2] = b[2 - 1] /\ Len(a \o b) = 1 + Len(b)
      BY <3>1, <3>2
    <3>4. (a \o b)[2] = b[1]
      BY <3>3
    <3> QED
      BY <2>1, <3>3, <3>4 DEF a, b
  <2>5. CASE c[1] = <<>>
    <3>1. url = R[1]
      BY <1>1, <1>2, <2>5, ConcatEmptySeq
    <3>2. 2 \in 1..Len(url) /\ url[2] \in Hosts /\ url[1] = t
      BY <1>3, <1>7, <2>2, <2>3, <2>4, <3>1
    <3>3. url[1] \in Protocols
      BY <3>2 DEF HostPlaced
    <3> QED
      BY <1>7, <3>2, <3>3 DEF Hosts, Protocols
  <2>6. ASSUME NEW p \in Protocols, c[1] = <<p>> PROVE FALSE
    <3> DEFINE a == c[1]
               b == R[1]
    <3>1. a \in Seq(T) /\ b \in Seq(T) /\ Len(a) = 1 /\ Len(b) \in Nat \ {0, 1} /\ b[2] \in Hosts
      <4>1. Len(b) \in Nat \ {0, 1}
        BY <2>3, <2>4
      <4>2. b[2] \in Hosts
        BY <1>3, <1>7, <2>4
      <4> QED
        BY <1>2, <2>6, <4>1, <4>2
    <3>2. url = a \o b
      BY <1>1, <1>2
    <3> HIDE DEF a, b
    <3>3. Len(a \o b) = Len(a) + Len(b)
          /\ \A i \in 1..Len(a) + Len(b) : (a \o b)[i] = IF i <= Len(a) THEN a[i] ELSE b[i - Len(a)]
      BY <3>1, ConcatProperties
    <3>4. (a \o b)[3] = b[3 - 1] /\ 3 \in 1..Len(a \o b)
      BY <3>1, <3>3
    <3>5. url[3] \in Hosts /\ 3 \in 1..Len(url)
      BY <3>1, <3>2, <3>4
    <3> QED
      BY <3>5 DEF HostPlaced
  <2> QED
    BY <1>5, <2>5, <2>6
<1> QED
  BY <1>3, <1>6, <1>7

(* The words that are values.                                              *)
Words == HexWords \cup DOMAIN NumberOf

(* Itoa writes a number that parseInt reads.                               *)
LEMMA ItoaRead ==
    ASSUME NEW v, parseInt(v) > 0
    PROVE  \E w \in DOMAIN NumberOf : Itoa(parseInt(v)) = <<w>> /\ parseInt(<<w>>) = parseInt(v)
<1>1. Len(v) = 1 /\ v[1] \in DOMAIN NumberOf /\ parseInt(v) = NumberOf[v[1]]
  <2>1. ~(-1 > 0)
    OBVIOUS
  <2> QED
    BY <2>1 DEF parseInt
<1> DEFINE n == parseInt(v)
           w == CHOOSE x \in DOMAIN NumberOf : NumberOf[x] = n
<1>2. w \in DOMAIN NumberOf /\ NumberOf[w] = n
  BY <1>1
<1>3. Itoa(n) = <<w>>
  BY DEF Itoa
<1> HIDE DEF w, n
<1>4. parseInt(<<w>>) = n
  <2>1. Len(<<w>>) = 1 /\ <<w>>[1] = w
    OBVIOUS
  <2> QED
    BY <1>2, <2>1 DEF parseInt
<1> QED
  BY <1>2, <1>3, <1>4 DEF n

(* What a separator and a value give.                                      *)
IdMod(v) == [claimId |-> v, sequence |-> 0, bid |-> 0, present |-> TRUE]
SequenceMod(n) == [claimId |-> <<>>, sequence |-> n, bid |-> 0, present |-> TRUE]
BidMod(n) == [claimId |-> <<>>, sequence |-> 0, bid |-> n, present |-> TRUE]

(* parseModifier by its separator.                                         *)
LEMMA ModifierCases ==
    ASSUME NEW v
    PROVE  /\ parseModifier(<<>>, v) = NoModifier
           /\ \A s : v = <<>> => parseModifier(s, v) = NoModifier
           /\ v # <<>> => parseModifier(<<"#">>, v) =
                 IF Len(v) = 1 /\ v[1] \in HexWords THEN IdMod(v) ELSE Invalid
           /\ v # <<>> => parseModifier(<<":">>, v) =
                 IF parseInt(v) = -1 THEN Invalid ELSE SequenceMod(parseInt(v))
           /\ v # <<>> => parseModifier(<<"$">>, v) =
                 IF parseInt(v) = -1 THEN Invalid ELSE BidMod(parseInt(v))
<1>0. 0 # -1
  OBVIOUS
<1>1. parseModifier(<<>>, v) = NoModifier /\ \A s : v = <<>> => parseModifier(s, v) = NoModifier
  BY DEF parseModifier
<1>2. <<"#">> # <<>> /\ <<":">> # <<>> /\ <<"$">> # <<>>
  OBVIOUS
<1>3. <<"#">> # <<":">> /\ <<"#">> # <<"$">> /\ <<":">> # <<"$">>
  OBVIOUS
<1>4. ASSUME v # <<>> PROVE parseModifier(<<"#">>, v) =
                              IF Len(v) = 1 /\ v[1] \in HexWords THEN IdMod(v) ELSE Invalid
  BY <1>0, <1>2, <1>3, <1>4 DEF parseModifier, IdMod
<1>5. ASSUME v # <<>> PROVE parseModifier(<<":">>, v) =
                              IF parseInt(v) = -1 THEN Invalid ELSE SequenceMod(parseInt(v))
  BY <1>0, <1>2, <1>3, <1>5 DEF parseModifier, SequenceMod
<1>6. ASSUME v # <<>> PROVE parseModifier(<<"$">>, v) =
                              IF parseInt(v) = -1 THEN Invalid ELSE BidMod(parseInt(v))
  BY <1>0, <1>2, <1>3, <1>6 DEF parseModifier, BidMod
<1> QED
  BY <1>1, <1>4, <1>5, <1>6

(* A modifier that parseModifier takes, of a URL with proper parts.        *)
ProperModifier(s, v) ==
    /\ s = <<>> \/ \E t \in Separators : s = <<t>>
    /\ s = <<>> => v = <<>>
    /\ s # <<>> => v # <<>> /\ (s = <<"#">> \/ parseInt(v) > 0)
    /\ parseModifier(s, v) # Invalid

(* The modifier mod is written as s and w, and read from them again.       *)
WrittenAs(mod, s, w) ==
    /\ Modifier(mod.claimId, mod.sequence, mod.bid) = s \o w
    /\ s = <<>> => w = <<>>
    /\ s # <<>> => \E x \in Words : w = <<x>>
    /\ parseModifier(s, w) = mod
    /\ mod.present = (s # <<>>)
    /\ mod.claimId # <<>> => mod.claimId = w /\ s = <<"#">> /\ mod.sequence = 0 /\ mod.bid = 0
    /\ mod.present => mod.sequence # -1
    /\ ~mod.present => mod.claimId = <<>> /\ mod.sequence = -1 /\ mod.bid = -1

(* Proper modifiers are written with their separator, and numbers by Itoa. *)
LEMMA ModifierWritten ==
    ASSUME NEW T, NEW s, NEW v \in Seq(T), ProperModifier(s, v)
    PROVE  \E w : /\ WrittenAs(parseModifier(s, v), s, w)
                  /\ (s \in {<<":">>, <<"$">>} => v = Itoa(parseInt(v))) => w = v
<1> DEFINE mod == parseModifier(s, v)
<1>0. s \in {<<>>, <<"#">>, <<":">>, <<"$">>} /\ mod # Invalid
  BY DEF ProperModifier, Separators
<1>00. <<"#">> # <<>> /\ <<":">> # <<>> /\ <<"$">> # <<>> /\ <<"#">> # <<":">> /\ <<"#">> # <<"$">>
  OBVIOUS
<1>1. CASE s = <<>>
  <2>1. v = <<>> /\ mod = NoModifier
    BY <1>1, ModifierCases DEF ProperModifier
  <2>2. mod.claimId = <<>> /\ mod.sequence = -1 /\ mod.bid = -1 /\ mod.present = FALSE
    BY <2>1 DEF NoModifier
  <2>3. Modifier(mod.claimId, mod.sequence, mod.bid) = <<>>
    BY <2>2 DEF Modifier
  <2>5. <<>> \o <<>> = <<>>
    BY EmptySeq, ConcatEmptySeq
  <2>6. parseModifier(s, <<>>) = mod
    BY <2>1
  <2> HIDE DEF mod
  <2>4. WrittenAs(mod, s, <<>>)
    BY <1>1, <2>2, <2>3, <2>5, <2>6 DEF WrittenAs
  <2> QED
    BY <2>1, <2>4 DEF mod
<1>2. CASE s = <<"#">>
  <2>1. v # <<>>
    BY <1>2, <1>00 DEF ProperModifier
  <2>2. Len(v) = 1 /\ v[1] \in HexWords /\ mod = IdMod(v)
    BY <1>0, <1>2, <2>1, ModifierCases
  <2>3. v = <<v[1]>>
    <3>1. v[1] \in T
      <4>1. 1 \in 1..Len(v)
        BY <2>2
      <4> QED
        BY <4>1, ElementOfSeq
    <3> DEFINE a == <<v[1]>>
    <3>2. a \in Seq(T) /\ Len(a) = 1 /\ a[1] = v[1]
      BY <3>1
    <3> HIDE DEF a
    <3>3. Len(v) = Len(a) /\ \A i \in 1..Len(v) : v[i] = a[i]
      BY <2>2, <3>2
    <3>4. v = a
      BY <3>2, <3>3, SeqEqual
    <3> QED
      BY <3>4 DEF a
  <2>4. Modifier(mod.claimId, mod.sequence, mod.bid) = <<"#">> \o v
    BY <2>1, <2>2 DEF IdMod, Modifier
  <2>5. WrittenAs(mod, s, v)
    <3>1. mod.claimId = v /\ mod.sequence = 0 /\ mod.bid = 0 /\ mod.present = TRUE
      BY <2>2 DEF IdMod
    <3>2. \E x \in Words : v = <<x>>
      BY <2>2, <2>3 DEF Words
    <3>3. parseModifier(s, v) = mod /\ 0 # -1
      OBVIOUS
    <3> HIDE DEF mod
    <3> QED
      BY <1>2, <1>00, <2>4, <3>1, <3>2, <3>3 DEF WrittenAs
  <2> QED
    BY <2>5
<1>3. CASE s = <<":">>
  <2>1. v # <<>> /\ parseInt(v) > 0
    BY <1>3, <1>00 DEF ProperModifier
  <2>2. mod = SequenceMod(parseInt(v))
    BY <1>0, <1>3, <2>1, ModifierCases
  <2>3. PICK w \in DOMAIN NumberOf : Itoa(parseInt(v)) = <<w>> /\ parseInt(<<w>>) = parseInt(v)
    BY <2>1, ItoaRead
  <2>4. Modifier(mod.claimId, mod.sequence, mod.bid) = <<":">> \o <<w>>
    <3>1. mod.claimId = <<>> /\ mod.sequence = parseInt(v) /\ mod.bid = 0
      BY <2>2 DEF SequenceMod
    <3> HIDE DEF mod
    <3> QED
      BY <2>1, <2>3, <3>1 DEF Modifier
  <2>5. parseModifier(s, <<w>>) = mod
    <3>1. <<w>> # <<>>
      OBVIOUS
    <3>2. parseInt(<<w>>) # -1
      BY <2>1, <2>3
    <3> QED
      BY <1>3, <2>2, <2>3, <3>1, <3>2, ModifierCases
  <2>6. mod.claimId = <<>> /\ mod.present = TRUE /\ mod.sequence # -1
    BY <2>1, <2>2 DEF SequenceMod
  <2>7. WrittenAs(mod, s, <<w>>)
    BY <1>3, <1>00, <2>3, <2>4, <2>5, <2>6 DEF WrittenAs, Words
  <2> QED
    BY <1>3, <2>3, <2>7
<1>4. CASE s = <<"$">>
  <2>1. v # <<>> /\ parseInt(v) > 0
    BY <1>4, <1>00 DEF ProperModifier
  <2>2. mod = BidMod(parseInt(v))
    BY <1>0, <1>4, <2>1, ModifierCases
  <2>3. PICK w \in DOMAIN NumberOf : Itoa(parseInt(v)) = <<w>> /\ parseInt(<<w>>) = parseInt(v)
    BY <2>1, ItoaRead
  <2>4. Modifier(mod.claimId, mod.sequence, mod.bid) = <<"$">> \o <<w>>
    <3>1. ~(0 > 0)
      OBVIOUS
    <3> QED
      <4>1. mod.claimId = <<>> /\ mod.sequence = 0 /\ mod.bid = parseInt(v)
        BY <2>2 DEF BidMod
      <4> HIDE DEF mod
      <4> QED
        BY <2>1, <2>3, <3>1, <4>1 DEF Modifier
  <2>5. parseModifier(s, <<w>>) = mod
    <3>1. <<w>> # <<>>
      OBVIOUS
    <3>2. parseInt(<<w>>) # -1
      BY <2>1, <2>3
    <3> QED
      BY <1>4, <2>2, <2>3, <3>1, <3>2, ModifierCases
  <2>6. mod.claimId = <<>> /\ mod.present = TRUE /\ mod.sequence # -1
    BY <2>2 DEF BidMod
  <2>7. WrittenAs(mod, s, <<w>>)
    BY <1>4, <1>00, <2>3, <2>4, <2>5, <2>6 DEF WrittenAs, Words
  <2> QED
    BY <1>4, <2>3, <2>7
<1> QED
  BY <1>0, <1>1, <1>2, <1>3, <1>4

(* Parse refuses these parts and modifiers.                                *)
RefusedParts(c, P, S) ==
    \/ c[3] = <<>>
    \/ \E i \in 3..9 : " " \in ToSet(c[i])
    \/ Head(c[3]) = "@" /\ Tail(c[3]) = <<>>
    \/ P = Invalid
    \/ S = Invalid

(* u is what Parse makes of the parts and their modifiers.                 *)
ParsedAs(u, c, P, S) ==
    LET isChannel == Head(c[3]) = "@"
    IN  /\ u.claimName = c[3] /\ u.claimId = P.claimId
        /\ u.channelName = IF isChannel THEN Tail(c[3]) ELSE <<>>
        /\ u.channelClaimId = IF isChannel THEN P.claimId ELSE <<>>
        /\ u.streamName = IF isChannel THEN c[7] ELSE c[3]
        /\ u.streamClaimId = IF isChannel /\ S.present THEN S.claimId ELSE P.claimId
        /\ u.primarySequence = P.sequence /\ u.primaryBid = P.bid
        /\ u.secondarySequence = S.sequence /\ u.secondaryBid = S.bid

(* Parse by parts.                                                         *)
LEMMA ParseIs ==
    ASSUME NEW url, NEW requireProto \in BOOLEAN, NEW c, c = Components(CleanUrl(url)),
           NEW P, P = parseModifier(WebSeparator(c[2], c[4]), c[5]),
           NEW S, S = parseModifier(WebSeparator(c[2], c[8]), c[9])
    PROVE  IF url = <<>> \/ (requireProto /\ c[1] = <<>>) \/ RefusedParts(c, P, S)
           THEN Parse(url, requireProto) = Invalid
           ELSE /\ Parse(url, requireProto) # Invalid
                /\ ParsedAs(Parse(url, requireProto), c, P, S)
<1>1. CASE url = <<>> \/ (requireProto /\ c[1] = <<>>) \/ RefusedParts(c, P, S)
  BY <1>1 DEF Parse, RefusedParts
<1>2. CASE ~(url = <<>> \/ (requireProto /\ c[1] = <<>>) \/ RefusedParts(c, P, S))
  <2> DEFINE isChannel == Head(c[3]) = "@"
             channel == IF isChannel THEN Tail(c[3]) ELSE <<>>
             stream == IF isChannel THEN c[7] ELSE c[3]
             p == FlattenSeq(SubSeq(c, 3, 9))
             u == [path              |-> p,
                   isChannel         |-> isChannel /\ c[7] = <<>>,
                   streamName        |-> stream,
                   streamClaimId     |-> IF isChannel /\ S.present THEN S.claimId ELSE P.claimId,
                   channelName       |-> channel,
                   channelClaimId    |-> IF isChannel THEN P.claimId ELSE <<>>,
                   primarySequence   |-> P.sequence,
                   secondarySequence |-> S.sequence,
                   primaryBid        |-> P.bid,
                   secondaryBid      |-> S.bid,
                   claimName         |-> c[3],
                   claimId           |-> P.claimId,
                   contentName       |-> stream]
  <2>1. Parse(url, requireProto) = u
    BY <1>2 DEF Parse, RefusedParts
  <2>2. u # Invalid
    <3>1. "path" \in DOMAIN u
      OBVIOUS
    <3>2. "path" \notin DOMAIN Invalid
      BY DEF Invalid
    <3> QED
      BY <3>1, <3>2
  <2>3. ParsedAs(u, c, P, S)
    BY DEF ParsedAs
  <2> QED
    BY <1>2, <2>1, <2>2, <2>3
<1> QED
  BY <1>1, <1>2

(* The token x is not in the path.                                         *)
NotInPath(d, x) == \A k \in 3..9 : NoneOf(d[k], {x})

(* The URL s is parsed as the parts d with the modifiers P and S.          *)
ParsedByParts(s, d, P, S) ==
    IF RefusedParts(d, P, S)
    THEN Parse(s, TRUE) = Invalid
    ELSE Parse(s, TRUE) # Invalid /\ ParsedAs(Parse(s, TRUE), d, P, S)

(* A path behind lbry:// is parsed by its parts.                           *)
LEMMA LbryParsed ==
    ASSUME NEW T, NEW d, NEW R, Path(T, d), Follows(T, 9, d, R),
           d[1] = <<"lbry://">>, d[2] = <<>>, d[3] # <<>> => d[3][1] \notin Hosts,
           NotInPath(d, "?"),
           NEW P, P = parseModifier(d[4], d[5]),
           NEW S, S = parseModifier(d[8], d[9])
    PROVE  ParsedByParts(R[0], d, P, S)
<1>1. Components(R[0]) = d
  BY PathTaken
<1>2. Chain(T, d, R) /\ R[9] = <<>>
  BY FollowsSteps
<1>3. R[0] = d[1] \o R[1] /\ R[0] \in Seq(T) /\ d[1] \in Seq(T) /\ R[1] \in Seq(T)
  BY <1>2 DEF Chain
<1>4. R[0] # <<>>
  BY <1>3, TokenFirst
<1>5. \A k \in 1..9 : NoneOf(d[k], {"?"})
  <2>1. NoneOf(d[1], {"?"})
    <3>1. Len(<<"lbry://">>) = 1 /\ <<"lbry://">>[1] = "lbry://"
      OBVIOUS
    <3> QED
      BY <3>1 DEF NoneOf
  <2>2. NoneOf(d[2], {"?"})
    BY DEF NoneOf
  <2>3. \A k \in 1..9 : k \in 3..9 \/ k = 1 \/ k = 2
    OBVIOUS
  <2> QED
    BY <2>1, <2>2, <2>3 DEF NotInPath
<1>6. NoneOf(R[9], {"?"})
  BY <1>2 DEF NoneOf
<1>7. NoneOf(R[0], {"?"})
  BY <1>2, <1>5, <1>6, ChainNone
<1>8. "?" \notin ToSet(R[0])
  BY <1>3, <1>7, NotInSet
<1>9. CleanUrl(R[0]) = R[0]
  BY <1>8, CleanNothing
<1>10. WebSeparator(d[2], d[4]) = d[4] /\ WebSeparator(d[2], d[8]) = d[8]
  BY DEF WebSeparator
<1>11. d[1] # <<>>
  OBVIOUS
<1>12. d = Components(CleanUrl(R[0]))
  BY <1>1, <1>9
<1> DEFINE url == R[0]
<1>13. url # <<>> /\ d = Components(CleanUrl(url))
  BY <1>4, <1>12
<1>14. P = parseModifier(WebSeparator(d[2], d[4]), d[5]) /\ S = parseModifier(WebSeparator(d[2], d[8]), d[9])
  BY <1>10
<1> HIDE DEF url
<1>15. IF url = <<>> \/ (TRUE /\ d[1] = <<>>) \/ RefusedParts(d, P, S)
       THEN Parse(url, TRUE) = Invalid
       ELSE Parse(url, TRUE) # Invalid /\ ParsedAs(Parse(url, TRUE), d, P, S)
  BY <1>13, <1>14, ParseIs
<1>16. IF RefusedParts(d, P, S)
       THEN Parse(url, TRUE) = Invalid
       ELSE Parse(url, TRUE) # Invalid /\ ParsedAs(Parse(url, TRUE), d, P, S)
  BY <1>11, <1>13, <1>15
<1> QED
  BY <1>16 DEF url, ParsedByParts

(* What String writes behind the stream.                                   *)
Inherits(P, S, stream) == stream # <<>> /\ ~S.present /\ P.claimId # <<>>

ModifierText(s, w) ==
    /\ s = <<>> \/ \E t \in Separators : s = <<t>>
    /\ s = <<>> => w = <<>>
    /\ s # <<>> => \E x \in Words : w = <<x>>

(* t and w are written for the second modifier, which may be the inherited *)
(* claim id.                                                               *)
SecondIs(P, S, s2, w2, stream, t, w) ==
    /\ Modifier(IF stream = <<>> THEN <<>> ELSE IF S.present THEN S.claimId ELSE P.claimId,
                S.sequence, S.bid) = t \o w
    /\ ModifierText(t, w)
    /\ stream = <<>> => t = <<>>
    /\ IF Inherits(P, S, stream)
       THEN t = <<"#">> /\ w = P.claimId /\ parseModifier(t, w) = P
       ELSE t = s2 /\ w = w2 /\ parseModifier(t, w) = S

(* The second modifier can be written.                                     *)
LEMMA SecondWritten ==
    ASSUME NEW P, NEW s1, NEW w1, WrittenAs(P, s1, w1),
           NEW S, NEW s2, NEW w2, WrittenAs(S, s2, w2), ModifierText(s2, w2),
           NEW stream, stream = <<>> => s2 = <<>>
    PROVE  \E t, w : SecondIs(P, S, s2, w2, stream, t, w)
<1>1. CASE Inherits(P, S, stream)
  <2>1. P.claimId = w1 /\ s1 = <<"#">> /\ parseModifier(s1, w1) = P
    BY <1>1 DEF WrittenAs, Inherits
  <2>2. \E x \in Words : w1 = <<x>>
    <3>1. <<"#">> # <<>>
      OBVIOUS
    <3> QED
      BY <2>1, <3>1 DEF WrittenAs
  <2>3. Modifier(P.claimId, S.sequence, S.bid) = <<"#">> \o P.claimId
    BY <1>1 DEF Modifier, Inherits
  <2>4. ModifierText(<<"#">>, P.claimId)
    <3>1. <<"#">> # <<>> /\ "#" \in Separators
      BY DEF Separators
    <3> QED
      BY <2>1, <2>2, <3>1 DEF ModifierText
  <2>5. parseModifier(<<"#">>, P.claimId) = P
    BY <2>1
  <2> QED
    BY <1>1, <2>3, <2>4, <2>5 DEF Inherits, SecondIs
<1>2. CASE ~Inherits(P, S, stream)
  <2>1. Modifier(S.claimId, S.sequence, S.bid) = s2 \o w2 /\ parseModifier(s2, w2) = S
        /\ (~S.present => S.claimId = <<>>) /\ (S.present <=> s2 # <<>>)
    BY DEF WrittenAs
  <2>2. (IF stream = <<>> THEN <<>> ELSE IF S.present THEN S.claimId ELSE P.claimId) = S.claimId
    BY <1>2, <2>1 DEF Inherits
  <2> QED
    BY <1>2, <2>1, <2>2 DEF SecondIs
<1> QED
  BY <1>1, <1>2

(* Joining from the left or from the right.                                *)
LEMMA JoinEither ==
    ASSUME NEW T, NEW a \in Seq(T), NEW b \in Seq(T), NEW e \in Seq(T)
    PROVE  (a \o b) \o e = a \o (b \o e)
  BY ConcatAssociative

(* The parts joined the way Build joins them.                              *)
LEMMA JoinedIs ==
    ASSUME NEW T, NEW d, NEW R, Follows(T, 9, d, R), d[2] = <<>>
    PROVE  R[0] = d[1] \o d[3] \o (d[4] \o d[5]) \o (d[6] \o d[7]) \o (d[8] \o d[9])
<1>1. Chain(T, d, R) /\ R[9] = <<>>
  BY FollowsSteps
<1> DEFINE p == d[1]
           n == d[3]
           m == d[4] \o d[5]
           x == d[6] \o d[7]
           z == d[8] \o d[9]
<1>2. p \in Seq(T) /\ n \in Seq(T) /\ m \in Seq(T) /\ x \in Seq(T) /\ z \in Seq(T)
  <2>1. /\ d[1] \in Seq(T) /\ d[3] \in Seq(T) /\ d[4] \in Seq(T) /\ d[5] \in Seq(T)
        /\ d[6] \in Seq(T) /\ d[7] \in Seq(T) /\ d[8] \in Seq(T) /\ d[9] \in Seq(T)
    BY <1>1 DEF Chain
  <2> QED
    BY <2>1, ConcatProperties
<1>3. R[7] = z
  <2>1. R[7] = d[8] \o R[8] /\ R[8] = d[9] \o R[9] /\ d[9] \in Seq(T)
    BY <1>1 DEF Chain
  <2>2. R[8] = d[9]
    BY <1>1, <2>1, ConcatEmptySeq
  <2> QED
    BY <2>1, <2>2
<1>4. R[5] = x \o z
  <2>1. R[5] = d[6] \o R[6] /\ R[6] = d[7] \o R[7] /\ d[6] \in Seq(T) /\ d[7] \in Seq(T) /\ R[7] \in Seq(T)
    BY <1>1 DEF Chain
  <2>2. (d[6] \o d[7]) \o R[7] = d[6] \o (d[7] \o R[7])
    <3> DEFINE a == d[6]
               b == d[7]
               e == R[7]
    <3>1. a \in Seq(T) /\ b \in Seq(T) /\ e \in Seq(T)
      BY <2>1
    <3> HIDE DEF a, b, e
    <3>2. (a \o b) \o e = a \o (b \o e)
      BY <3>1, JoinEither
    <3> QED
      BY <3>2 DEF a, b, e
  <2> QED
    BY <1>3, <2>1, <2>2
<1>5. R[3] = m \o (x \o z)
  <2>1. R[3] = d[4] \o R[4] /\ R[4] = d[5] \o R[5] /\ d[4] \in Seq(T) /\ d[5] \in Seq(T) /\ R[5] \in Seq(T)
    BY <1>1 DEF Chain
  <2>2. (d[4] \o d[5]) \o R[5] = d[4] \o (d[5] \o R[5])
    <3> DEFINE a == d[4]
               b == d[5]
               e == R[5]
    <3>1. a \in Seq(T) /\ b \in Seq(T) /\ e \in Seq(T)
      BY <2>1
    <3> HIDE DEF a, b, e
    <3>2. (a \o b) \o e = a \o (b \o e)
      BY <3>1, JoinEither
    <3> QED
      BY <3>2 DEF a, b, e
  <2> QED
    BY <1>4, <2>1, <2>2
<1>6. R[0] = p \o (n \o (m \o (x \o z)))
  <2>1. R[0] = d[1] \o R[1] /\ R[1] = d[2] \o R[2] /\ R[2] = d[3] \o R[3] /\ R[2] \in Seq(T)
    BY <1>1 DEF Chain
  <2>2. R[1] = R[2]
    BY <2>1, ConcatEmptySeq
  <2> QED
    BY <1>5, <2>1, <2>2
<1> HIDE DEF p, n, m, x, z
<1> DEFINE xz == x \o z
           mxz == m \o xz
           pn == p \o n
           pnm == pn \o m
<1>7. xz \in Seq(T) /\ mxz \in Seq(T) /\ pn \in Seq(T) /\ pnm \in Seq(T)
  <2>1. xz \in Seq(T) /\ pn \in Seq(T)
    BY <1>2, ConcatProperties
  <2> HIDE DEF xz, pn
  <2>2. mxz \in Seq(T) /\ pnm \in Seq(T)
    BY <1>2, <2>1, ConcatProperties
  <2> QED
    BY <2>1, <2>2
<1>9. (pnm \o x) \o z = pnm \o xz
  <2>1. pnm \in Seq(T) /\ x \in Seq(T) /\ z \in Seq(T)
    BY <1>2, <1>7
  <2> HIDE DEF pnm
  <2> QED
    BY <2>1, JoinEither
<1>10. pnm \o xz = pn \o mxz
  <2>1. pn \in Seq(T) /\ m \in Seq(T) /\ xz \in Seq(T)
    BY <1>2, <1>7
  <2> HIDE DEF pn, xz
  <2> QED
    BY <2>1, JoinEither
<1>11. pn \o mxz = p \o (n \o mxz)
  <2>1. p \in Seq(T) /\ n \in Seq(T) /\ mxz \in Seq(T)
    BY <1>2, <1>7
  <2> HIDE DEF mxz
  <2> QED
    BY <2>1, JoinEither
<1>12. R[0] = (((p \o n) \o m) \o x) \o z
  BY <1>6, <1>9, <1>10, <1>11
<1> QED
  BY <1>12 DEF p, n, m, x, z

(* The first name is taken if there is one.                                *)
LEMMA FirstName ==
    ASSUME NEW a, NEW b, NEW c, NEW d, a # <<>>
    PROVE  FirstNonEmpty(<<a, b, c, d>>) = a
<1> DEFINE names == <<a, b, c, d>>
<1>1. DOMAIN names = 1..4 /\ names[1] = a
  OBVIOUS
<1> HIDE DEF names
<1> DEFINE i == CHOOSE i \in DOMAIN names : names[i] # <<>> /\ \A j \in 1..(i - 1) : names[j] = <<>>
<1>2. 1 \in DOMAIN names /\ names[1] # <<>> /\ \A j \in 1..(1 - 1) : names[j] = <<>>
  BY <1>1
<1>3. i \in DOMAIN names /\ names[i] # <<>> /\ \A j \in 1..(i - 1) : names[j] = <<>>
  BY <1>2
<1>4. FirstNonEmpty(names) = names[i]
  BY <1>2 DEF FirstNonEmpty
<1> HIDE DEF i
<1>5. i = 1
  <2> SUFFICES ASSUME i # 1 PROVE FALSE
    OBVIOUS
  <2>1. 1 \in 1..(i - 1)
    BY <1>1, <1>3
  <2> QED
    BY <1>2, <1>3, <2>1
<1> QED
  BY <1>1, <1>4, <1>5 DEF names

(* The parts with their modifiers.                                         *)
StringOf(c, P, S) ==
    <<"lbry://">> \o c[3] \o Modifier(P.claimId, P.sequence, P.bid)
      \o (IF c[7] = <<>> THEN <<>> ELSE <<"/">> \o c[7])
      \o Modifier(IF c[7] = <<>> THEN <<>> ELSE IF S.present THEN S.claimId ELSE P.claimId,
                  S.sequence, S.bid)

(* What String writes of a parsed URL.                                     *)
LEMMA StringIs ==
    ASSUME NEW u, NEW c, NEW P, NEW S, ParsedAs(u, c, P, S), c[3] # <<>>,
           Head(c[3]) = "@" => Tail(c[3]) # <<>>,
           c[7] # <<>> => Head(c[3]) = "@"
    PROVE  UrlString(u) = StringOf(c, P, S)
<1> DEFINE isChannel == Head(c[3]) = "@"
           channel == IF u.channelName = <<>> \/ Head(u.channelName) = "@" THEN u.channelName
                      ELSE <<"@">> \o u.channelName
           primary == FirstNonEmpty(<<u.claimName, u.contentName, channel, u.streamName>>)
           primaryId == IF u.claimId # <<>> THEN u.claimId
                        ELSE IF channel # <<>> THEN u.channelClaimId ELSE u.streamClaimId
           secondary == IF u.claimName = <<>> /\ u.contentName # <<>> THEN u.contentName
                        ELSE IF channel # <<>> THEN u.streamName ELSE <<>>
<1>1. u.claimName = c[3] /\ u.claimId = P.claimId
  BY DEF ParsedAs
<1>2. u.channelName = IF isChannel THEN Tail(c[3]) ELSE <<>>
  BY DEF ParsedAs
<1>3. /\ u.channelClaimId = IF isChannel THEN P.claimId ELSE <<>>
      /\ u.streamName = IF isChannel THEN c[7] ELSE c[3]
      /\ u.streamClaimId = IF isChannel /\ S.present THEN S.claimId ELSE P.claimId
  BY DEF ParsedAs
<1>4. u.primarySequence = P.sequence /\ u.primaryBid = P.bid /\ u.secondarySequence = S.sequence
      /\ u.secondaryBid = S.bid
  BY DEF ParsedAs
<1>5. UrlString(u) =
        <<"lbry://">> \o primary \o Modifier(primaryId, u.primarySequence, u.primaryBid)
          \o (IF secondary = <<>> THEN <<>> ELSE <<"/">> \o secondary)
          \o Modifier(IF secondary = <<>> THEN <<>> ELSE u.streamClaimId, u.secondarySequence, u.secondaryBid)
  BY DEF UrlString, Build
<1>6. primary = c[3]
  BY <1>1, FirstName
<1>7. channel # <<>> <=> isChannel
  <2>1. ASSUME NEW n PROVE <<"@">> \o n # <<>>
    OBVIOUS
  <2> QED
    BY <1>2, <2>1
<1> HIDE DEF channel, primary
<1>8. primaryId = P.claimId
  BY <1>1, <1>3, <1>7
<1>9. secondary = c[7]
  BY <1>1, <1>3, <1>7
<1> HIDE DEF primaryId, secondary
<1>10. c[7] # <<>> => u.streamClaimId = IF S.present THEN S.claimId ELSE P.claimId
  BY <1>3
<1>11. (IF secondary = <<>> THEN <<>> ELSE u.streamClaimId)
         = (IF c[7] = <<>> THEN <<>> ELSE IF S.present THEN S.claimId ELSE P.claimId)
  BY <1>9, <1>10
<1> QED
  BY <1>4, <1>5, <1>6, <1>8, <1>9, <1>11 DEF StringOf

(* A converted separator is there if it was.                               *)
LEMMA WebSeparatorIs ==
    ASSUME NEW host, NEW s, s = <<>> \/ \E t \in Separators : s = <<t>>
    PROVE  /\ WebSeparator(host, s) = <<>> \/ \E t \in Separators : WebSeparator(host, s) = <<t>>
           /\ WebSeparator(host, s) = <<>> <=> s = <<>>
           /\ host = <<>> => WebSeparator(host, s) = s
<1>1. "#" \in Separators /\ <<"#">> # <<>>
  BY DEF Separators
<1> QED
  BY <1>1 DEF WebSeparator

(* A single token has no other in it.                                      *)
LEMMA SingleToken ==
    ASSUME NEW T, NEW x \in T, NEW S, x \notin S
    PROVE  <<x>> \in Seq(T) /\ NoneOf(<<x>>, S)
<1>1. Len(<<x>>) = 1 /\ <<x>>[1] = x
  OBVIOUS
<1> QED
  BY <1>1 DEF NoneOf

(* What a modifier is written with: no slash, no question mark, no blank.  *)
LEMMA ModifierTextIs ==
    ASSUME NEW T, Separators \subseteq T, Words \subseteq T, NEW s, NEW w, ModifierText(s, w)
    PROVE  /\ s \in Seq(T) /\ w \in Seq(T)
           /\ NoneOf(s, {"/"}) /\ NoneOf(s, {"?"}) /\ NoneOf(s, {" "})
           /\ NoneOf(w, {"/"}) /\ NoneOf(w, {"?"}) /\ NoneOf(w, {" "})
<1>1. <<>> \in Seq(T) /\ \A S : NoneOf(<<>>, S)
  BY EmptySeq DEF NoneOf
<1>2. ASSUME NEW t \in Separators
      PROVE  <<t>> \in Seq(T) /\ NoneOf(<<t>>, {"/"}) /\ NoneOf(<<t>>, {"?"}) /\ NoneOf(<<t>>, {" "})
  <2>1. t \in T /\ t \notin {"/"} /\ t \notin {"?"} /\ t \notin {" "}
    BY DEF Separators
  <2> QED
    BY <2>1, SingleToken
<1>3. ASSUME NEW x \in Words
      PROVE  <<x>> \in Seq(T) /\ NoneOf(<<x>>, {"/"}) /\ NoneOf(<<x>>, {"?"}) /\ NoneOf(<<x>>, {" "})
  <2>1. x \in T /\ x \notin {"/"} /\ x \notin {"?"} /\ x \notin {" "}
    BY UrlAssumption DEF Words
  <2> QED
    BY <2>1, SingleToken
<1>4. s = <<>> \/ \E t \in Separators : s = <<t>>
  BY DEF ModifierText
<1>5. w = <<>> \/ \E x \in Words : w = <<x>>
  BY DEF ModifierText
<1>6. s \in Seq(T) /\ NoneOf(s, {"/"}) /\ NoneOf(s, {"?"}) /\ NoneOf(s, {" "})
  BY <1>1, <1>2, <1>4
<1>7. w \in Seq(T) /\ NoneOf(w, {"/"}) /\ NoneOf(w, {"?"}) /\ NoneOf(w, {" "})
  BY <1>1, <1>3, <1>5
<1> QED
  BY <1>6, <1>7

(* The parts that String writes for a URL with the parts c.                *)
Rewritten(c, d, s1, w1, t, w) ==
    /\ d[1] = <<"lbry://">> /\ d[2] = <<>> /\ d[3] = c[3] /\ d[4] = s1 /\ d[5] = w1
    /\ d[6] = (IF c[7] = <<>> THEN <<>> ELSE <<"/">>) /\ d[7] = c[7] /\ d[8] = t /\ d[9] = w

(* They are a path, too.                                                   *)
LEMMA RewrittenPath ==
    ASSUME NEW T, Separators \subseteq T, Words \subseteq T, NEW c, Path(T, c),
           NEW s1, NEW w1, ModifierText(s1, w1), NEW t, NEW w, ModifierText(t, w),
           c[7] = <<>> => t = <<>>,
           NEW d \in [1..9 -> Seq(T)], Rewritten(c, d, s1, w1, t, w)
    PROVE  Path(T, d)
<1>1. NoneOf(c[3], Separators \cup {"/"}) /\ NoneOf(c[7], Separators \cup {"/"})
  BY DEF Path
<1>2. /\ d[3] = c[3] /\ d[4] = s1 /\ d[5] = w1 /\ d[7] = c[7] /\ d[8] = t /\ d[9] = w
      /\ d[6] = (IF c[7] = <<>> THEN <<>> ELSE <<"/">>)
  BY DEF Rewritten
<1>3. \A k \in {3, 7} : NoneOf(d[k], Separators \cup {"/"})
  BY <1>1, <1>2
<1>4. NoneOf(w1, {"/"}) /\ NoneOf(w, {"/"})
  BY ModifierTextIs
<1>5. /\ s1 = <<>> \/ \E x \in Separators : s1 = <<x>>
      /\ s1 = <<>> => w1 = <<>>
  BY DEF ModifierText
<1>6. /\ t = <<>> \/ \E x \in Separators : t = <<x>>
      /\ t = <<>> => w = <<>>
  BY DEF ModifierText
<1>7. \A k \in {4, 8} : /\ d[k] = <<>> \/ \E x \in Separators : d[k] = <<x>>
                        /\ d[k] = <<>> => d[k + 1] = <<>>
                        /\ NoneOf(d[k + 1], {"/"})
  <2> SUFFICES ASSUME NEW k \in {4, 8}
               PROVE  /\ d[k] = <<>> \/ \E x \in Separators : d[k] = <<x>>
                      /\ d[k] = <<>> => d[k + 1] = <<>>
                      /\ NoneOf(d[k + 1], {"/"})
    OBVIOUS
  <2>1. CASE k = 4
    <3>1. k + 1 = 5
      BY <2>1
    <3> QED
      BY <1>2, <1>4, <1>5, <2>1, <3>1
  <2>2. CASE k = 8
    <3>1. k + 1 = 9
      BY <2>2
    <3> QED
      BY <1>2, <1>4, <1>6, <2>2, <3>1
  <2> QED
    BY <2>1, <2>2
<1>8. <<"/">> # <<>>
  OBVIOUS
<1>9. d[6] \in {<<>>, <<"/">>} /\ (d[6] = <<>> => d[7] = <<>> /\ d[8] = <<>> /\ d[9] = <<>>)
  BY <1>2, <1>6, <1>8
<1> QED
  BY <1>3, <1>7, <1>9 DEF Path

(* What is in neither name and in no modifier is not written.              *)
LEMMA RewrittenClean ==
    ASSUME NEW c, NEW s1, NEW w1, NEW t, NEW w, NEW d, Rewritten(c, d, s1, w1, t, w),
           NEW x, x # "/", NoneOf(c[3], {x}), NoneOf(c[7], {x}),
           NoneOf(s1, {x}), NoneOf(w1, {x}), NoneOf(t, {x}), NoneOf(w, {x})
    PROVE  NotInPath(d, x)
<1>1. NoneOf(<<>>, {x})
  BY DEF NoneOf
<1>2. NoneOf(<<"/">>, {x})
  <2>1. Len(<<"/">>) = 1 /\ <<"/">>[1] = "/"
    OBVIOUS
  <2> QED
    BY <2>1 DEF NoneOf
<1>3. /\ NoneOf(d[3], {x}) /\ NoneOf(d[4], {x}) /\ NoneOf(d[5], {x}) /\ NoneOf(d[6], {x})
      /\ NoneOf(d[7], {x}) /\ NoneOf(d[8], {x}) /\ NoneOf(d[9], {x})
  BY <1>1, <1>2 DEF Rewritten
<1> SUFFICES ASSUME NEW k \in 3..9 PROVE NoneOf(d[k], {x})
  BY DEF NotInPath
<1>4. k = 3 \/ k = 4 \/ k = 5 \/ k = 6 \/ k = 7 \/ k = 8 \/ k = 9
  OBVIOUS
<1> QED
  BY <1>3, <1>4

(* A URL that Parse takes, with proper parts, and what String writes of    *)
(* it: the URL has the parts c, with the modifiers P and S, and the parts  *)
(* d are written, of which the second modifier is M.                       *)
UrlWritten(T, url, u, c, P, S, d, R, M) ==
    /\ c = Components(CleanUrl(url)) /\ Path(T, c)
    /\ ParsedAs(u, c, P, S)
    /\ c[3] # <<>> /\ (Head(c[3]) = "@" => Tail(c[3]) # <<>>) /\ (c[7] # <<>> => Head(c[3]) = "@")
    /\ Follows(T, 9, d, R)
    /\ UrlString(u) = R[0]
    /\ Rewritten(c, d, d[4], d[5], d[8], d[9])
    /\ WrittenAs(P, d[4], d[5])
    /\ d[4] = WebSeparator(c[2], c[4])
    /\ (d[4] \in {<<":">>, <<"$">>} => c[5] = Itoa(parseInt(c[5]))) => d[5] = c[5]
    /\ S.present = (c[8] # <<>>)
    /\ S.present => S.sequence # -1
    /\ ~S.present => S.sequence = -1 /\ S.bid = -1
    /\ IF Inherits(P, S, c[7])
       THEN d[8] = <<"#">> /\ d[9] = P.claimId /\ M = P
       ELSE /\ d[8] = WebSeparator(c[2], c[8]) /\ M = S
            /\ (d[8] \in {<<":">>, <<"$">>} => c[9] = Itoa(parseInt(c[9]))) => d[9] = c[9]
    /\ Parse(R[0], TRUE) # Invalid
    /\ ParsedAs(Parse(R[0], TRUE), d, P, M)

(* So it is.                                                               *)
LEMMA UrlAgain ==
    ASSUME NEW T, Separators \subseteq T, Words \subseteq T, {"/", "lbry://"} \subseteq T,
           NEW url \in Seq(T), HostPlaced(url),
           Parse(url, FALSE) # Invalid, ProperParts(url)
    PROVE  \E c, P, S, d, R, M : UrlWritten(T, url, Parse(url, FALSE), c, P, S, d, R, M)
<1> DEFINE u == Parse(url, FALSE)
           s == CleanUrl(url)
           c == Components(s)
           s1 == WebSeparator(c[2], c[4])
           s2 == WebSeparator(c[2], c[8])
           P == parseModifier(s1, c[5])
           S == parseModifier(s2, c[9])
<1>1. s \in Seq(T) /\ HostPlaced(s)
  BY CleanIs, CleanHosts
<1>2. PICK Q : Split(T, s, c, Q)
  BY <1>1, ComponentsSplit
<1>3. ~RefusedParts(c, P, S) /\ ParsedAs(u, c, P, S)
  <2>1. FALSE \in BOOLEAN
    OBVIOUS
  <2>2. IF url = <<>> \/ (FALSE /\ c[1] = <<>>) \/ RefusedParts(c, P, S)
        THEN Parse(url, FALSE) = Invalid
        ELSE /\ Parse(url, FALSE) # Invalid
             /\ ParsedAs(Parse(url, FALSE), c, P, S)
    BY <2>1, ParseIs
  <2> QED
    BY <2>2
<1>4. /\ (IF c[7] = <<>> THEN c[8] = <<>> ELSE Head(c[3]) = "@")
      /\ \A i \in {4, 8} : c[i] # <<>> =>
            c[i + 1] # <<>> /\ (WebSeparator(c[2], c[i]) = <<"#">> \/ parseInt(c[i + 1]) > 0)
      /\ "?" \notin ToSet(s)
  BY DEF ProperParts
<1> HIDE DEF u, s, c
<1>5. Path(T, c)
  BY <1>2, PathOf
<1>6. Chain(T, c, Q) /\ Q[0] = s
  BY <1>2, SplitSteps DEF Split
<1>7. c[3] \in Seq(T) /\ c[7] \in Seq(T) /\ c[5] \in Seq(T) /\ c[9] \in Seq(T)
  BY <1>6 DEF Chain
<1>8. /\ c[3] # <<>> /\ (Head(c[3]) = "@" => Tail(c[3]) # <<>>)
      /\ P # Invalid /\ S # Invalid
      /\ \A i \in 3..9 : " " \notin ToSet(c[i])
  BY <1>3 DEF RefusedParts
<1>9. c[3][1] \notin Hosts
  BY <1>1, <1>2, <1>8, NoHostFirst
<1>10. /\ c[4] = <<>> \/ \E t \in Separators : c[4] = <<t>>
       /\ c[4] = <<>> => c[5] = <<>>
       /\ c[4] # <<>> => c[5] # <<>> /\ (s1 = <<"#">> \/ parseInt(c[5]) > 0)
  <2>1. PICK k \in {4, 8} : k = 4
    OBVIOUS
  <2>2. k + 1 = 5
    BY <2>1
  <2>3. /\ c[k] = <<>> \/ \E t \in Separators : c[k] = <<t>>
        /\ c[k] = <<>> => c[k + 1] = <<>>
    BY <1>5 DEF Path
  <2>4. c[k] # <<>> =>
            c[k + 1] # <<>> /\ (WebSeparator(c[2], c[k]) = <<"#">> \/ parseInt(c[k + 1]) > 0)
    BY <1>4
  <2> QED
    BY <2>1, <2>2, <2>3, <2>4
<1>11. /\ c[8] = <<>> \/ \E t \in Separators : c[8] = <<t>>
       /\ c[8] = <<>> => c[9] = <<>>
       /\ c[8] # <<>> => c[9] # <<>> /\ (s2 = <<"#">> \/ parseInt(c[9]) > 0)
  <2>1. PICK k \in {4, 8} : k = 8
    OBVIOUS
  <2>2. k + 1 = 9
    BY <2>1
  <2>3. /\ c[k] = <<>> \/ \E t \in Separators : c[k] = <<t>>
        /\ c[k] = <<>> => c[k + 1] = <<>>
    BY <1>5 DEF Path
  <2>4. c[k] # <<>> =>
            c[k + 1] # <<>> /\ (WebSeparator(c[2], c[k]) = <<"#">> \/ parseInt(c[k + 1]) > 0)
    BY <1>4
  <2> QED
    BY <2>1, <2>2, <2>3, <2>4
<1>12. /\ s1 = <<>> \/ \E t \in Separators : s1 = <<t>>
       /\ s1 = <<>> <=> c[4] = <<>>
  BY <1>10, WebSeparatorIs
<1>13. /\ s2 = <<>> \/ \E t \in Separators : s2 = <<t>>
       /\ s2 = <<>> <=> c[8] = <<>>
  BY <1>11, WebSeparatorIs
<1> HIDE DEF s1, s2
<1>14. ProperModifier(s1, c[5])
  BY <1>8, <1>10, <1>12 DEF ProperModifier
<1>15. ProperModifier(s2, c[9])
  BY <1>8, <1>11, <1>13 DEF ProperModifier
<1>16. PICK w1 : /\ WrittenAs(P, s1, w1)
                 /\ (s1 \in {<<":">>, <<"$">>} => c[5] = Itoa(parseInt(c[5]))) => w1 = c[5]
  BY <1>7, <1>14, ModifierWritten
<1>17. PICK w2 : /\ WrittenAs(S, s2, w2)
                 /\ (s2 \in {<<":">>, <<"$">>} => c[9] = Itoa(parseInt(c[9]))) => w2 = c[9]
  BY <1>7, <1>15, ModifierWritten
<1> HIDE DEF P, S
<1>18. ModifierText(s1, w1)
  BY <1>12, <1>16 DEF ModifierText, WrittenAs
<1>19. ModifierText(s2, w2)
  BY <1>13, <1>17 DEF ModifierText, WrittenAs
<1>20. c[7] = <<>> => s2 = <<>>
  BY <1>4, <1>13
<1>0. PICK t, w : SecondIs(P, S, s2, w2, c[7], t, w)
  BY <1>16, <1>17, <1>19, <1>20, SecondWritten
<1>21. /\ Modifier(IF c[7] = <<>> THEN <<>> ELSE IF S.present THEN S.claimId ELSE P.claimId,
                   S.sequence, S.bid) = t \o w
       /\ ModifierText(t, w)
       /\ c[7] = <<>> => t = <<>>
       /\ IF Inherits(P, S, c[7])
          THEN t = <<"#">> /\ w = P.claimId /\ parseModifier(t, w) = P
          ELSE t = s2 /\ w = w2 /\ parseModifier(t, w) = S
  BY <1>0 DEF SecondIs
<1> DEFINE slash == IF c[7] = <<>> THEN <<>> ELSE <<"/">>
           d == <<<<"lbry://">>, <<>>, c[3], s1, w1, slash, c[7], t, w>>
           M == IF Inherits(P, S, c[7]) THEN P ELSE S
<1>22. /\ d[1] = <<"lbry://">> /\ d[2] = <<>> /\ d[3] = c[3] /\ d[4] = s1 /\ d[5] = w1 /\ d[6] = slash
       /\ d[7] = c[7] /\ d[8] = t /\ d[9] = w
  OBVIOUS
<1>23. d \in [1..9 -> Seq(T)]
  <2>1. s1 \in Seq(T) /\ w1 \in Seq(T)
    BY <1>18, ModifierTextIs
  <2>2. t \in Seq(T) /\ w \in Seq(T)
    BY <1>21, ModifierTextIs
  <2>3. <<"lbry://">> \in Seq(T) /\ <<"/">> \in Seq(T) /\ <<>> \in Seq(T)
    BY EmptySeq
  <2>4. slash \in Seq(T)
    BY <2>3
  <2> HIDE DEF slash
  <2>5. d = [k \in 1..9 |-> d[k]]
    OBVIOUS
  <2> HIDE DEF d
  <2>6. ASSUME NEW k \in 1..9 PROVE d[k] \in Seq(T)
    <3>1. k = 1 \/ k = 2 \/ k = 3 \/ k = 4 \/ k = 5 \/ k = 6 \/ k = 7 \/ k = 8 \/ k = 9
      OBVIOUS
    <3> QED
      BY <1>7, <1>22, <2>1, <2>2, <2>3, <2>4, <3>1
  <2> QED
    BY <2>5, <2>6
<1> HIDE DEF d
<1>24. Rewritten(c, d, s1, w1, t, w)
  BY <1>22 DEF Rewritten
<1>25. Path(T, d)
  BY <1>5, <1>18, <1>21, <1>23, <1>24, RewrittenPath
<1>26. PICK R : Follows(T, 9, d, R)
  BY <1>23, FollowsExists
<1>27. UrlString(u) = R[0]
  <2>1. UrlString(u) = StringOf(c, P, S)
    <3>1. c[7] # <<>> => Head(c[3]) = "@"
      BY <1>4
    <3> QED
      BY <1>3, <1>8, <3>1, StringIs
  <2>2. Modifier(P.claimId, P.sequence, P.bid) = s1 \o w1
    BY <1>16 DEF WrittenAs
  <2>3. (IF c[7] = <<>> THEN <<>> ELSE <<"/">> \o c[7]) = slash \o c[7]
    BY EmptySeq, ConcatEmptySeq
  <2>4. R[0] = d[1] \o d[3] \o (d[4] \o d[5]) \o (d[6] \o d[7]) \o (d[8] \o d[9])
    BY <1>22, <1>26, JoinedIs
  <2> HIDE DEF slash
  <2>5. R[0] = <<"lbry://">> \o c[3] \o (s1 \o w1) \o (slash \o c[7]) \o (t \o w)
    BY <1>22, <2>4
  <2> QED
    BY <1>21, <2>1, <2>2, <2>3, <2>5 DEF StringOf
<1>28. Parse(R[0], TRUE) # Invalid /\ ParsedAs(Parse(R[0], TRUE), d, P, M)
  <2>1. NotInPath(d, "?")
    <3>1. NoneOf(Q[0], {"?"})
      BY <1>1, <1>4, <1>6, NotInSet
    <3>2. \A k \in 1..9 : NoneOf(c[k], {"?"})
      BY <1>6, <3>1, ChainNone
    <3>3. NoneOf(c[3], {"?"}) /\ NoneOf(c[7], {"?"})
      BY <3>2
    <3>4. NoneOf(s1, {"?"}) /\ NoneOf(w1, {"?"})
      BY <1>18, ModifierTextIs
    <3>5. NoneOf(t, {"?"}) /\ NoneOf(w, {"?"})
      BY <1>21, ModifierTextIs
    <3>6. "?" # "/"
      OBVIOUS
    <3> QED
      BY <1>24, <3>3, <3>4, <3>5, <3>6, RewrittenClean
  <2>2. NotInPath(d, " ")
    <3>0. 3 \in 3..9 /\ 7 \in 3..9
      OBVIOUS
    <3>1. " " \notin ToSet(c[3]) /\ " " \notin ToSet(c[7])
      BY <1>8, <3>0
    <3>3. NoneOf(c[3], {" "}) /\ NoneOf(c[7], {" "})
      BY <1>7, <3>1, NotInSet
    <3>4. NoneOf(s1, {" "}) /\ NoneOf(w1, {" "})
      BY <1>18, ModifierTextIs
    <3>5. NoneOf(t, {" "}) /\ NoneOf(w, {" "})
      BY <1>21, ModifierTextIs
    <3>6. " " # "/"
      OBVIOUS
    <3>7. PICK x : x = " "
      OBVIOUS
    <3>8. /\ x # "/" /\ NoneOf(c[3], {x}) /\ NoneOf(c[7], {x})
          /\ NoneOf(s1, {x}) /\ NoneOf(w1, {x}) /\ NoneOf(t, {x}) /\ NoneOf(w, {x})
      BY <3>3, <3>4, <3>5, <3>6, <3>7
    <3>9. NotInPath(d, x)
      BY <1>24, <3>8, RewrittenClean
    <3> QED
      BY <3>7, <3>9
  <2>3. \A k \in 3..9 : " " \notin ToSet(d[k])
    <3> SUFFICES ASSUME NEW k \in 3..9 PROVE " " \notin ToSet(d[k])
      OBVIOUS
    <3>1. k \in 1..9
      OBVIOUS
    <3>2. d[k] \in Seq(T)
      BY <1>23, <3>1
    <3> QED
      BY <2>2, <3>2, NotInSet DEF NotInPath
  <2>4. parseModifier(d[4], d[5]) = P
    BY <1>16, <1>22 DEF WrittenAs
  <2>5. parseModifier(d[8], d[9]) = M
    BY <1>21, <1>22
  <2>6. M # Invalid
    BY <1>8
  <2> HIDE DEF M
  <2>7. ~RefusedParts(d, P, M)
    BY <1>8, <1>22, <2>3, <2>6 DEF RefusedParts
  <2>8. d[3] # <<>> => d[3][1] \notin Hosts
    BY <1>9, <1>22
  <2>9. ParsedByParts(R[0], d, P, M)
    BY <1>22, <1>25, <1>26, <2>1, <2>4, <2>5, <2>8, LbryParsed
  <2> QED
    BY <2>7, <2>9 DEF ParsedByParts
<1>29. /\ S.present = (c[8] # <<>>)
       /\ S.present => S.sequence # -1
       /\ ~S.present => S.sequence = -1 /\ S.bid = -1
  BY <1>13, <1>17 DEF WrittenAs
<1>30. IF Inherits(P, S, c[7])
       THEN d[8] = <<"#">> /\ d[9] = P.claimId /\ M = P
       ELSE /\ d[8] = WebSeparator(c[2], c[8]) /\ M = S
            /\ (d[8] \in {<<":">>, <<"$">>} => c[9] = Itoa(parseInt(c[9]))) => d[9] = c[9]
  BY <1>17, <1>21, <1>22 DEF s2
<1>31. Rewritten(c, d, d[4], d[5], d[8], d[9])
  BY <1>22, <1>24
<1>32. WrittenAs(P, d[4], d[5]) /\ d[4] = WebSeparator(c[2], c[4])
       /\ ((d[4] \in {<<":">>, <<"$">>} => c[5] = Itoa(parseInt(c[5]))) => d[5] = c[5])
  BY <1>16, <1>22 DEF s1
<1>33. c[7] # <<>> => Head(c[3]) = "@"
  BY <1>4
<1>34. c = Components(CleanUrl(url))
  BY DEF c, s
<1> HIDE DEF M
<1>35. UrlWritten(T, url, u, c, P, S, d, R, M)
  BY <1>3, <1>5, <1>8, <1>26, <1>27, <1>28, <1>29, <1>30, <1>31, <1>32, <1>33, <1>34 DEF UrlWritten
<1> QED
  BY <1>35 DEF u

(* The URL that is written is parsed again, to the same claim.  A stream   *)
(* that was given the claim id of its channel now has it of its own.       *)
LEMMA SameAgain ==
    ASSUME NEW T, NEW url, NEW u, NEW c, NEW P, NEW S, NEW d, NEW R, NEW M,
           UrlWritten(T, url, u, c, P, S, d, R, M)
    PROVE  Parse(UrlString(u), TRUE) # Invalid /\ SameClaim(u, Parse(UrlString(u), TRUE))
<1>1. PICK v : v = Parse(R[0], TRUE)
  OBVIOUS
<1>2. ParsedAs(u, c, P, S) /\ ParsedAs(v, d, P, M) /\ v # Invalid /\ UrlString(u) = R[0]
  BY <1>1 DEF UrlWritten
<1>3. d[3] = c[3] /\ d[7] = c[7]
  BY DEF UrlWritten, Rewritten
<1>4. SameClaim(u, v)
  <2>1. CASE Inherits(P, S, c[7])
    <3>1. M = P /\ ~S.present /\ S.sequence = -1 /\ S.bid = -1 /\ P.sequence = 0 /\ P.bid = 0
      BY <2>1 DEF UrlWritten, WrittenAs, Inherits
    <3> QED
      BY <1>2, <1>3, <3>1 DEF ParsedAs, SameClaim
  <2>2. CASE ~Inherits(P, S, c[7])
    <3>1. M = S
      BY <2>2 DEF UrlWritten
    <3> QED
      BY <1>2, <1>3, <3>1 DEF ParsedAs, SameClaim
  <2> QED
    BY <2>1, <2>2
<1> QED
  BY <1>1, <1>2, <1>4

(* A canonical URL is written as it was.                                   *)
LEMMA CanonicalAgain ==
    ASSUME NEW T, NEW url, NEW u, NEW c, NEW P, NEW S, NEW d, NEW R, NEW M,
           UrlWritten(T, url, u, c, P, S, d, R, M), Canonical(url)
    PROVE  UrlString(u) = IF InheritsId(u) THEN url \o <<"#">> \o u.channelClaimId ELSE url
<1>1. /\ c = Components(url) /\ c[1] = <<"lbry://">> /\ c[2] = <<>> /\ FlattenSeq(c) = url
      /\ (c[6] = <<>>) = (c[7] = <<>>)
      /\ \A i \in {4, 8} : c[i] \in {<<":">>, <<"$">>} => c[i + 1] = Itoa(parseInt(c[i + 1]))
  BY DEF Canonical, UrlWritten
<1>2. /\ Path(T, c) /\ ParsedAs(u, c, P, S) /\ UrlString(u) = R[0] /\ Follows(T, 9, d, R)
      /\ c[3] # <<>> /\ (Head(c[3]) = "@" => Tail(c[3]) # <<>>) /\ (c[7] # <<>> => Head(c[3]) = "@")
      /\ S.present = (c[8] # <<>>)
      /\ S.present => S.sequence # -1
      /\ ~S.present => S.sequence = -1
  BY DEF UrlWritten
<1>3. c \in [1..9 -> Seq(T)]
  BY <1>2 DEF Path
<1>4. PICK Q : Follows(T, 9, c, Q)
  BY <1>3, FollowsExists
<1>5. url = Q[0]
  BY <1>1, <1>4, FlattenFollows
<1>6. url = c[1] \o c[3] \o (c[4] \o c[5]) \o (c[6] \o c[7]) \o (c[8] \o c[9])
  BY <1>1, <1>4, <1>5, JoinedIs
<1>7. /\ d[1] = c[1] /\ d[2] = <<>> /\ d[3] = c[3] /\ d[7] = c[7]
      /\ d[6] = (IF c[7] = <<>> THEN <<>> ELSE <<"/">>)
  BY <1>1 DEF UrlWritten, Rewritten
<1>8. R[0] = d[1] \o d[3] \o (d[4] \o d[5]) \o (d[6] \o d[7]) \o (d[8] \o d[9])
  BY <1>2, <1>7, JoinedIs
<1>9. d[6] = c[6]
  <2>1. c[6] \in {<<>>, <<"/">>}
    BY <1>2 DEF Path
  <2> QED
    BY <1>1, <1>7, <2>1
<1>10. d[4] = c[4] /\ d[5] = c[5]
  <2>1. d[4] = WebSeparator(c[2], c[4])
        /\ ((d[4] \in {<<":">>, <<"$">>} => c[5] = Itoa(parseInt(c[5]))) => d[5] = c[5])
    BY DEF UrlWritten
  <2>2. d[4] = c[4]
    BY <1>1, <2>1 DEF WebSeparator
  <2>3. c[4] \in {<<":">>, <<"$">>} => c[5] = Itoa(parseInt(c[5]))
    <3>1. PICK k \in {4, 8} : k = 4
      OBVIOUS
    <3>2. k + 1 = 5
      BY <3>1
    <3>3. c[k] \in {<<":">>, <<"$">>} => c[k + 1] = Itoa(parseInt(c[k + 1]))
      BY <1>1
    <3> QED
      BY <3>1, <3>2, <3>3
  <2> QED
    BY <2>1, <2>2, <2>3
<1> DEFINE X == d[1] \o d[3] \o (d[4] \o d[5]) \o (d[6] \o d[7])
<1>11. url = X \o (c[8] \o c[9])
  BY <1>6, <1>7, <1>9, <1>10
<1>12. R[0] = X \o (d[8] \o d[9])
  BY <1>8
<1>13. InheritsId(u) <=> Inherits(P, S, c[7])
  BY <1>2 DEF InheritsId, Inherits, ParsedAs
<1>14. X \in Seq(T)
  <2>1. \A k \in 1..9 : d[k] \in Seq(T)
    BY <1>2 DEF Follows
  <2>2. d[1] \in Seq(T) /\ d[3] \in Seq(T) /\ d[4] \in Seq(T) /\ d[5] \in Seq(T) /\ d[6] \in Seq(T) /\ d[7] \in Seq(T)
    BY <2>1
  <2> QED
    BY <2>2, ConcatProperties
<1> HIDE DEF X
<1>15. CASE Inherits(P, S, c[7])
  <2>1. d[8] = <<"#">> /\ d[9] = P.claimId
    BY <1>15 DEF UrlWritten
  <2>2. c[8] = <<>> /\ ~S.present
    BY <1>2, <1>15 DEF Inherits
  <2>3. c[9] = <<>>
    <3>1. PICK k \in {4, 8} : k = 8
      OBVIOUS
    <3>2. k + 1 = 9
      BY <3>1
    <3>3. c[k] = <<>> => c[k + 1] = <<>>
      BY <1>2 DEF Path
    <3> QED
      BY <2>2, <3>1, <3>2, <3>3
  <2>4. url = X
    <3>1. <<>> \o <<>> = <<>>
      OBVIOUS
    <3> QED
      BY <1>11, <1>14, <2>2, <2>3, <3>1, ConcatEmptySeq
  <2>5. d[8] \in Seq(T) /\ d[9] \in Seq(T)
    BY <1>2 DEF Follows
  <2>6. R[0] = (X \o d[8]) \o d[9]
    <3>1. PICK a, b : a = d[8] /\ b = d[9]
      OBVIOUS
    <3>2. a \in Seq(T) /\ b \in Seq(T)
      BY <2>5, <3>1
    <3>3. (X \o a) \o b = X \o (a \o b)
      BY <1>14, <3>2, JoinEither
    <3> QED
      BY <1>12, <3>1, <3>3
  <2>7. u.channelClaimId = P.claimId
    BY <1>2, <1>15 DEF ParsedAs, Inherits
  <2> QED
    BY <1>2, <1>13, <1>15, <2>1, <2>4, <2>6, <2>7
<1>16. CASE ~Inherits(P, S, c[7])
  <2>1. d[8] = WebSeparator(c[2], c[8])
        /\ ((d[8] \in {<<":">>, <<"$">>} => c[9] = Itoa(parseInt(c[9]))) => d[9] = c[9])
    BY <1>16 DEF UrlWritten
  <2>2. d[8] = c[8]
    BY <1>1, <2>1 DEF WebSeparator
  <2>3. c[8] \in {<<":">>, <<"$">>} => c[9] = Itoa(parseInt(c[9]))
    <3>1. PICK k \in {4, 8} : k = 8
      OBVIOUS
    <3>2. k + 1 = 9
      BY <3>1
    <3>3. c[k] \in {<<":">>, <<"$">>} => c[k + 1] = Itoa(parseInt(c[k + 1]))
      BY <1>1
    <3> QED
      BY <3>1, <3>2, <3>3
  <2>4. R[0] = url
    BY <1>11, <1>12, <2>1, <2>2, <2>3
  <2> QED
    BY <1>2, <1>13, <1>16, <2>4
<1> QED
  BY <1>15, <1>16

(* A text with the hash character for every colon, as Lbry writes it.      *)
Hashed(s) == [i \in DOMAIN s |-> IF s[i] = ":" THEN "#" ELSE s[i]]

(* It has as many tokens, and only its colons are others.                  *)
LEMMA HashedIs ==
    ASSUME NEW T, Separators \subseteq T, NEW s \in Seq(T)
    PROVE  /\ Hashed(s) \in Seq(T) /\ Len(Hashed(s)) = Len(s)
           /\ \A i \in 1..Len(s) : Hashed(s)[i] = IF s[i] = ":" THEN "#" ELSE s[i]
<1>1. DOMAIN s = 1..Len(s) /\ Len(s) \in Nat /\ \A i \in 1..Len(s) : s[i] \in T
  OBVIOUS
<1>2. "#" \in T
  BY DEF Separators
<1>3. Hashed(s) = [i \in 1..Len(s) |-> IF s[i] = ":" THEN "#" ELSE s[i]]
  BY <1>1 DEF Hashed
<1> DEFINE f(i) == IF s[i] = ":" THEN "#" ELSE s[i]
<1>4. \A i \in 1..Len(s) : f(i) \in T
  BY <1>1, <1>2
<1> QED
  BY <1>1, <1>3, <1>4

(* A text without colons stays as it is.                                   *)
LEMMA HashedSame ==
    ASSUME NEW T, Separators \subseteq T, NEW s \in Seq(T), NoneOf(s, {":"})
    PROVE  Hashed(s) = s
<1>1. Hashed(s) \in Seq(T) /\ Len(Hashed(s)) = Len(s)
  BY HashedIs
<1>2. \A i \in 1..Len(s) : Hashed(s)[i] = IF s[i] = ":" THEN "#" ELSE s[i]
  BY HashedIs
<1>3. \A i \in 1..Len(s) : Hashed(s)[i] = s[i]
  BY <1>2 DEF NoneOf
<1>4. PICK h \in Seq(T) : h = Hashed(s)
  BY <1>1
<1>5. Len(h) = Len(s) /\ \A i \in 1..Len(s) : h[i] = s[i]
  BY <1>1, <1>3, <1>4
<1>6. h = s
  BY <1>5, SeqEqual
<1> QED
  BY <1>4, <1>6

(* A token other than these two is in it where it was.                     *)
LEMMA HashedNone ==
    ASSUME NEW T, Separators \subseteq T, NEW s \in Seq(T), NEW x, x # ":", x # "#"
    PROVE  NoneOf(Hashed(s), {x}) <=> NoneOf(s, {x})
<1>1. Len(Hashed(s)) = Len(s)
  BY HashedIs
<1>2. \A i \in 1..Len(s) : Hashed(s)[i] = IF s[i] = ":" THEN "#" ELSE s[i]
  BY HashedIs
<1>3. \A i \in 1..Len(s) : Hashed(s)[i] = x <=> s[i] = x
  BY <1>2
<1> QED
  BY <1>1, <1>3 DEF NoneOf

(* Parts can be changed one by one.                                        *)
LEMMA HashedConcat ==
    ASSUME NEW T, Separators \subseteq T, NEW p \in Seq(T), NEW r \in Seq(T)
    PROVE  Hashed(p \o r) = Hashed(p) \o Hashed(r)
<1>1. /\ p \o r \in Seq(T) /\ Len(p \o r) = Len(p) + Len(r) /\ Len(p) \in Nat /\ Len(r) \in Nat
      /\ \A i \in 1..(Len(p) + Len(r)) : (p \o r)[i] = IF i <= Len(p) THEN p[i] ELSE r[i - Len(p)]
  OBVIOUS
<1>2. PICK a \in Seq(T) : a = Hashed(p)
  BY HashedIs
<1>3. PICK b \in Seq(T) : b = Hashed(r)
  BY HashedIs
<1>4. PICK h \in Seq(T) : h = Hashed(p \o r)
  BY <1>1, HashedIs
<1>5. Len(a) = Len(p) /\ \A i \in 1..Len(p) : a[i] = IF p[i] = ":" THEN "#" ELSE p[i]
  BY <1>2, HashedIs
<1>6. Len(b) = Len(r) /\ \A i \in 1..Len(r) : b[i] = IF r[i] = ":" THEN "#" ELSE r[i]
  BY <1>3, HashedIs
<1>7. /\ Len(h) = Len(p \o r)
      /\ \A i \in 1..Len(p \o r) : h[i] = IF (p \o r)[i] = ":" THEN "#" ELSE (p \o r)[i]
  <2>1. PICK pr \in Seq(T) : pr = p \o r
    BY <1>1
  <2>2. Len(Hashed(pr)) = Len(pr) /\ \A i \in 1..Len(pr) : Hashed(pr)[i] = IF pr[i] = ":" THEN "#" ELSE pr[i]
    BY HashedIs
  <2> QED
    BY <1>4, <2>1, <2>2
<1>8. /\ a \o b \in Seq(T) /\ Len(a \o b) = Len(p) + Len(r)
      /\ \A i \in 1..(Len(p) + Len(r)) : (a \o b)[i] = IF i <= Len(p) THEN a[i] ELSE b[i - Len(p)]
  <2>1. /\ a \o b \in Seq(T) /\ Len(a \o b) = Len(a) + Len(b)
        /\ \A i \in 1..(Len(a) + Len(b)) : (a \o b)[i] = IF i <= Len(a) THEN a[i] ELSE b[i - Len(a)]
    OBVIOUS
  <2>2. Len(a) = Len(p) /\ Len(b) = Len(r)
    BY <1>5, <1>6
  <2> QED
    BY <2>1, <2>2
<1>9. ASSUME NEW i \in 1..(Len(p) + Len(r)) PROVE h[i] = (a \o b)[i]
  <2>1. h[i] = IF (p \o r)[i] = ":" THEN "#" ELSE (p \o r)[i]
    BY <1>1, <1>7
  <2>2. CASE i <= Len(p)
    <3>1. i \in 1..Len(p)
      BY <1>1, <2>2
    <3>2. (p \o r)[i] = p[i] /\ (a \o b)[i] = a[i]
      BY <1>1, <1>8, <2>2
    <3> QED
      BY <1>5, <2>1, <3>1, <3>2
  <2>3. CASE ~(i <= Len(p))
    <3>1. i - Len(p) \in 1..Len(r)
      BY <1>1, <2>3
    <3>2. (p \o r)[i] = r[i - Len(p)] /\ (a \o b)[i] = b[i - Len(p)]
      BY <1>1, <1>8, <2>3
    <3> QED
      BY <1>6, <2>1, <3>1, <3>2
  <2> QED
    BY <2>2, <2>3
<1>10. PICK ab \in Seq(T) : ab = a \o b
  BY <1>8
<1>11. Len(h) = Len(ab) /\ \A i \in 1..Len(h) : h[i] = ab[i]
  BY <1>1, <1>7, <1>8, <1>9, <1>10
<1>12. h = ab
  BY <1>11, SeqEqual
<1> QED
  BY <1>2, <1>3, <1>4, <1>10, <1>12

(* The separators of a web site's URL, and those of the lbry URL.          *)
LEMMA HashedSeparator ==
    ASSUME NEW host, host # <<>>, NEW s, s = <<>> \/ \E t \in Separators : s = <<t>>
    PROVE  /\ Hashed(s) = WebSeparator(host, s)
           /\ Hashed(s) \in {<<>>, <<"#">>, <<"$">>}
<1>1. CASE s = <<>>
  BY <1>1 DEF Hashed, WebSeparator
<1>2. CASE s = <<":">>
  BY <1>2 DEF Hashed, WebSeparator
<1>3. CASE s = <<"$">>
  BY <1>3 DEF Hashed, WebSeparator
<1>4. CASE s = <<"#">>
  BY <1>4 DEF Hashed, WebSeparator
<1> QED
  BY <1>1, <1>2, <1>3, <1>4 DEF Separators

(* No value has a colon or a hash character, so their modifiers are the    *)
(* same.                                                                   *)
LEMMA HashedModifier ==
    ASSUME NEW T, Separators \subseteq T, NEW v \in Seq(T), NEW s \in {<<>>, <<"#">>, <<"$">>}
    PROVE  parseModifier(s, Hashed(v)) = parseModifier(s, v)
<1>1. PICK h \in Seq(T) : h = Hashed(v)
  BY HashedIs
<1>2. Len(h) = Len(v) /\ \A i \in 1..Len(v) : h[i] = IF v[i] = ":" THEN "#" ELSE v[i]
  BY <1>1, HashedIs
<1>3. \A w \in Words : w # ":" /\ w # "#"
  BY UrlAssumption DEF Words, Separators
<1>4. Len(v) = 1 => h[1] = IF v[1] = ":" THEN "#" ELSE v[1]
  BY <1>2
<1>5. Len(v) = 1 /\ v[1] # ":" => h = v
  <2> SUFFICES ASSUME Len(v) = 1, v[1] # ":" PROVE h = v
    OBVIOUS
  <2>1. \A i \in 1..Len(v) : h[i] = v[i]
    BY <1>2, <1>4
  <2> QED
    BY <1>2, <2>1, SeqEqual
<1>6. /\ (Len(h) = 1 /\ h[1] \in HexWords) <=> (Len(v) = 1 /\ v[1] \in HexWords)
      /\ (Len(v) = 1 /\ v[1] \in HexWords) => h = v
  BY <1>2, <1>3, <1>4, <1>5 DEF Words
<1>7. /\ (Len(h) = 1 /\ h[1] \in DOMAIN NumberOf) <=> (Len(v) = 1 /\ v[1] \in DOMAIN NumberOf)
      /\ (Len(v) = 1 /\ v[1] \in DOMAIN NumberOf) => h = v
  BY <1>2, <1>3, <1>4, <1>5 DEF Words
<1>8. parseInt(h) = parseInt(v)
  BY <1>7 DEF parseInt
<1>9. h = <<>> <=> v = <<>>
  BY <1>2, EmptySeq
<1>10. CASE s = <<>> \/ v = <<>>
  BY <1>1, <1>9, <1>10, ModifierCases
<1>11. CASE s = <<"#">> /\ v # <<>>
  <2>1. parseModifier(s, v) = IF Len(v) = 1 /\ v[1] \in HexWords THEN IdMod(v) ELSE Invalid
    BY <1>11, ModifierCases
  <2>2. parseModifier(s, h) = IF Len(h) = 1 /\ h[1] \in HexWords THEN IdMod(h) ELSE Invalid
    BY <1>9, <1>11, ModifierCases
  <2> QED
    BY <1>1, <1>6, <2>1, <2>2
<1>12. CASE s = <<"$">> /\ v # <<>>
  <2>1. parseModifier(s, v) = IF parseInt(v) = -1 THEN Invalid ELSE BidMod(parseInt(v))
    BY <1>12, ModifierCases
  <2>2. parseModifier(s, h) = IF parseInt(h) = -1 THEN Invalid ELSE BidMod(parseInt(h))
    BY <1>9, <1>12, ModifierCases
  <2> QED
    BY <1>1, <1>8, <2>1, <2>2
<1> QED
  BY <1>10, <1>11, <1>12

(* The parts of the lbry URL that the URL of a web site stands for.        *)
WebParts(c) ==
    [k \in 1..9 |-> IF k = 1 THEN <<"lbry://">> ELSE IF k = 2 THEN <<>> ELSE Hashed(c[k])]

(* They are these.                                                         *)
LEMMA WebPartsAre ==
    ASSUME NEW T, Separators \subseteq T, "/" \in T, "lbry://" \in T, NEW c, Path(T, c)
    PROVE  /\ WebParts(c) \in [1..9 -> Seq(T)]
           /\ WebParts(c)[1] = <<"lbry://">> /\ WebParts(c)[2] = <<>>
           /\ \A k \in 3..9 : WebParts(c)[k] = Hashed(c[k])
<1>1. \A k \in 1..9 : c[k] \in Seq(T)
  BY DEF Path
<1>2. \A k \in 1..9 : Hashed(c[k]) \in Seq(T)
  BY <1>1, HashedIs
<1>3. <<"lbry://">> \in Seq(T) /\ <<>> \in Seq(T)
  BY EmptySeq
<1> QED
  BY <1>2, <1>3 DEF WebParts

(* The names and the slash have no colon, the separators are changed the   *)
(* way Parse changes them, so the parts are those of a path.               *)
LEMMA WebPath ==
    ASSUME NEW T, Separators \subseteq T, "/" \in T, "lbry://" \in T, NEW c, Path(T, c), c[2] # <<>>,
           NEW d, d = WebParts(c)
    PROVE  /\ Path(T, d)
           /\ d[3] = c[3] /\ d[7] = c[7]
           /\ d[4] = WebSeparator(c[2], c[4]) /\ d[4] \in {<<>>, <<"#">>, <<"$">>}
           /\ d[8] = WebSeparator(c[2], c[8]) /\ d[8] \in {<<>>, <<"#">>, <<"$">>}
<1>1. /\ d \in [1..9 -> Seq(T)] /\ \A k \in 3..9 : d[k] = Hashed(c[k])
  BY WebPartsAre
<1>2. \A k \in 1..9 : c[k] \in Seq(T)
  BY DEF Path
<1>3. ASSUME NEW k \in {3, 7} PROVE d[k] = c[k] /\ NoneOf(d[k], Separators \cup {"/"})
  <2>1. NoneOf(c[k], Separators \cup {"/"})
    BY DEF Path
  <2>2. NoneOf(c[k], {":"})
    BY <2>1 DEF NoneOf, Separators
  <2>3. c[k] \in Seq(T)
    BY <1>2
  <2>4. Hashed(c[k]) = c[k]
    BY <2>2, <2>3, HashedSame
  <2> QED
    BY <1>1, <2>1, <2>4
<1>4. ASSUME NEW k \in {4, 8}
      PROVE  /\ d[k] = WebSeparator(c[2], c[k]) /\ d[k] \in {<<>>, <<"#">>, <<"$">>}
             /\ d[k] = <<>> => d[k + 1] = <<>>
             /\ NoneOf(d[k + 1], {"/"})
  <2>1. /\ c[k] = <<>> \/ \E t \in Separators : c[k] = <<t>>
        /\ c[k] = <<>> => c[k + 1] = <<>>
        /\ NoneOf(c[k + 1], {"/"})
    BY DEF Path
  <2>2. d[k] = Hashed(c[k]) /\ d[k + 1] = Hashed(c[k + 1]) /\ c[k + 1] \in Seq(T)
    <3>1. k \in 3..9 /\ k + 1 \in 3..9 /\ k + 1 \in 1..9
      OBVIOUS
    <3> QED
      BY <1>1, <1>2, <3>1
  <2>3. d[k] = WebSeparator(c[2], c[k]) /\ d[k] \in {<<>>, <<"#">>, <<"$">>}
    BY <2>1, <2>2, HashedSeparator
  <2>4. d[k] = <<>> => c[k] = <<>>
    BY <2>1, <2>3, WebSeparatorIs
  <2>5. Hashed(<<>>) = <<>>
    BY DEF Hashed
  <2>6. NoneOf(d[k + 1], {"/"})
    <3>1. PICK v \in Seq(T) : v = c[k + 1]
      BY <2>2
    <3>2. "/" # ":" /\ "/" # "#"
      OBVIOUS
    <3>3. NoneOf(v, {"/"})
      BY <2>1, <3>1
    <3>4. NoneOf(Hashed(v), {"/"})
      BY <3>2, <3>3, HashedNone
    <3> QED
      BY <2>2, <3>1, <3>4
  <2> QED
    BY <2>1, <2>2, <2>3, <2>4, <2>5, <2>6
<1>5. d[6] = c[6] /\ c[6] \in {<<>>, <<"/">>}
  <2>1. c[6] \in {<<>>, <<"/">>}
    BY DEF Path
  <2>2. Hashed(<<>>) = <<>> /\ Hashed(<<"/">>) = <<"/">>
    BY DEF Hashed
  <2>3. d[6] = Hashed(c[6])
    BY <1>1
  <2> QED
    BY <2>1, <2>2, <2>3
<1>6. d[6] = <<>> => d[7] = <<>> /\ d[8] = <<>> /\ d[9] = <<>>
  <2> SUFFICES ASSUME d[6] = <<>> PROVE d[7] = <<>> /\ d[8] = <<>> /\ d[9] = <<>>
    OBVIOUS
  <2>1. c[7] = <<>> /\ c[8] = <<>> /\ c[9] = <<>>
    BY <1>5 DEF Path
  <2>2. d[7] = Hashed(c[7]) /\ d[8] = Hashed(c[8]) /\ d[9] = Hashed(c[9])
    BY <1>1
  <2>3. Hashed(<<>>) = <<>>
    BY DEF Hashed
  <2> QED
    BY <2>1, <2>2, <2>3
<1>7. \A k \in {4, 8} : /\ d[k] = <<>> \/ \E t \in Separators : d[k] = <<t>>
                        /\ d[k] = <<>> => d[k + 1] = <<>>
                        /\ NoneOf(d[k + 1], {"/"})
  <2>1. \A k \in {4, 8} : /\ d[k] \in {<<>>, <<"#">>, <<"$">>}
                          /\ d[k] = <<>> => d[k + 1] = <<>>
                          /\ NoneOf(d[k + 1], {"/"})
    BY <1>4
  <2>2. "#" \in Separators /\ "$" \in Separators
    BY DEF Separators
  <2> QED
    BY <2>1, <2>2
<1>8. \A k \in {3, 7} : NoneOf(d[k], Separators \cup {"/"})
  BY <1>3
<1>9. Path(T, d)
  BY <1>1, <1>5, <1>6, <1>7, <1>8 DEF Path
<1> QED
  BY <1>3, <1>4, <1>9

(* The parts of a URL from the name on, joined and changed, are the lbry   *)
(* URL.                                                                    *)
LEMMA WebFollows ==
    ASSUME NEW T, Separators \subseteq T, "/" \in T, "lbry://" \in T, NEW c, Path(T, c)
    PROVE  \E R : /\ Follows(T, 9, WebParts(c), R)
                  /\ R[0] = <<"lbry://">> \o Hashed(FlattenSeq(SubSeq(c, 3, 9)))
<1> DEFINE e == SubSeq(c, 3, 9)
           d == WebParts(c)
<1>1. c \in [1..9 -> Seq(T)]
  BY DEF Path
<1>3. e \in [1..7 -> Seq(T)] /\ \A i \in 1..7 : e[i] = c[i + 2]
  <2>1. PICK W : W = Seq(T)
    OBVIOUS
  <2>2. PICK m \in Int, n \in Int : m = 3 /\ n = 9
    OBVIOUS
  <2>3. \A i \in m..n : c[i] \in W
    BY <1>1, <2>1, <2>2
  <2>4. /\ SubSeq(c, m, n) \in Seq(W)
        /\ Len(SubSeq(c, m, n)) = IF m <= n THEN n - m + 1 ELSE 0
        /\ \A i \in 1..(n - m + 1) : SubSeq(c, m, n)[i] = c[m + i - 1]
    BY <2>3, SubSeqProperties
  <2>5. PICK f : f = SubSeq(c, m, n)
    OBVIOUS
  <2>6. f \in Seq(W) /\ Len(f) = 7 /\ \A i \in 1..7 : f[i] = c[i + 2]
    <3>1. n - m + 1 = 7 /\ m <= n
      BY <2>2
    <3>2. \A i \in 1..7 : m + i - 1 = i + 2
      BY <2>2
    <3>3. \A i \in 1..7 : f[i] = c[m + i - 1]
      BY <2>4, <2>5, <3>1
    <3> QED
      BY <2>4, <2>5, <3>1, <3>2, <3>3
  <2>7. f \in [1..7 -> W]
    BY <2>6, LenProperties
  <2>8. f = e
    BY <2>2, <2>5
  <2> QED
    BY <2>1, <2>6, <2>7, <2>8
<1>4. d \in [1..9 -> Seq(T)] /\ d[1] = <<"lbry://">> /\ d[2] = <<>> /\ \A k \in 3..9 : d[k] = Hashed(c[k])
  BY WebPartsAre
<1> HIDE DEF e, d
<1>5. PICK E : Follows(T, 7, e, E)
  BY <1>3, FollowsExists
<1>6. FlattenSeq(e) = E[0]
  BY <1>5, FlattenFollows
<1>7. E \in [0..7 -> Seq(T)] /\ E[7] = <<>> /\ \A k \in 1..7 : E[k - 1] = e[k] \o E[k]
  BY <1>5 DEF Follows
<1>8. \A k \in 0..7 : E[k] \in Seq(T) /\ Hashed(E[k]) \in Seq(T)
  BY <1>7, HashedIs
<1> DEFINE top == <<"lbry://">> \o Hashed(E[0])
           R == [k \in 0..9 |-> IF k = 0 THEN top ELSE IF k = 1 THEN Hashed(E[0]) ELSE Hashed(E[k - 2])]
<1>9. top \in Seq(T)
  BY <1>8
<1>10. R \in [0..9 -> Seq(T)]
  <2>1. \A k \in 0..9 : k # 0 /\ k # 1 => k - 2 \in 0..7
    OBVIOUS
  <2>2. Hashed(E[0]) \in Seq(T)
    BY <1>8
  <2> HIDE DEF top
  <2> QED
    BY <1>8, <1>9, <2>1, <2>2
<1>11. R[9] = <<>>
  <2>1. R[9] = Hashed(E[7])
    OBVIOUS
  <2> QED
    BY <1>7, <2>1 DEF Hashed
<1>12. ASSUME NEW k \in 1..9 PROVE R[k - 1] = d[k] \o R[k]
  <2>1. CASE k = 1
    <3>1. R[0] = top /\ R[1] = Hashed(E[0])
      OBVIOUS
    <3>2. k - 1 = 0
      BY <2>1
    <3> HIDE DEF R
    <3> QED
      BY <1>4, <2>1, <3>1, <3>2
  <2>2. CASE k = 2
    <3>1. R[1] = Hashed(E[0]) /\ R[2] = Hashed(E[0])
      OBVIOUS
    <3>2. Hashed(E[0]) \in Seq(T)
      BY <1>8
    <3>3. <<>> \o Hashed(E[0]) = Hashed(E[0])
      BY <3>2, ConcatEmptySeq
    <3>4. k - 1 = 1
      BY <2>2
    <3> HIDE DEF R
    <3> QED
      BY <1>4, <2>2, <3>1, <3>3, <3>4
  <2>3. CASE k \in 3..9
    <3>1. PICK j \in 1..7 : j = k - 2
      BY <2>3
    <3>2. R[k - 1] = Hashed(E[j - 1]) /\ R[k] = Hashed(E[j])
      <4>1. k - 1 \in 0..9 /\ k - 1 # 0 /\ k - 1 # 1 /\ k # 0 /\ k # 1 /\ k \in 0..9
            /\ (k - 1) - 2 = j - 1 /\ k - 2 = j
        BY <2>3, <3>1
      <4> HIDE DEF top
      <4>2. R[k - 1] = Hashed(E[(k - 1) - 2]) /\ R[k] = Hashed(E[k - 2])
        BY <4>1
      <4> QED
        BY <4>1, <4>2
    <3>3. E[j - 1] = e[j] \o E[j] /\ e[j] \in Seq(T) /\ E[j] \in Seq(T)
      <4>1. E[j - 1] = e[j] \o E[j]
        BY <1>7
      <4>2. e[j] \in Seq(T)
        BY <1>3
      <4>3. E[j] \in Seq(T)
        <5>1. j \in 0..7
          OBVIOUS
        <5> QED
          BY <1>8, <5>1
      <4> QED
        BY <4>1, <4>2, <4>3
    <3>4. Hashed(E[j - 1]) = Hashed(e[j]) \o Hashed(E[j])
      BY <3>3, HashedConcat
    <3>5. e[j] = c[k]
      <4>1. j + 2 = k /\ e[j] = c[j + 2]
        BY <1>3, <3>1
      <4> QED
        BY <4>1
    <3>6. d[k] = Hashed(c[k])
      BY <1>4, <2>3
    <3> HIDE DEF R
    <3> QED
      BY <3>2, <3>4, <3>5, <3>6
  <2>4. k = 1 \/ k = 2 \/ k \in 3..9
    OBVIOUS
  <2> HIDE DEF R
  <2> QED
    BY <2>1, <2>2, <2>3, <2>4
<1>13. R[0] = top
  OBVIOUS
<1> HIDE DEF R
<1>14. Follows(T, 9, d, R)
  BY <1>4, <1>10, <1>11, <1>12 DEF Follows
<1> QED
  BY <1>6, <1>13, <1>14 DEF d, e

(* So the URL of a web site is read as the lbry URL it stands for.         *)
LEMMA WebRead ==
    ASSUME NEW T, Separators \subseteq T, "/" \in T, "lbry://" \in T,
           NEW url \in Seq(T), HostPlaced(url),
           Components(CleanUrl(url))[2] # <<>>, "?" \notin ToSet(CleanUrl(url)),
           NEW u, u = Parse(url, FALSE), NEW w, w = Parse(Lbry(url), TRUE)
    PROVE  IF u = Invalid THEN w = Invalid ELSE w # Invalid /\ SameClaim(u, w)
<1>1. PICK s : s = CleanUrl(url)
  OBVIOUS
<1>2. s \in Seq(T) /\ HostPlaced(s) /\ "?" \notin ToSet(s)
  BY <1>1, CleanIs, CleanHosts
<1>3. PICK c : c = Components(s)
  OBVIOUS
<1>4. PICK Q : Split(T, s, c, Q)
  BY <1>2, <1>3, ComponentsSplit
<1>5. Path(T, c)
  BY <1>4, PathOf
<1>6. Chain(T, c, Q) /\ Q[0] = s /\ c[2] # <<>>
  BY <1>1, <1>3, <1>4, SplitSteps DEF Split
<1>7. url # <<>>
  <2>1. s # <<>>
    <3>1. /\ s = c[1] \o Q[1] /\ Q[1] = c[2] \o Q[2]
          /\ c[1] \in Seq(T) /\ c[2] \in Seq(T) /\ Q[1] \in Seq(T) /\ Q[2] \in Seq(T)
      BY <1>6 DEF Chain
    <3>2. Q[1] # <<>>
      BY <1>6, <3>1, FirstOf
    <3> QED
      BY <3>1, <3>2, FirstOf
  <2>2. Len(s) <= Len(url) /\ Len(s) \in Nat /\ Len(s) # 0
    BY <1>1, <1>2, <2>1, CleanIs, EmptySeq
  <2>3. Len(<<>>) = 0
    OBVIOUS
  <2> QED
    BY <2>2, <2>3
<1>0. PICK P, S : /\ P = parseModifier(WebSeparator(c[2], c[4]), c[5])
                  /\ S = parseModifier(WebSeparator(c[2], c[8]), c[9])
  OBVIOUS
<1>8. IF RefusedParts(c, P, S) THEN u = Invalid ELSE u # Invalid /\ ParsedAs(u, c, P, S)
  <2>1. PICK b \in BOOLEAN : b = FALSE
    OBVIOUS
  <2>2. c = Components(CleanUrl(url))
    BY <1>1, <1>3
  <2>3. IF url = <<>> \/ (b /\ c[1] = <<>>) \/ RefusedParts(c, P, S)
        THEN Parse(url, b) = Invalid
        ELSE /\ Parse(url, b) # Invalid
             /\ ParsedAs(Parse(url, b), c, P, S)
    BY <1>0, <2>1, <2>2, ParseIs
  <2> QED
    BY <1>7, <2>1, <2>3
<1>9. PICK d : d = WebParts(c)
  OBVIOUS
<1>10. /\ Path(T, d) /\ d[3] = c[3] /\ d[7] = c[7]
       /\ d[4] = WebSeparator(c[2], c[4]) /\ d[4] \in {<<>>, <<"#">>, <<"$">>}
       /\ d[8] = WebSeparator(c[2], c[8]) /\ d[8] \in {<<>>, <<"#">>, <<"$">>}
  BY <1>5, <1>6, <1>9, WebPath
<1>11. d[1] = <<"lbry://">> /\ d[2] = <<>> /\ \A k \in 3..9 : d[k] = Hashed(c[k])
  BY <1>5, <1>9, WebPartsAre
<1>12. PICK R : Follows(T, 9, d, R) /\ R[0] = <<"lbry://">> \o Hashed(FlattenSeq(SubSeq(c, 3, 9)))
  BY <1>5, <1>9, WebFollows
<1>13. R[0] = Lbry(url)
  BY <1>1, <1>3, <1>12 DEF Lbry, Hashed
<1>14. \A k \in 1..9 : c[k] \in Seq(T)
  BY <1>5 DEF Path
<1>15. P = parseModifier(d[4], d[5]) /\ S = parseModifier(d[8], d[9])
  <2>1. d[5] = Hashed(c[5]) /\ d[9] = Hashed(c[9]) /\ c[5] \in Seq(T) /\ c[9] \in Seq(T)
    BY <1>11, <1>14
  <2>2. PICK a, b : a = d[4] /\ b = d[8]
    OBVIOUS
  <2>3. parseModifier(a, Hashed(c[5])) = parseModifier(a, c[5])
    BY <1>10, <2>1, <2>2, HashedModifier
  <2>4. parseModifier(b, Hashed(c[9])) = parseModifier(b, c[9])
    BY <1>10, <2>1, <2>2, HashedModifier
  <2> QED
    BY <1>0, <1>10, <2>1, <2>2, <2>3, <2>4
<1>16. ASSUME NEW x, x # ":", x # "#", NEW k \in 3..9
       PROVE  NoneOf(d[k], {x}) <=> NoneOf(c[k], {x})
  <2>1. c[k] \in Seq(T) /\ d[k] = Hashed(c[k])
    BY <1>11, <1>14
  <2> QED
    BY <1>16, <2>1, HashedNone
<1>17. NotInPath(d, "?")
  <2>1. NoneOf(Q[0], {"?"})
    BY <1>2, <1>6, NotInSet
  <2>2. \A k \in 1..9 : NoneOf(c[k], {"?"})
    BY <1>6, <2>1, ChainNone
  <2>3. "?" # ":" /\ "?" # "#"
    OBVIOUS
  <2>4. \A k \in 3..9 : NoneOf(d[k], {"?"})
    <3> SUFFICES ASSUME NEW k \in 3..9 PROVE NoneOf(d[k], {"?"})
      OBVIOUS
    <3>1. NoneOf(c[k], {"?"})
      BY <2>2
    <3> QED
      BY <1>16, <2>3, <3>1
  <2> QED
    BY <2>4 DEF NotInPath
<1>18. d[3] # <<>> => d[3][1] \notin Hosts
  BY <1>2, <1>4, <1>10, NoHostFirst
<1>19. ParsedByParts(R[0], d, P, S)
  BY <1>10, <1>11, <1>12, <1>15, <1>17, <1>18, LbryParsed
<1>20. RefusedParts(d, P, S) <=> RefusedParts(c, P, S)
  <2>1. PICK x : x = " "
    OBVIOUS
  <2>2. x # ":" /\ x # "#"
    BY <2>1
  <2>3. \A k \in 3..9 : x \in ToSet(d[k]) <=> x \in ToSet(c[k])
    <3> SUFFICES ASSUME NEW k \in 3..9 PROVE x \in ToSet(d[k]) <=> x \in ToSet(c[k])
      OBVIOUS
    <3>1. NoneOf(d[k], {x}) <=> NoneOf(c[k], {x})
      BY <1>16, <2>2
    <3>0. d \in [1..9 -> Seq(T)] /\ k \in 1..9
      BY <1>10 DEF Path
    <3>2. d[k] \in Seq(T) /\ c[k] \in Seq(T)
      BY <1>14, <3>0
    <3>3. x \notin ToSet(d[k]) <=> NoneOf(d[k], {x})
      BY <3>2, NotInSet
    <3>4. x \notin ToSet(c[k]) <=> NoneOf(c[k], {x})
      BY <3>2, NotInSet
    <3> QED
      BY <3>1, <3>3, <3>4
  <2>4. (\E k \in 3..9 : " " \in ToSet(d[k])) <=> (\E k \in 3..9 : " " \in ToSet(c[k]))
    BY <2>1, <2>3
  <2> QED
    BY <1>10, <2>4 DEF RefusedParts
<1>21. IF RefusedParts(c, P, S) THEN w = Invalid ELSE w # Invalid /\ ParsedAs(w, d, P, S)
  BY <1>13, <1>19, <1>20 DEF ParsedByParts
<1>22. ASSUME ParsedAs(u, c, P, S), ParsedAs(w, d, P, S) PROVE SameClaim(u, w)
  BY <1>10, <1>22 DEF ParsedAs, SameClaim
<1> QED
  BY <1>8, <1>21, <1>22

(* A URL that Parse takes, whose parts are proper, is written by String as *)
(* a URL that Parse reads as the same claim, a canonical one as it was,    *)
(* and the URL of a web site is read as the lbry URL it stands for:        *)
(* whatever tokens it is made of, which words are hexadecimal and which    *)
(* are numbers, if a web site's name is only where a host can be.          *)
THEOREM EveryUrlStands ==
    ASSUME NEW T, NEW url \in Seq(T), HostPlaced(url)
    PROVE  UrlStands(url)
<1>1. PICK U : U = T \cup Separators \cup Words \cup {"/", "lbry://"}
  OBVIOUS
<1>2. /\ Separators \subseteq U /\ Words \subseteq U /\ {"/", "lbry://"} \subseteq U
      /\ "/" \in U /\ "lbry://" \in U /\ T \subseteq U
  BY <1>1
<1>3. url \in Seq(U)
  BY <1>2, SeqMonotonic
<1>4. PICK u, w : u = Parse(url, FALSE) /\ w = Parse(Lbry(url), TRUE)
  OBVIOUS
<1>5. PICK v : v = Parse(UrlString(u), TRUE)
  OBVIOUS
<1>6. ASSUME u # Invalid, ProperParts(url)
      PROVE  /\ v # Invalid /\ SameClaim(u, v)
             /\ Canonical(url) =>
                  UrlString(u) = IF InheritsId(u) THEN url \o <<"#">> \o u.channelClaimId ELSE url
  <2>1. PICK c, P, S, d, R, M : UrlWritten(U, url, Parse(url, FALSE), c, P, S, d, R, M)
    BY <1>2, <1>3, <1>4, <1>6, UrlAgain
  <2>2. UrlWritten(U, url, u, c, P, S, d, R, M)
    BY <1>4, <2>1
  <2>3. v # Invalid /\ SameClaim(u, v)
    BY <1>5, <2>2, SameAgain
  <2> QED
    BY <2>2, <2>3, CanonicalAgain
<1>7. ASSUME Components(CleanUrl(url))[2] # <<>>, "?" \notin ToSet(CleanUrl(url))
      PROVE  IF u = Invalid THEN w = Invalid ELSE w # Invalid /\ SameClaim(u, w)
  BY <1>2, <1>3, <1>4, <1>7, WebRead
<1> QED
  BY <1>4, <1>5, <1>6, <1>7 DEF UrlStands

(* A host stays where it can be when something without hosts follows.      *)
LEMMA PlacedBefore ==
    ASSUME NEW T, NEW a \in Seq(T), NEW b \in Seq(T), HostPlaced(a), NoneOf(b, Hosts)
    PROVE  a \o b \in Seq(T) /\ HostPlaced(a \o b)
<1>1. /\ a \o b \in Seq(T) /\ Len(a \o b) = Len(a) + Len(b)
      /\ \A i \in 1..(Len(a) + Len(b)) : (a \o b)[i] = IF i <= Len(a) THEN a[i] ELSE b[i - Len(a)]
      /\ Len(a) \in Nat /\ Len(b) \in Nat
  BY ConcatProperties, LenProperties
<1>2. PICK z : z = a \o b
  OBVIOUS
<1>3. ASSUME NEW i \in 1..(Len(a) + Len(b)), z[i] \in Hosts
      PROVE  i = 1 \/ (i = 2 /\ z[1] \in Protocols)
  <2>1. CASE i <= Len(a)
    <3>1. i \in 1..Len(a) /\ 1 \in 1..(Len(a) + Len(b)) /\ 1 <= Len(a)
      BY <1>1, <2>1
    <3>2. z[i] = a[i] /\ z[1] = a[1]
      BY <1>1, <1>2, <2>1, <3>1
    <3>3. i = 1 \/ (i = 2 /\ a[1] \in Protocols)
      BY <1>3, <3>1, <3>2 DEF HostPlaced
    <3> QED
      BY <3>2, <3>3
  <2>2. CASE ~(i <= Len(a))
    <3>1. i - Len(a) \in 1..Len(b)
      BY <1>1, <2>2
    <3>2. z[i] = b[i - Len(a)]
      BY <1>1, <1>2, <2>2
    <3> QED
      BY <1>3, <3>1, <3>2 DEF NoneOf
  <2> QED
    BY <2>1, <2>2
<1> QED
  BY <1>1, <1>2, <1>3 DEF HostPlaced

(* The tokens of the run's URLs other than a host.                         *)
RunTokens == {"lbry://", "https://", "@", "c", "s", "t", ":", "$", "#", "/", "?", "a1", "7", "0", "g"} \cup {" "}

(* The modifiers and streams of the run are made of them.                  *)
LEMMA RunModifiers ==
    /\ Modifiers \subseteq Seq(RunTokens)
    /\ Streams \subseteq Seq(RunTokens)
<1>1. \A t \in RunTokens : <<t>> \in Seq(RunTokens)
  BY EmptySeq
<1>2. <<>> \in Seq(RunTokens)
  BY EmptySeq
<1>3. \A a, b \in Seq(RunTokens) : a \o b \in Seq(RunTokens)
  BY ConcatProperties
<1>4. Modifiers \subseteq Seq(RunTokens)
  <2> DEFINE A == {<<>>} \cup {<<s>> : s \in Separators}
             B == {<<>>, <<"a1">>, <<"7">>, <<"0">>, <<"g">>}
  <2>0. Modifiers = {x \o w : x \in A, w \in B}
    BY DEF Modifiers
  <2> HIDE DEF A, B
  <2> SUFFICES ASSUME NEW mod \in Modifiers PROVE mod \in Seq(RunTokens)
    OBVIOUS
  <2>5. PICK x \in A, w \in B : mod = x \o w
    BY <2>0, Z3
  <2>1. Separators \subseteq RunTokens
    BY DEF Separators, RunTokens
  <2>2. x \in Seq(RunTokens)
    BY <1>1, <1>2, <2>1 DEF A
  <2>3. {"a1", "7", "0", "g"} \subseteq RunTokens
    BY DEF RunTokens
  <2>4. w \in Seq(RunTokens)
    BY <1>1, <1>2, <2>3 DEF B
  <2> QED
    BY <1>3, <2>2, <2>4, <2>5
<1>5. Streams \subseteq Seq(RunTokens)
  <2> DEFINE A == {<<>>, <<"t">>}
             B == {m \in Modifiers : m = <<>> \/ Head(m) \in Separators}
             C == {<<"/">> \o n \o m : n \in A, m \in B}
  <2>0. Streams = {<<>>} \cup C
    BY DEF Streams
  <2> HIDE DEF A, B
  <2> SUFFICES ASSUME NEW z \in C PROVE z \in Seq(RunTokens)
    <3> HIDE DEF C
    <3> QED
      BY <1>2, <2>0
  <2>4. PICK n \in A, m \in B : z = <<"/">> \o n \o m
    BY Z3
  <2>1. {"/", "t"} \subseteq RunTokens
    BY DEF RunTokens
  <2>2. n \in Seq(RunTokens) /\ <<"/">> \in Seq(RunTokens) /\ m \in Seq(RunTokens)
    <3>1. n = <<>> \/ n = <<"t">>
      BY DEF A
    <3>2. m \in Modifiers
      BY DEF B
    <3>3. <<"t">> \in Seq(RunTokens) /\ <<"/">> \in Seq(RunTokens)
      BY <1>1, <2>1
    <3>4. n \in Seq(RunTokens)
      <4>1. CASE n = <<>>
        BY <1>2, <4>1
      <4>2. CASE n = <<"t">>
        BY <3>3, <4>2
      <4> QED
        BY <3>1, <4>1, <4>2
    <3>5. m \in Seq(RunTokens)
      BY <1>4, <3>2
    <3> QED
      BY <3>3, <3>4, <3>5
  <2>3. <<"/">> \o n \in Seq(RunTokens)
    BY <1>3, <2>2
  <2> QED
    BY <1>3, <2>2, <2>3, <2>4
<1> QED
  BY <1>4, <1>5

(* In the run's URLs a host follows a protocol.                            *)
LEMMA RunUrls ==
    ASSUME NEW url \in Urls
    PROVE  url \in Seq(RunTokens \cup Hosts) /\ HostPlaced(url)
<1> DEFINE T == RunTokens \cup Hosts
           A == {<<>>, <<"lbry://">>, <<"https://", "lbry.tv/">>}
           B == {<<>>, <<"@">>, <<"@", "c">>, <<"s">>}
           C == UrlQueries
<1>1. PICK head \in A, name \in B, m \in Modifiers, stream \in Streams, query \in C :
              url = head \o name \o m \o stream \o query
  <2>1. Urls = {p \o q \o r \o x \o y : p \in A, q \in B, r \in Modifiers, x \in Streams, y \in C}
    BY DEF Urls
  <2> HIDE DEF A, B
  <2>2. url \in {p \o q \o r \o x \o y : p \in A, q \in B, r \in Modifiers, x \in Streams, y \in C}
    BY <2>1, Z3
  <2>3. \E p \in A, q \in B, r \in Modifiers, x \in Streams, y \in C : url = p \o q \o r \o x \o y
    BY <2>2, Z3
  <2> QED
    BY <2>3
<1>2. RunTokens \cap Hosts = {}
  BY DEF RunTokens, Hosts
<1>3. ASSUME NEW s \in Seq(RunTokens) PROVE s \in Seq(T) /\ NoneOf(s, Hosts)
  <2>1. s \in Seq(T)
    BY SeqMonotonic
  <2>2. \A i \in 1..Len(s) : s[i] \in RunTokens
    OBVIOUS
  <2> QED
    BY <1>2, <2>1, <2>2 DEF NoneOf
<1>4. name \in Seq(RunTokens)
  <2>1. "@" \in RunTokens /\ "c" \in RunTokens /\ "s" \in RunTokens
    BY DEF RunTokens
  <2>2. CASE name = <<>>
    BY <2>2, EmptySeq
  <2>3. CASE name = <<"@">>
    BY <2>1, <2>3
  <2>4. CASE name = <<"@", "c">>
    BY <2>1, <2>4
  <2>5. CASE name = <<"s">>
    BY <2>1, <2>5
  <2> QED
    BY <2>2, <2>3, <2>4, <2>5
<1>5. query \in Seq(RunTokens)
  <2>1. "?" \in RunTokens /\ "s" \in RunTokens /\ "t" \in RunTokens
    BY DEF RunTokens
  <2>2. CASE query = <<>>
    BY <2>2, EmptySeq
  <2>3. CASE query = <<"?", "s">>
    BY <2>1, <2>3
  <2>4. CASE query = <<"?", "s", " ", "t">>
    <3>1. PICK x : x = " "
      OBVIOUS
    <3>2. x \in RunTokens
      BY <3>1, Zenon DEF RunTokens
    <3>3. query = <<"?", "s", x, "t">>
      BY <2>4, <3>1, Zenon
    <3> QED
      BY <2>1, <3>2, <3>3
  <2>5. query = <<>> \/ query = <<"?", "s">> \/ query = <<"?", "s", " ", "t">>
    BY Zenon DEF UrlQueries
  <2> QED
    BY <2>2, <2>3, <2>4, <2>5, Zenon
<1>6. m \in Seq(RunTokens) /\ stream \in Seq(RunTokens)
  BY RunModifiers
<1>7. head \in Seq(T) /\ HostPlaced(head)
  <2>1. "lbry://" \in T /\ "https://" \in T /\ "lbry.tv/" \in T
    BY DEF RunTokens, Hosts
  <2>2. CASE head = <<>>
    BY <2>2, EmptySeq DEF HostPlaced
  <2>3. CASE head = <<"lbry://">>
    <3>1. Len(head) = 1
      BY <2>3
    <3> QED
      BY <2>1, <2>3, <3>1 DEF HostPlaced
  <2>4. CASE head = <<"https://", "lbry.tv/">>
    <3>1. Len(head) = 2 /\ head[1] = "https://"
      BY <2>4
    <3>2. \A i \in 1..2 : i = 1 \/ i = 2
      OBVIOUS
    <3>3. "https://" \in Protocols
      BY DEF Protocols
    <3>4. HostPlaced(head)
      BY <3>1, <3>2, <3>3 DEF HostPlaced
    <3> HIDE DEF T
    <3>5. head \in Seq(T)
      BY <2>1, <2>4
    <3> QED
      BY <3>4, <3>5
  <2> QED
    BY <2>2, <2>3, <2>4
<1> HIDE DEF T
<1>8. PICK a : a = head \o name
  OBVIOUS
<1>9. a \in Seq(T) /\ HostPlaced(a)
  BY <1>3, <1>4, <1>7, <1>8, PlacedBefore
<1>10. PICK b : b = a \o m
  OBVIOUS
<1>11. b \in Seq(T) /\ HostPlaced(b)
  BY <1>3, <1>6, <1>9, <1>10, PlacedBefore
<1>12. PICK e : e = b \o stream
  OBVIOUS
<1>13. e \in Seq(T) /\ HostPlaced(e)
  BY <1>3, <1>6, <1>11, <1>12, PlacedBefore
<1>14. e \o query \in Seq(T) /\ HostPlaced(e \o query)
  BY <1>3, <1>5, <1>13, PlacedBefore
<1> QED
  BY <1>1, <1>8, <1>10, <1>12, <1>14 DEF T

(* The writings of the run are sequences of character indices.             *)
LEMMA RunWritings ==
    ASSUME NEW written \in Writings
    PROVE  written \in Seq(Int) /\ written # <<>>
<1>1. PICK k \in 1..7 : written \in [1..k -> Int]
  <2>1. CASE \E k \in 1..7 : written \in [1..k -> 0..(DigitBase - 1)]
    <3>1. 0..(DigitBase - 1) \subseteq Int
      OBVIOUS
    <3> QED
      BY <2>1, <3>1
  <2>2. CASE \E k \in 1..3 : written \in [1..k -> {-1, 1}]
    <3>1. 1..3 \subseteq 1..7 /\ {-1, 1} \subseteq Int
      OBVIOUS
    <3> QED
      BY <2>2, <3>1
  <2> QED
    BY <2>1, <2>2 DEF Writings
<1>2. written \in Seq(Int)
  BY <1>1, SeqDef
<1>3. 1 \in DOMAIN written
  BY <1>1
<1> QED
  BY <1>2, <1>3

-----------------------------------------------------------------------------
(* The run.                                                                *)

(* Every URL, address and writing of the run stands for what it says,      *)
(* whatever words are values, whatever the bases, lengths, prefixes,       *)
(* checksum and width of an int64: Parse and String, EncodeAddress and     *)
(* DecodeAddress.                                                          *)
THEOREM NamesStandAlways == CodecSpec => []NamesStand
<1>1. CodecInv => NamesStand
  <2> SUFFICES ASSUME CodecInv PROVE NamesStand
    OBVIOUS
  <2>1. ASSUME Is("url") PROVE UrlStands(input.x)
    <3>1. input.x \in Urls
      BY <2>1 DEF CodecInv
    <3>2. input.x \in Seq(RunTokens \cup Hosts) /\ HostPlaced(input.x)
      BY <3>1, RunUrls
    <3> QED
      BY <3>2, EveryUrlStands
  <2>2. ASSUME Is("address") PROVE AddressStands(input.x[1], input.x[2])
    <3>1. input.x \in [1..AddressLength -> 0..(AddressBase - 1)] \X Chains
      BY <2>2 DEF CodecInv
    <3>2. input.x[1] \in Digits(AddressBase, AddressLength)
      BY <3>1 DEF Digits
    <3> QED
      BY <3>2, EveryAddressStands
  <2>3. ASSUME Is("writing") PROVE WritingStands(input.x[1], input.x[2])
    <3>1. input.x \in Writings \X Chains
      BY <2>3 DEF CodecInv
    <3>2. input.x[1] \in Writings
      BY <3>1
    <3>3. input.x[1] \in Seq(Int) /\ input.x[1] # <<>>
      BY <3>2, RunWritings
    <3> QED
      BY <3>3, EveryWritingStands
  <2> QED
    BY <2>1, <2>2, <2>3 DEF NamesStand
<1> QED
  BY <1>1, CodecInvHolds, PTL

==============================================================================
