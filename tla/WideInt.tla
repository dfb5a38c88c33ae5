------------------------------ MODULE WideInt -------------------------------
(* compiler-rt's arithmetic on integers of twice the machine's word: what    *)
(* the compiler calls for u128 and i128, and on small machines for u64 and   *)
(* i64.  The source works on the two words of a number and never on the      *)
(* whole of it; it is written once for each width and in the same way, and   *)
(* here the width of a word is a parameter.                                  *)
(*                                                                           *)
(* A behaviour is one call on two numbers; wanted is what the operation      *)
(* means on integers.                                                        *)
EXTENDS Integers, SequencesExt

CONSTANTS WordBits  \* bits of a word, a power of two; a number has two words

VARIABLES input, got, wanted, called

vars == <<input, got, wanted, called>>

Word == 2^WordBits
Bits == 2 * WordBits
Wrap == 2^Bits
Numbers == 0..Wrap - 1

hi(x) == x \div Word
lo(x) == x % Word
all(h, l) == (h % Word) * Word + (l % Word)

(* The number that the bits of x are as a signed integer, and its bits.      *)
Signed(x) == IF x >= Wrap \div 2 THEN x - Wrap ELSE x
Unsigned(n) == n % Wrap
MIN == -(Wrap \div 2)
MAX == Wrap \div 2 - 1

Clz(x, bits) == CHOOSE n \in 0..bits : x < 2^(bits - n) /\ (n = bits \/ x >= 2^(bits - n - 1))
Ctz(x, bits) == CHOOSE n \in 0..bits - 1 : x % 2^n = 0 /\ x % 2^(n + 1) # 0

-----------------------------------------------------------------------------
(* Division of two words by one, digit by digit (Knuth's algorithm D): half  *)
(* a word is a digit.                                                        *)

Base == 2^(WordBits \div 2)

(* Deviation of Corrected: once is taken to be enough.                       *)
CorrectedOnce(q, rhat, vn1, vn0, un) == IF q >= Base \/ q * vn0 > Base * rhat + un THEN q - 1 ELSE q

(* An estimate of a quotient digit, corrected while it is seen to be too     *)
(* large.                                                                    *)
RECURSIVE Corrected(_, _, _, _, _)
Corrected(q, rhat, vn1, vn0, un) ==
    IF q >= Base \/ q * vn0 > Base * rhat + un
    THEN IF rhat + vn1 >= Base THEN q - 1 ELSE Corrected(q - 1, rhat + vn1, vn1, vn0, un)
    ELSE q

(* Quotient and remainder of u1:u0 by v, where the quotient fits in a word.  *)
udiv128by64to64default(u1, u0, v0) ==
    LET s == Clz(v0, WordBits)
        v == v0 * 2^s
        un64 == ((u1 * 2^s) + u0 \div 2^(WordBits - s)) % Word
        un10 == (u0 * 2^s) % Word
        vn1 == v \div Base
        vn0 == v % Base
        un1 == un10 \div Base
        un0 == un10 % Base
        q1 == Corrected(un64 \div vn1, un64 % vn1, vn1, vn0, un1)
        un21 == (un64 * Base + un1 - q1 * v) % Word
        q0 == Corrected(un21 \div vn1, un21 % vn1, vn1, vn0, un0)
    IN  <<(q1 * Base + q0) % Word, ((un21 * Base + un0 - q0 * v) % Word) \div 2^s>>

(* The branch-free comparison: the sign of divisor - dividend - 1.           *)
AtLeast(dividend, divisor) == (divisor - dividend - 1) % Wrap >= Wrap \div 2

(* Shift and subtract.                                                       *)
RECURSIVE LongDivision(_, _, _, _)
LongDivision(dividend, divisor, quotient, shift) ==
    IF shift < 0 THEN <<quotient, dividend>>
    ELSE LET fits == AtLeast(dividend, divisor)
             q == (2 * quotient) % Word
         IN  LongDivision(IF fits THEN dividend - divisor ELSE dividend, divisor \div 2,
                          IF fits THEN q + 1 ELSE q, shift - 1)

(* Quotient and remainder.                                                   *)
udivmodti4(a, b) ==
    LET narrow == udiv128by64to64default(hi(a), lo(a), lo(b))
        rest == udiv128by64to64default(hi(a) % lo(b), lo(a), lo(b))
        shift == Clz(hi(b), WordBits) - Clz(hi(a), WordBits)
    IN  IF b > a THEN <<0, a>>
        ELSE IF hi(b) = 0
        THEN IF hi(a) < lo(b) THEN <<all(0, narrow[1]), all(0, narrow[2])>>
             ELSE <<all(hi(a) \div lo(b), rest[1]), all(0, rest[2])>>
        ELSE LongDivision(a, b * 2^shift, 0, shift)

(* The older division by shifting, which has a case for every pattern of     *)
(* words that are zero, K meaning one that is not.                           *)
RECURSIVE ShiftSubtract(_, _, _, _, _)
ShiftSubtract(r, q, d, carry, sr) ==
    IF sr = 0 THEN <<(2 * q + carry) % Wrap, r>>
    ELSE LET r1 == (2 * r + q \div (Wrap \div 2)) % Wrap
             fits == AtLeast(r1, d)
         IN  ShiftSubtract(IF fits THEN r1 - d ELSE r1, (2 * q + carry) % Wrap, d,
                           IF fits THEN 1 ELSE 0, sr - 1)

IsPowerOf2(x) == \E k \in 0..WordBits - 1 : x = 2^k

(* r = n >> sr and q = n << (Bits - sr), put together from the words.        *)
ByShift(n, d, sr) ==
    LET up == WordBits - sr
        q == IF sr = WordBits THEN all(lo(n), 0)
             ELSE IF sr < WordBits THEN all(lo(n) * 2^up, 0)
             ELSE all(hi(n) * 2^(Bits - sr) + lo(n) \div 2^(sr - WordBits), lo(n) * 2^(Bits - sr))
        r == IF sr = WordBits THEN all(0, hi(n))
             ELSE IF sr < WordBits THEN all(hi(n) \div 2^sr, hi(n) * 2^up + lo(n) \div 2^sr)
             ELSE all(0, hi(n) \div 2^(sr - WordBits))
    IN  ShiftSubtract(r, q, d, 0, sr)

udivmoddi4(n, d) ==
    LET sr == Clz(hi(d), WordBits) - Clz(hi(n), WordBits)
        low == 1 + WordBits + Clz(lo(d), WordBits) - Clz(hi(n), WordBits)
        k == Ctz(lo(d), WordBits)
    IN  CASE hi(n) = 0 /\ hi(d) = 0 -> <<lo(n) \div lo(d), lo(n) % lo(d)>>
          [] hi(n) = 0 /\ hi(d) # 0 -> <<0, lo(n)>>
          [] hi(n) # 0 /\ lo(d) = 0 /\ lo(n) = 0 -> <<hi(n) \div hi(d), all(hi(n) % hi(d), 0)>>
          [] hi(n) # 0 /\ lo(d) = 0 /\ lo(n) # 0 /\ IsPowerOf2(hi(d)) ->
                <<hi(n) \div hi(d), all(hi(n) % hi(d), lo(n))>>
          [] hi(n) # 0 /\ lo(d) = 0 /\ lo(n) # 0 /\ ~IsPowerOf2(hi(d)) ->
                IF sr \notin 0..WordBits - 2 THEN <<0, n>> ELSE ByShift(n, d, sr + 1)
          [] hi(n) # 0 /\ lo(d) # 0 /\ hi(d) = 0 ->
                IF lo(d) = 1 THEN <<n, 0>>
                ELSE IF IsPowerOf2(lo(d))
                THEN <<all(hi(n) \div 2^k, hi(n) * 2^(WordBits - k) + lo(n) \div 2^k), lo(n) % lo(d)>>
                ELSE ByShift(n, d, low)
          [] hi(n) # 0 /\ lo(d) # 0 /\ hi(d) # 0 ->
                IF sr \notin 0..WordBits - 1 THEN <<0, n>> ELSE ByShift(n, d, sr + 1)

(* The generic division of one word, here of the whole number.               *)
udivXi3(n, d) ==
    LET sr == Clz(d, Bits) - Clz(n, Bits)
    IN  IF sr < 0 THEN <<0, n>>
        ELSE IF sr = Bits - 1 THEN <<n, 0>>
        ELSE ShiftSubtract(n \div 2^(sr + 1), (n * 2^(Bits - sr - 1)) % Wrap, d, 0, sr + 1)

(* x with its sign changed if s is set: (x ^ s) - s for a mask s.            *)
Negate(x, s) == IF s THEN Unsigned(-x) ELSE x
IsNegative(x) == x >= Wrap \div 2

divXi3(a, b) ==
    LET q == udivmodti4(Negate(a, IsNegative(a)), Negate(b, IsNegative(b)))[1]
    IN  Negate(q, IsNegative(a) # IsNegative(b))

modXi3(a, b) ==
    Negate(udivmodti4(Negate(a, IsNegative(a)), Negate(b, IsNegative(b)))[2], IsNegative(a))

-----------------------------------------------------------------------------
(* Multiplication.                                                           *)

(* The product of two words, from the products of their halves.              *)
mulddi3(a, b) ==
    LET l0 == (a % Base) * (b % Base)
        t0 == l0 \div Base + (a \div Base) * (b % Base)
        l1 == (l0 % Base) + (t0 % Base) * Base
        t1 == l1 \div Base + (b \div Base) * (a % Base)
        l2 == (l1 % Base) + (t1 % Base) * Base
    IN  all(t0 \div Base + t1 \div Base + (a \div Base) * (b \div Base), l2)

multi3(a, b) ==
    LET r == mulddi3(lo(a), lo(b))
    IN  all(hi(r) + hi(a) * lo(b) + lo(a) * hi(b), lo(r))

(* Towards zero, as C divides.                                               *)
Quotient(n, d) == IF (n < 0) = (d < 0) THEN (IF n < 0 THEN -n ELSE n) \div (IF d < 0 THEN -d ELSE d)
                  ELSE -((IF n < 0 THEN -n ELSE n) \div (IF d < 0 THEN -d ELSE d))

(* Does the product of two signed numbers overflow?                          *)
muloXi4(a, b) ==
    LET absA == IF a < 0 THEN -a ELSE a
        absB == IF b < 0 THEN -b ELSE b
    IN  IF a = MIN THEN b \notin {0, 1}
        ELSE IF b = MIN THEN a \notin {0, 1}
        ELSE IF absA < 2 \/ absB < 2 THEN FALSE
        ELSE IF (a < 0) = (b < 0) THEN absA > Quotient(MAX, absB)
        ELSE absA > Quotient(MIN, -absB)

-----------------------------------------------------------------------------
(* Sums that abort when they overflow.                                       *)

Aborts == "abort"

addvti3(a, b) ==
    LET s == Signed(Unsigned(a + b))
    IN  IF (b >= 0 /\ s < a) \/ (b < 0 /\ s >= a) THEN Aborts ELSE <<s>>

subvti3(a, b) ==
    LET s == Signed(Unsigned(a - b))
    IN  IF (b >= 0 /\ s > a) \/ (b < 0 /\ s <= a) THEN Aborts ELSE <<s>>

-----------------------------------------------------------------------------
(* Shifts, comparison and counting, word by word.                            *)

(* b & bits_in_dword, for a shift b that is less than Bits.                  *)
AcrossWords(b) == b >= WordBits

ashlti3(a, b) ==
    IF AcrossWords(b) THEN all(lo(a) * 2^(b - WordBits), 0)
    ELSE IF b = 0 THEN a
    ELSE all((hi(a) * 2^b) + lo(a) \div 2^(WordBits - b), lo(a) * 2^b)

lshrti3(a, b) ==
    IF AcrossWords(b) THEN all(0, hi(a) \div 2^(b - WordBits))
    ELSE IF b = 0 THEN a
    ELSE all(hi(a) \div 2^b, (hi(a) * 2^(WordBits - b)) + lo(a) \div 2^b)

(* The upper word is signed: its right shift brings in its sign.             *)
SignedWord(w) == IF w >= Word \div 2 THEN w - Word ELSE w

ashrti3(a, b) ==
    LET high == SignedWord(hi(a))
    IN  IF AcrossWords(b) THEN all(high \div 2^(WordBits - 1), high \div 2^(b - WordBits))
        ELSE IF b = 0 THEN a
        ELSE all(high \div 2^b, (high * 2^(WordBits - b)) + lo(a) \div 2^b)

CompareWords(xh, yh, xl, yl) ==
    IF xh < yh THEN 0 ELSE IF xh > yh THEN 2 ELSE IF xl < yl THEN 0 ELSE IF xl > yl THEN 2 ELSE 1

cmpti2(a, b) == CompareWords(SignedWord(hi(a)), SignedWord(hi(b)), lo(a), lo(b))
ucmpti2(a, b) == CompareWords(hi(a), hi(b), lo(a), lo(b))

clzti2(a) == IF hi(a) = 0 THEN Clz(lo(a), WordBits) + WordBits ELSE Clz(hi(a), WordBits)
ctzti2(a) == IF lo(a) = 0 THEN Ctz(hi(a), WordBits) + WordBits ELSE Ctz(lo(a), WordBits)
ffsti2(a) ==
    IF lo(a) # 0 THEN Ctz(lo(a), WordBits) + 1
    ELSE IF hi(a) = 0 THEN 0
    ELSE Ctz(hi(a), WordBits) + 1 + WordBits

-----------------------------------------------------------------------------
Call(op, result, exact) ==
    /\ called' = TRUE
    /\ input' = op /\ got' = result /\ wanted' = exact

Init == input \in Numbers /\ got = <<>> /\ wanted = <<>> /\ called = FALSE

Divide ==
    /\ ~called
    /\ \E b \in Numbers \ {0} :
          LET exact == <<input \div b, input % b>>
          IN  Call(<<"div", input, b>>, <<udivmodti4(input, b), udivmoddi4(input, b), udivXi3(input, b)>>,
                   <<exact, exact, exact>>)

DivideSigned ==
    /\ ~called
    /\ \E b \in Numbers \ {0} :
          LET q == Quotient(Signed(input), Signed(b))
          IN  Call(<<"sdiv", input, b>>, <<divXi3(input, b), modXi3(input, b)>>,
                   <<Unsigned(q), Unsigned(Signed(input) - q * Signed(b))>>)

Multiply ==
    /\ ~called
    /\ \E b \in Numbers :
          LET product == Signed(input) * Signed(b)
          IN  Call(<<"mul", input, b>>, <<multi3(input, b), muloXi4(Signed(input), Signed(b))>>,
                   <<Unsigned(product), product \notin MIN..MAX>>)

AddSubtract ==
    /\ ~called
    /\ \E b \in Numbers :
          LET checked(n) == IF n \in MIN..MAX THEN <<n>> ELSE Aborts
              x == Signed(input)
              y == Signed(b)
          IN  Call(<<"addv", input, b>>, <<addvti3(x, y), subvti3(x, y)>>, <<checked(x + y), checked(x - y)>>)

Shift ==
    /\ ~called
    /\ \E b \in 0..Bits - 1 :
          Call(<<"shift", input, b>>, <<ashlti3(input, b), lshrti3(input, b), ashrti3(input, b)>>,
               <<Unsigned(input * 2^b), input \div 2^b, Unsigned(Signed(input) \div 2^b)>>)

Compares ==
    /\ ~called
    /\ \E b \in Numbers :
          LET order(x, y) == IF x < y THEN 0 ELSE IF x = y THEN 1 ELSE 2
          IN  Call(<<"cmp", input, b>>, <<cmpti2(input, b), ucmpti2(input, b)>>,
                   <<order(Signed(input), Signed(b)), order(input, b)>>)

CountZeros ==
    /\ ~called /\ input # 0
    /\ Call(<<"clz", input>>, <<clzti2(input), ctzti2(input), ffsti2(input)>>,
            <<Clz(input, Bits), Ctz(input, Bits), Ctz(input, Bits) + 1>>)

Next == Divide \/ DivideSigned \/ Multiply \/ AddSubtract \/ Shift \/ Compares \/ CountZeros

-----------------------------------------------------------------------------
(* Every routine that works on the words of a number returns what the        *)
(* operation on the whole number has: the three ways to divide agree with    *)
(* it, products and sums know when they overflow.                            *)
ExactOnWords == got = wanted
=============================================================================
