----------------------------- MODULE SoftFloat ------------------------------
(* compiler-rt's software floating point: the addition, subtraction,         *)
(* multiplication, comparison and conversions that a target without          *)
(* floating-point instructions calls, on the integer representation of the   *)
(* numbers.  The source is one text for every precision, parameterised by    *)
(* the number of significand and exponent bits; so is this module, and a     *)
(* small format has every case the large ones have: zeros, denormals, both   *)
(* infinities, NaNs, cancellation, carries, ties and overflow.               *)
(*                                                                           *)
(* A behaviour is one call.  wanted is what IEEE 754 asks for, worked out    *)
(* with exact numbers.                                                       *)
EXTENDS Integers, FiniteSetsExt

CONSTANTS SignificandBits, ExponentBits,             \* of the format computed in
          NarrowSignificandBits, NarrowExponentBits, \* of a format to convert to and from
          BroadSignificandBits,                      \* of one converted from and to it
          IntWidths                                  \* widths of the integers converted

VARIABLES input,    \* the operand, then the operands
          got,      \* what the call returned
          wanted,   \* what it should have
          called

vars == <<input, got, wanted, called>>

Wide == [sig |-> SignificandBits, exp |-> ExponentBits]
Narrow == [sig |-> NarrowSignificandBits, exp |-> NarrowExponentBits]
Broad == [sig |-> BroadSignificandBits, exp |-> ExponentBits]

typeWidth(f) == f.sig + f.exp + 1
maxExponent(f) == 2^f.exp - 1
exponentBias(f) == maxExponent(f) \div 2
implicitBit(f) == 2^f.sig
signBit(f) == 2^(f.sig + f.exp)
infRep(f) == maxExponent(f) * implicitBit(f)
quietBit(f) == implicitBit(f) \div 2
qnanRep(f) == infRep(f) + quietBit(f)

Abs(f, r) == r % signBit(f)
Sign(f, r) == r - Abs(f, r)
Exponent(f, r) == Abs(f, r) \div implicitBit(f)
Significand(f, r) == r % implicitBit(f)
Quieted(f, r) == IF (r \div quietBit(f)) % 2 = 0 THEN r + quietBit(f) ELSE r
Negated(f, r) == IF Sign(f, r) = 0 THEN r + signBit(f) ELSE Abs(f, r)
ProductSign(f, a, b) == IF Sign(f, a) = Sign(f, b) THEN 0 ELSE signBit(f)
Reps(f) == 0..2 * signBit(f) - 1

(* Words: the digits a word has, and its shifts.                             *)
BitLen(x) == CHOOSE n \in 0..30 : x < 2^n /\ (n = 0 \/ x >= 2^(n - 1))
Shl(f, x, n) == (x * 2^n) % 2^typeWidth(f)

(* A right shift that keeps in the lowest bit whether anything was lost.     *)
ShrSticky(x, n) ==
    LET y == x \div 2^n IN IF y % 2 = 0 /\ x % 2^n # 0 THEN y + 1 ELSE y

(* Moves the leading digit of a denormal's significand to the implicit bit:  *)
(* the significand and the exponent.                                         *)
normalize(f, s) ==
    LET shift == f.sig + 1 - BitLen(s) IN <<s * 2^shift, 1 - shift>>

-----------------------------------------------------------------------------
(* Addition.                                                                 *)

AddSpecial(f, a, b) ==
    LET aAbs == Abs(f, a)
        bAbs == Abs(f, b)
    IN  IF aAbs > infRep(f) THEN Quieted(f, a)
        ELSE IF bAbs > infRep(f) THEN Quieted(f, b)
        ELSE IF aAbs = infRep(f) THEN IF aAbs = bAbs /\ a # b THEN qnanRep(f) ELSE a
        ELSE IF bAbs = infRep(f) THEN b
        ELSE IF aAbs = 0 THEN IF bAbs = 0 THEN (IF a = b THEN a ELSE 0) ELSE b
        ELSE a

(* Zero, infinity or NaN.                                                    *)
IsSpecial(f, r) == Abs(f, r) = 0 \/ Abs(f, r) >= infRep(f)

(* Exponent and significand with its leading digit.                          *)
Unpacked(f, r) ==
    LET n == normalize(f, Significand(f, r))
    IN  IF Exponent(f, r) = 0 THEN [e |-> n[2], s |-> n[1]]
        ELSE [e |-> Exponent(f, r), s |-> Significand(f, r) + implicitBit(f)]

(* Deviation of RoundGuardSticky: a tie is rounded up.                       *)
RoundHalfUp(result, digits) == IF digits >= 4 THEN result + 1 ELSE result

(* Round to nearest, ties to even, by the three digits below the last.       *)
RoundGuardSticky(result, digits) ==
    IF digits > 4 THEN result + 1 ELSE IF digits = 4 THEN result + (result % 2) ELSE result

(* Adjusts what a sum left, and packs it.                                    *)
AddPack(f, sign, e, s) ==
    LET denormal == e <= 0
        s1 == IF denormal THEN ShrSticky(s, 1 - e) ELSE s
        e1 == IF denormal THEN 0 ELSE e
    IN  IF e >= maxExponent(f) THEN infRep(f) + sign
        ELSE RoundGuardSticky(((s1 \div 8) % implicitBit(f)) + e1 * implicitBit(f) + sign, s1 % 8)

addXf3(f, a0, b0) ==
    LET swap == Abs(f, b0) > Abs(f, a0)
        a == IF swap THEN b0 ELSE a0
        b == IF swap THEN a0 ELSE b0
        x == Unpacked(f, a)
        y == Unpacked(f, b)
        sign == Sign(f, a)
        align == x.e - y.e
        aSig == x.s * 8
        bSig == IF align < typeWidth(f) THEN ShrSticky(y.s * 8, align) ELSE 1
        diff == aSig - bSig
        sum == aSig + bSig
        shift == f.sig + 4 - BitLen(diff)
    IN  IF IsSpecial(f, a0) \/ IsSpecial(f, b0) THEN AddSpecial(f, a0, b0)
        ELSE IF sign # Sign(f, b)
        THEN IF diff = 0 THEN 0 ELSE AddPack(f, sign, x.e - shift, Shl(f, diff, shift))
        ELSE IF sum >= 16 * implicitBit(f) THEN AddPack(f, sign, x.e + 1, ShrSticky(sum, 1))
        ELSE AddPack(f, sign, x.e, sum)

subXf3(f, a, b) == addXf3(f, a, Negated(f, b))

-----------------------------------------------------------------------------
(* Multiplication.                                                           *)

MulSpecial(f, a, b) ==
    LET aAbs == Abs(f, a)
        bAbs == Abs(f, b)
        sign == ProductSign(f, a, b)
    IN  IF aAbs > infRep(f) THEN Quieted(f, a)
        ELSE IF bAbs > infRep(f) THEN Quieted(f, b)
        ELSE IF aAbs = infRep(f) THEN IF bAbs # 0 THEN aAbs + sign ELSE qnanRep(f)
        ELSE IF bAbs = infRep(f) THEN IF aAbs # 0 THEN bAbs + sign ELSE qnanRep(f)
        ELSE sign

(* The product of two words as two words, from the products of their halves. *)
wideMultiply(f, a, b) ==
    LET half == 2^(typeWidth(f) \div 2)
        word == half * half
        lo(x) == x % half
        hi(x) == x \div half
        plolo == lo(a) * lo(b)
        plohi == lo(a) * hi(b)
        philo == hi(a) * lo(b)
        r1 == hi(plolo) + lo(plohi) + lo(philo)
    IN  <<(hi(plohi) + hi(philo) + hi(r1) + hi(a) * hi(b)) % word, (lo(plolo) + r1 * half) % word>>

wideLeftShift(f, w, n) ==
    <<Shl(f, w[1], n) + w[2] \div 2^(typeWidth(f) - n), Shl(f, w[2], n)>>

(* The digits shifted out of the upper word become the lower one's.          *)
wideRightShiftWithSticky(f, w, n) ==
    LET kept == Shl(f, w[1], typeWidth(f) - n) + w[2] \div 2^n
    IN  <<w[1] \div 2^n, IF w[2] % 2^n # 0 /\ kept % 2 = 0 THEN kept + 1 ELSE kept>>

mulXf3(f, a, b) ==
    LET x == Unpacked(f, a)
        y == Unpacked(f, b)
        sign == ProductSign(f, a, b)
        product == wideMultiply(f, x.s, y.s * 2^f.exp)
        carried == (product[1] \div implicitBit(f)) % 2 = 1
        w == IF carried THEN product ELSE wideLeftShift(f, product, 1)
        e == x.e + y.e - exponentBias(f) + (IF carried THEN 1 ELSE 0)
        packed == IF e <= 0 THEN wideRightShiftWithSticky(f, w, 1 - e)
                  ELSE <<(w[1] % implicitBit(f)) + e * implicitBit(f), w[2]>>
        result == packed[1] + sign
    IN  IF IsSpecial(f, a) \/ IsSpecial(f, b) THEN MulSpecial(f, a, b)
        ELSE IF e >= maxExponent(f) THEN infRep(f) + sign
        ELSE IF 1 - e >= typeWidth(f) THEN sign
        ELSE IF packed[2] > signBit(f) THEN result + 1
        ELSE IF packed[2] = signBit(f) THEN result + (result % 2)
        ELSE result

(* x * 2^y: the exponent is changed, and where that leaves the format the    *)
(* multiplication above rounds.                                              *)
scalbnX(f, x, y) ==
    LET u == Unpacked(f, x)
        e == u.e + y
        sig == u.s % implicitBit(f)
        least == Max({e + exponentBias(f) - 1, 1})
    IN  IF IsSpecial(f, x) THEN x
        ELSE IF e >= maxExponent(f)
        THEN mulXf3(f, Sign(f, x) + (maxExponent(f) - 1) * implicitBit(f), (exponentBias(f) + 1) * implicitBit(f))
        ELSE IF e <= 0
        THEN mulXf3(f, Sign(f, x) + implicitBit(f) + sig, least * implicitBit(f))
        ELSE Sign(f, x) + e * implicitBit(f) + sig

-----------------------------------------------------------------------------
(* Comparison: -1, 0 or 1; a NaN makes it unordered.                         *)

SignedRep(f, r) == IF r >= signBit(f) THEN r - 2 * signBit(f) ELSE r

Compare(f, a, b, unordered) ==
    LET aInt == SignedRep(f, a)
        bInt == SignedRep(f, b)
        bothNegative == aInt < 0 /\ bInt < 0
    IN  IF Abs(f, a) > infRep(f) \/ Abs(f, b) > infRep(f) THEN unordered
        ELSE IF Abs(f, a) = 0 /\ Abs(f, b) = 0 THEN 0
        ELSE IF aInt = bInt THEN 0
        ELSE IF (aInt < bInt) = bothNegative THEN 1
        ELSE -1

leXf2(f, a, b) == Compare(f, a, b, 1)
geXf2(f, a, b) == Compare(f, a, b, -1)

-----------------------------------------------------------------------------
(* Conversions between formats.                                              *)

extendXfYf2(src, dst, a) ==
    LET aAbs == Abs(src, a)
        more == 2^(dst.sig - src.sig)
        bias == exponentBias(dst) - exponentBias(src)
        scale == src.sig + 1 - BitLen(aAbs)
        sign == IF Sign(src, a) = 0 THEN 0 ELSE signBit(dst)
    IN  sign +
        IF aAbs >= implicitBit(src) /\ aAbs < infRep(src) THEN aAbs * more + bias * implicitBit(dst)
        ELSE IF aAbs >= infRep(src) THEN infRep(dst) + (aAbs % implicitBit(src)) * more
        ELSE IF aAbs # 0 THEN aAbs * more * 2^scale - implicitBit(dst) + (bias - scale + 1) * implicitBit(dst)
        ELSE 0

(* Rounds off the digits that the narrower significand has no room for.      *)
Narrowed(src, dst, s) ==
    LET lost == 2^(src.sig - dst.sig)
        halfway == lost \div 2
        kept == s \div lost
    IN  IF s % lost > halfway THEN kept + 1 ELSE IF s % lost = halfway THEN kept + (kept % 2) ELSE kept

truncXfYf2(src, dst, a) ==
    LET aAbs == Abs(src, a)
        bias == exponentBias(src) - exponentBias(dst)
        underflow == (bias + 1) * implicitBit(src)
        overflow == (bias + maxExponent(dst)) * implicitBit(src)
        shift == bias - Exponent(src, a) + 1
        sign == IF Sign(src, a) = 0 THEN 0 ELSE signBit(dst)
        payload == (aAbs % quietBit(src)) \div 2^(src.sig - dst.sig)
    IN  sign +
        IF aAbs >= underflow /\ aAbs < overflow THEN Narrowed(src, dst, aAbs) - bias * implicitBit(dst)
        ELSE IF aAbs > infRep(src) THEN qnanRep(dst) + (payload % quietBit(dst))
        ELSE IF aAbs >= overflow THEN infRep(dst)
        ELSE IF shift > src.sig THEN 0
        ELSE Narrowed(src, dst, ShrSticky(Significand(src, a) + implicitBit(src), shift))

-----------------------------------------------------------------------------
(* Conversions to and from integers of w bits.                               *)

Signed(x, w) == IF x % 2^w >= 2^(w - 1) THEN (x % 2^w) - 2^w ELSE x % 2^w

(* The integer part of a number whose exponent is e.                         *)
IntegerPart(f, a, e) ==
    LET s == Significand(f, a) + implicitBit(f)
    IN  IF e < f.sig THEN s \div 2^(f.sig - e) ELSE s * 2^(e - f.sig)

fixint(f, a, w) ==
    LET e == Exponent(f, a) - exponentBias(f)
        positive == Sign(f, a) = 0
    IN  IF e < 0 THEN 0
        ELSE IF e >= w THEN IF positive THEN 2^(w - 1) - 1 ELSE -2^(w - 1)
        ELSE Signed(IF positive THEN IntegerPart(f, a, e) ELSE -IntegerPart(f, a, e), w)

fixuint(f, a, w) ==
    LET e == Exponent(f, a) - exponentBias(f)
    IN  IF Sign(f, a) # 0 \/ e < 0 THEN 0
        ELSE IF e >= w THEN 2^w - 1
        ELSE IntegerPart(f, a, e)

(* An integer no wider than the format, as __floatsisf converts it.          *)
floatsi(f, a) ==
    LET abs == IF a < 0 THEN -a ELSE a
        sign == IF a < 0 THEN signBit(f) ELSE 0
        e == BitLen(abs) - 1
        shift == e - f.sig
        round == Shl(f, abs, typeWidth(f) - shift)
        kept == abs \div 2^shift - implicitBit(f)
        result == IF e <= f.sig THEN abs * 2^(f.sig - e) - implicitBit(f)
                  ELSE IF round > signBit(f) THEN kept + 1
                  ELSE IF round = signBit(f) THEN kept + (kept % 2)
                  ELSE kept
    IN  IF a = 0 THEN 0 ELSE result + (e + exponentBias(f)) * implicitBit(f) + sign

(* An integer that may be wider, as __floatdidf converts it: two digits more *)
(* than fit are kept, the last of them sticky, and rounded away.             *)
floatdi(f, a) ==
    LET abs == IF a < 0 THEN -a ELSE a
        sign == IF a < 0 THEN signBit(f) ELSE 0
        sd == BitLen(abs)
        digits == f.sig + 1
        kept == IF sd = digits + 1 THEN abs * 2 ELSE ShrSticky(abs, sd - (digits + 2))
        tied == IF (kept \div 4) % 2 = 1 /\ kept % 2 = 0 THEN kept + 1 ELSE kept
        rounded == (tied + 1) \div 4
        carried == rounded >= 2^digits
        s == IF sd <= digits THEN abs * 2^(digits - sd) ELSE IF carried THEN rounded \div 2 ELSE rounded
        e == IF sd > digits /\ carried THEN sd ELSE sd - 1
    IN  IF a = 0 THEN 0 ELSE sign + (e + exponentBias(f)) * implicitBit(f) + (s % implicitBit(f))

-----------------------------------------------------------------------------
(* What IEEE 754 asks for.                                                   *)

(* The magnitude of a number, in units of the least denormal; one past the   *)
(* largest number counts as the number it would be.                          *)
Units(f, k) ==
    LET e == k \div implicitBit(f)
    IN  IF e = 0 THEN k ELSE (implicitBit(f) + (k % implicitBit(f))) * 2^(e - 1)

Value(f, r) == IF Sign(f, r) = 0 THEN Units(f, Abs(f, r)) ELSE -Units(f, Abs(f, r))

UnitsOf == [f \in {Wide, Narrow, Broad} |-> [k \in 0..infRep(f) |-> Units(f, k)]]

(* The representation nearest to n / d units, of two the even one.           *)
Nearest(f, n, d) ==
    LET units == UnitsOf[f]
        below == CHOOSE k \in DOMAIN units : units[k] * d <= n /\ (k + 1 \in DOMAIN units => units[k + 1] * d > n)
        middle == (units[below] + units[below + 1]) * d
    IN  IF below = infRep(f) THEN below
        ELSE IF 2 * n < middle THEN below
        ELSE IF 2 * n > middle THEN below + 1
        ELSE below + (below % 2)

(* n / 2^k units for an integer n and an exponent k of either sign.          *)
Rounded(f, n, k) ==
    LET m == IF n < 0 THEN -n ELSE n
        sign == IF n < 0 THEN signBit(f) ELSE 0
    IN  sign + IF k > 0 THEN Nearest(f, m, 2^k) ELSE Nearest(f, m * 2^(-k), 1)

IsNaN(f, r) == Abs(f, r) > infRep(f)
Infinite(f, r) == Abs(f, r) = infRep(f)

QuietNaN == -1

(* Which NaN it is does not matter, but for its being quiet.                 *)
Class(f, r) == IF ~IsNaN(f, r) THEN r ELSE IF Quieted(f, r) = r THEN QuietNaN ELSE -2

ExactSum(f, a, b) ==
    LET n == Value(f, a) + Value(f, b)
    IN  IF IsNaN(f, a) \/ IsNaN(f, b) THEN QuietNaN
        ELSE IF Infinite(f, a) /\ Infinite(f, b) /\ a # b THEN QuietNaN
        ELSE IF Infinite(f, a) THEN a
        ELSE IF Infinite(f, b) THEN b
        ELSE IF n = 0 THEN IF a = b THEN a ELSE 0
        ELSE Rounded(f, n, 0)

(* Digits and exponent of a number, in units of the least denormal.          *)
Digits(f, r) == IF Exponent(f, r) = 0 THEN Abs(f, r) ELSE implicitBit(f) + Significand(f, r)
Scale(f, r) == IF Exponent(f, r) = 0 THEN 0 ELSE Exponent(f, r) - 1

ExactProduct(f, a, b) ==
    LET infinite == Infinite(f, a) \/ Infinite(f, b)
        zero == Abs(f, a) = 0 \/ Abs(f, b) = 0
        sign == ProductSign(f, a, b)
        k == exponentBias(f) + f.sig - 1 - Scale(f, a) - Scale(f, b)
    IN  IF IsNaN(f, a) \/ IsNaN(f, b) \/ (infinite /\ zero) THEN QuietNaN
        ELSE IF infinite THEN infRep(f) + sign
        ELSE sign + Rounded(f, Digits(f, a) * Digits(f, b), k)

Order(f, a, b, unordered) ==
    LET x == Value(f, a)
        y == Value(f, b)
    IN  IF IsNaN(f, a) \/ IsNaN(f, b) THEN unordered ELSE IF x < y THEN -1 ELSE IF x = y THEN 0 ELSE 1

(* A number of one format in another: units differ by a power of two.        *)
Converted(src, dst, a) ==
    LET k == (exponentBias(src) + src.sig) - (exponentBias(dst) + dst.sig)
        sign == IF Sign(src, a) = 0 THEN 0 ELSE signBit(dst)
    IN  sign + IF Infinite(src, a) THEN infRep(dst) ELSE Rounded(dst, Units(src, Abs(src, a)), k)

(* Towards zero, and no further than the integers of the type go.            *)
Integer(f, a, least, most) ==
    LET n == Units(f, Abs(f, a)) \div 2^(exponentBias(f) + f.sig - 1)
    IN  Max({least, Min({most, IF Sign(f, a) = 0 THEN n ELSE -n})})

FromInteger(f, a) == Rounded(f, a * 2^(exponentBias(f) + f.sig - 1), 0)
-----------------------------------------------------------------------------
Operand(f) == ~called /\ input \in Reps(f)

Call(op, result, exact) ==
    /\ called' = TRUE
    /\ input' = op /\ got' = result /\ wanted' = exact

Init == input \in Reps(Wide) \union Reps(Broad) /\ got = 0 /\ wanted = 0 /\ called = FALSE

Add ==
    /\ Operand(Wide)
    /\ \E b \in Reps(Wide) :
          Call(<<"add", input, b>>, Class(Wide, addXf3(Wide, input, b)), ExactSum(Wide, input, b))

(* Addition of the negated operand, checked with fewer of them.              *)
Subtract ==
    /\ Operand(Wide)
    /\ \E b \in Reps(Narrow) :
          Call(<<"sub", input, b>>, Class(Wide, subXf3(Wide, input, b)), ExactSum(Wide, input, Negated(Wide, b)))

Multiply ==
    /\ Operand(Wide)
    /\ \E b \in Reps(Wide) :
          Call(<<"mul", input, b>>, Class(Wide, mulXf3(Wide, input, b)), ExactProduct(Wide, input, b))

(* scalbn is multiplication by a power of two; beyond far nothing changes.   *)
Scalbn ==
    /\ Operand(Wide) /\ ~IsNaN(Wide, input)
    /\ \E y \in -2 * maxExponent(Wide)..2 * maxExponent(Wide) :
          LET far == maxExponent(Wide) + Wide.sig
              k == Max({-far, Min({Wide.sig + 3, -(Scale(Wide, input) + y)})})
              scaled == IF Infinite(Wide, input) THEN infRep(Wide) ELSE Rounded(Wide, Digits(Wide, input), k)
          IN  Call(<<"scalbn", input, y>>, scalbnX(Wide, input, y), Sign(Wide, input) + scaled)

Compares ==
    /\ Operand(Wide)
    /\ \E b \in Reps(Wide) :
          Call(<<"cmp", input, b>>, <<leXf2(Wide, input, b), geXf2(Wide, input, b)>>,
               <<Order(Wide, input, b, 1), Order(Wide, input, b, -1)>>)

Extend ==
    /\ Operand(Narrow)
    /\ LET r == extendXfYf2(Narrow, Broad, input)
       IN  Call(<<"extend", input>>, IF IsNaN(Broad, r) THEN QuietNaN ELSE r,
                IF IsNaN(Narrow, input) THEN QuietNaN ELSE Converted(Narrow, Broad, input))

Truncate ==
    /\ Operand(Broad)
    /\ Call(<<"trunc", input>>, Class(Narrow, truncXfYf2(Broad, Narrow, input)),
            IF IsNaN(Broad, input) THEN QuietNaN ELSE Converted(Broad, Narrow, input))

(* C leaves a number that does not fit undefined; the code saturates it, but *)
(* not one of exactly as many digits as the type has bits.  Of those only    *)
(* the least integer fits.                                                   *)
Fix ==
    /\ Operand(Wide) /\ ~IsNaN(Wide, input)
    /\ \E w \in IntWidths :
          /\ Exponent(Wide, input) - exponentBias(Wide) = w - 1 =>
                Sign(Wide, input) # 0 /\ Significand(Wide, input) = 0
          /\ Call(<<"fix", input, w>>, fixint(Wide, input, w), Integer(Wide, input, -2^(w - 1), 2^(w - 1) - 1))

FixUnsigned ==
    /\ Operand(Wide) /\ ~IsNaN(Wide, input)
    /\ \E w \in IntWidths :
          Call(<<"fixuns", input, w>>, fixuint(Wide, input, w), Integer(Wide, input, 0, 2^w - 1))

Float ==
    /\ Operand(Wide)
    /\ \E a \in {Signed(input, typeWidth(Wide)), input} :
          Call(<<"float", a>>, <<floatsi(Wide, a), floatdi(Wide, a)>>,
               <<FromInteger(Wide, a), FromInteger(Wide, a)>>)

Next ==
    \/ Add \/ Subtract \/ Multiply \/ Scalbn \/ Compares
    \/ Extend \/ Truncate \/ Fix \/ FixUnsigned \/ Float

-----------------------------------------------------------------------------
(* Every operation returns the number that IEEE 754 defines: the exact       *)
(* result rounded to the nearest number, of two the even one, with the right *)
(* sign of zero, denormals, overflow to infinity and quiet NaNs; comparisons *)
(* order the numbers, and conversions to integers truncate.                  *)
ExactlyRounded == got = wanted
=============================================================================
