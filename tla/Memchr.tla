------------------------------- MODULE Memchr -------------------------------
(* core/src/slice/memchr.rs: the first and the last position of a byte, read *)
(* two machine words at a time between the unaligned ends of the text.       *)
EXTENDS Integers, Sequences, FiniteSets

CONSTANTS ByteBits,      \* the bits of a byte
          USIZE_BYTES,   \* the bytes of a word
          MaxLength,     \* the longest text
          Bytes          \* the bytes that occur in it

VARIABLES input, got, wanted, called

Radix == 2^ByteBits

(* A word as a number, its bytes from the lowest.                            *)
RECURSIVE WordOf(_)
WordOf(bytes) == IF bytes = <<>> THEN 0 ELSE Head(bytes) + Radix * WordOf(Tail(bytes))

repeat_byte(b) == WordOf([i \in 1 .. USIZE_BYTES |-> b])
LO_USIZE == repeat_byte(1)

Bit(w, k) == (w \div 2^k) % 2

RECURSIVE XorBits(_, _, _)
XorBits(v, w, k) == IF k = 0 THEN 0 ELSE XorBits(v, w, k - 1) + 2^(k - 1) * ((Bit(v, k - 1) + Bit(w, k - 1)) % 2)
Xor(v, w) == XorBits(v, w, ByteBits * USIZE_BYTES)

(* x.wrapping_sub(LO) & !x & HI: some byte has its high bit set after the    *)
(* subtraction and not before.                                               *)
contains_zero_byte(x) ==
    LET y == (x - LO_USIZE) % Radix^USIZE_BYTES
    IN \E i \in 1 .. USIZE_BYTES : Bit(y, ByteBits * i - 1) = 1 /\ Bit(x, ByteBits * i - 1) = 0

Chunk == 2 * USIZE_BYTES

(* Deviation of Holds: both words must hold the byte.                        *)
BothHold(text, offset, x) ==
    \A o \in {offset, offset + USIZE_BYTES} :
        contains_zero_byte(Xor(WordOf(SubSeq(text, o + 1, o + USIZE_BYTES)), repeat_byte(x)))

(* One of the two words that start at the offset holds the byte.             *)
Holds(text, offset, x) ==
    \E o \in {offset, offset + USIZE_BYTES} :
        contains_zero_byte(Xor(WordOf(SubSeq(text, o + 1, o + USIZE_BYTES)), repeat_byte(x)))

NotFound == -1

(* iter().position and rposition over the bytes first .. last - 1.           *)
position(text, first, last, x) ==
    LET here == {i \in first .. last - 1 : text[i + 1] = x}
    IN IF here = {} THEN NotFound ELSE CHOOSE i \in here : \A j \in here : i <= j
rposition(text, first, last, x) ==
    LET here == {i \in first .. last - 1 : text[i + 1] = x}
    IN IF here = {} THEN NotFound ELSE CHOOSE i \in here : \A j \in here : i >= j

(* The body loops.                                                           *)
RECURSIVE Body(_, _, _)
Body(text, offset, x) ==
    IF offset <= Len(text) - Chunk /\ ~Holds(text, offset, x) THEN Body(text, offset + Chunk, x) ELSE offset

RECURSIVE BodyBack(_, _, _, _)
BodyBack(text, offset, low, x) ==
    IF offset > low /\ ~Holds(text, offset - Chunk, x) THEN BodyBack(text, offset - Chunk, low, x) ELSE offset

(* align is the distance of the text from the next aligned address.          *)
memchr_general_case(x, text, align) ==
    LET offset == IF align < Len(text) THEN align ELSE Len(text)
        early == position(text, 0, offset, x)
    IN IF early # NotFound THEN early
       ELSE position(text, Body(text, offset, x), Len(text), x)

memchr(x, text, align) ==
    IF Len(text) < Chunk THEN position(text, 0, Len(text), x) ELSE memchr_general_case(x, text, align)

(* align_to: nothing in the middle when the text ends before it.             *)
memrchr(x, text, align) ==
    LET low == IF align <= Len(text) THEN align ELSE Len(text)
        high == low + Chunk * ((Len(text) - low) \div Chunk)
        late == rposition(text, high, Len(text), x)
    IN IF late # NotFound THEN late ELSE rposition(text, 0, BodyBack(text, high, low, x), x)

-----------------------------------------------------------------------------
Init == input \in UNION {[1 .. n -> Bytes] : n \in 0 .. MaxLength} /\ got = <<>> /\ wanted = <<>> /\ called = FALSE

Next ==
    /\ ~called /\ called' = TRUE
    /\ \E x \in Bytes, align \in 0 .. USIZE_BYTES - 1 :
        /\ input' = <<x, input, align>>
        /\ got' = <<memchr(x, input, align), memrchr(x, input, align)>>
        /\ wanted' = <<position(input, 0, Len(input), x), rposition(input, 0, Len(input), x)>>

(* Wherever the text lies, the word-wise search finds the first and the last *)
(* position of the byte, as a scan byte by byte does.                        *)
FindsTheByte == got = wanted
=============================================================================
