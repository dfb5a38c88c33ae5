---------------------------- MODULE CharSearcher ----------------------------
(* core/src/str/pattern.rs: the searcher of a char pattern.  It is double    *)
(* ended: all four methods may be called in any order.  next_match looks for *)
(* the last byte of the character, so while it runs its fingers may lie      *)
(* inside characters, which get_unchecked in next relies on not to be.       *)
EXTENDS StrPattern

CONSTANT MaxHaystack   \* the longest haystack, in bytes

VARIABLES haystack, needle,
          searcher,   \* the fields finger and finger_back
          before,     \* searcher when the last call began
          answer      \* the last call and its result

vars == <<haystack, needle, searcher, before, answer>>

Init ==
    /\ haystack \in StringsOf(MaxHaystack)
    /\ needle \in Characters
    /\ searcher = [finger |-> 0, finger_back |-> Len(haystack)]
    /\ before = searcher
    /\ answer = [call |-> "none", r |-> Done]

Returned(call, s, r) ==
    /\ searcher' = s
    /\ answer' = [call |-> call, r |-> r]
    /\ before' = searcher
    /\ UNCHANGED <<haystack, needle>>

Slice(a, b) == SubSeq(haystack, a + 1, b)

(* Match or Reject, as the character in a .. b is the needle or not.         *)
Judged(a, b) == IF Slice(a, b) = needle THEN Match(a, b) ELSE Reject(a, b)

CallNext ==
    LET s == searcher
        b == NextBoundary(haystack, s.finger + 1)
    IN IF s.finger = s.finger_back THEN Returned("next", s, Done)
       ELSE Returned("next", [s EXCEPT !.finger = b], Judged(s.finger, b))

CallNextBack ==
    LET s == searcher
        a == LastBoundary(haystack, s.finger_back - 1)
    IN IF s.finger = s.finger_back THEN Returned("next_back", s, Done)
       ELSE Returned("next_back", [s EXCEPT !.finger_back = a], Judged(a, s.finger_back))

last_byte == needle[Len(needle)]

(* The positions in the slice between the fingers that hold the last byte.   *)
LastBytes(finger, finger_back) == {i \in finger .. finger_back - 1 : Byte(haystack, i) = last_byte}

(* memchr finds the byte, the finger goes behind it, and the bytes before it *)
(* are compared with the whole character.                                    *)
RECURSIVE Found(_, _)
Found(finger, finger_back) ==
    LET here == LastBytes(finger, finger_back)
        f == Min(here) + 1
    IN IF here = {} THEN [finger |-> finger_back, r |-> Done]
       ELSE IF f >= Len(needle) /\ Slice(f - Len(needle), f) = needle
       THEN [finger |-> f, r |-> Match(f - Len(needle), f)]
       ELSE Found(f, finger_back)

CallNextMatch ==
    LET c == Found(searcher.finger, searcher.finger_back)
    IN Returned("next_match", [searcher EXCEPT !.finger = c.finger], c.r)

(* Deviation of Lowered: the finger goes down by a whole character although  *)
(* the byte found belonged to another one.                                   *)
LoweredByCharacter(index) == IF index >= Len(needle) - 1 THEN index - Len(needle) + 1 ELSE index

(* Where finger_back goes when the byte found does not end the character.    *)
Lowered(index) == index

RECURSIVE FoundBack(_, _)
FoundBack(finger, finger_back) ==
    LET here == LastBytes(finger, finger_back)
        index == Max(here)
        found_char == index - (Len(needle) - 1)
    IN IF here = {} THEN [finger_back |-> finger, r |-> Done]
       ELSE IF found_char >= 0 /\ Slice(found_char, found_char + Len(needle)) = needle
       THEN [finger_back |-> found_char, r |-> Match(found_char, found_char + Len(needle))]
       ELSE FoundBack(finger, Lowered(index))

CallNextMatchBack ==
    LET c == FoundBack(searcher.finger, searcher.finger_back)
    IN Returned("next_match_back", [searcher EXCEPT !.finger_back = c.finger_back], c.r)

Next == CallNext \/ CallNextBack \/ CallNextMatch \/ CallNextMatchBack

Spec == Init /\ [][Next]_vars

-----------------------------------------------------------------------------
Ahead ==
    {i \in Occurrences(haystack, needle) : before.finger <= i /\ i + Len(needle) <= before.finger_back}

(* Both fingers are on character boundaries when a method returns and do not *)
(* walk past each other, in any mix of the four methods; the match found is  *)
(* the nearest one from the end that was searched, and when there is none    *)
(* the two ends have met.                                                    *)
FindsCharacters ==
    LET r == answer.r
        back == answer.call \in {"next_back", "next_match_back"}
    IN /\ is_char_boundary(haystack, searcher.finger)
       /\ is_char_boundary(haystack, searcher.finger_back)
       /\ searcher.finger <= searcher.finger_back
       /\ answer.call # "none" =>
          CASE r.step = "Match" -> Ahead # {} /\ r.a = IF back THEN Max(Ahead) ELSE Min(Ahead)
            [] r.step = "Reject" -> r.a \notin Ahead
            [] r.step = "Done" -> Ahead = {} /\ searcher.finger = searcher.finger_back
       /\ r.step # "Done" =>
          IF back THEN r.a = searcher.finger_back ELSE r.b = searcher.finger
=============================================================================
