----------------------------- MODULE StrPattern -----------------------------
(* core/src/str/pattern.rs: the searcher of a &str pattern, from the front   *)
(* or from the back.  An empty needle matches between characters; any other  *)
(* one is searched for with the Two-Way algorithm, which works on bytes and  *)
(* remembers in memory (memory_back) how much of the needle it has compared. *)
EXTENDS Integers, Sequences, FiniteSetsExt

(* Characters of one, two and three bytes: A, a, U+0081 and U+A041.  A and   *)
(* the last byte of the other two agree in their low six bits, so the        *)
(* byteset cannot tell them apart, and U+A041 has that byte in the middle.   *)
Characters == {<<65>>, <<97>>, <<194, 129>>, <<234, 129, 129>>}

(* The strings of at most n bytes.                                           *)
RECURSIVE StringsOf(_)
StringsOf(n) ==
    IF n < 0 THEN {}
    ELSE {<<>>} \cup UNION {{c \o s : s \in StringsOf(n - Len(c))} : c \in Characters}

Byte(s, i) == s[i + 1]
Larger(a, b) == IF a > b THEN a ELSE b
Smaller(a, b) == IF a < b THEN a ELSE b

is_char_boundary(s, i) ==
    i = 0 \/ i = Len(s) \/ (i < Len(s) /\ (Byte(s, i) < 128 \/ Byte(s, i) >= 192))

-----------------------------------------------------------------------------
(* TwoWaySearcher::new                                                       *)

(* One round of maximal_suffix; a and b are the bytes it compares.           *)
SuffixRound(f, a, b, order_greater) ==
    IF (a < b /\ ~order_greater) \/ (a > b /\ order_greater)
    THEN [left |-> f.left, right |-> f.right + f.offset + 1, offset |-> 0,
          period |-> f.right + f.offset + 1 - f.left]
    ELSE IF a = b
    THEN IF f.offset + 1 = f.period
         THEN [f EXCEPT !.right = @ + f.offset + 1, !.offset = 0]
         ELSE [f EXCEPT !.offset = @ + 1]
    ELSE [left |-> f.right, right |-> f.right + 1, offset |-> 0, period |-> 1]

RECURSIVE Suffix(_, _, _, _)
Suffix(arr, f, known_period, order_greater) ==
    IF f.right + f.offset >= Len(arr) THEN f
    ELSE LET On(g) == IF g.period = known_period THEN g ELSE Suffix(arr, g, known_period, order_greater)
         IN On(SuffixRound(f, Byte(arr, f.right + f.offset), Byte(arr, f.left + f.offset), order_greater))

FirstSuffix == [left |-> 0, right |-> 1, offset |-> 0, period |-> 1]

maximal_suffix(arr, order_greater) == Suffix(arr, FirstSuffix, 0, order_greater)

Reversed(arr) == [i \in 1 .. Len(arr) |-> arr[Len(arr) + 1 - i]]

reverse_maximal_suffix(arr, known_period, order_greater) ==
    Suffix(Reversed(arr), FirstSuffix, known_period, order_greater).left

byteset_create(bytes) == {bytes[i] % 64 : i \in DOMAIN bytes}

LongPeriod == -1   \* usize::MAX in memory

(* The searcher from the chosen factorization of the needle.                 *)
Factored(x, end, crit_pos, period) ==
    IF SubSeq(x, 1, crit_pos) = SubSeq(x, period + 1, period + crit_pos)
    THEN [crit_pos |-> crit_pos,
          crit_pos_back |-> Len(x) - Larger(reverse_maximal_suffix(x, period, FALSE),
                                            reverse_maximal_suffix(x, period, TRUE)),
          period |-> period,
          byteset |-> byteset_create(SubSeq(x, 1, period)),
          position |-> 0, end |-> end, memory |-> 0, memory_back |-> Len(x)]
    ELSE [crit_pos |-> crit_pos,
          crit_pos_back |-> crit_pos,
          period |-> Larger(crit_pos, Len(x) - crit_pos) + 1,
          byteset |-> byteset_create(x),
          position |-> 0, end |-> end, memory |-> LongPeriod, memory_back |-> LongPeriod]

TwoWay(x, end) ==
    LET From(f) == Factored(x, end, f.left, f.period)
        Later(lesser, greater) == IF lesser.left > greater.left THEN lesser ELSE greater
    IN From(Later(maximal_suffix(x, FALSE), maximal_suffix(x, TRUE)))

-----------------------------------------------------------------------------
(* TwoWaySearcher::next and next_back.  A comparison yields the state of the *)
(* next round of the loop.                                                   *)

Match(a, b) == [step |-> "Match", a |-> a, b |-> b]
Reject(a, b) == [step |-> "Reject", a |-> a, b |-> b]
Done == [step |-> "Done"]

is_long(s) == s.memory = LongPeriod
byteset_contains(s, b) == b % 64 \in s.byteset

(* Deviation of Remember: the memory survives a mismatch of the right part.  *)
RememberAlways(s, m) == IF is_long(s) \/ m = 0 THEN s ELSE [s EXCEPT !.memory = m]

Remember(s, m) == IF is_long(s) THEN s ELSE [s EXCEPT !.memory = m]

RememberBack(s, m) == IF is_long(s) THEN s ELSE [s EXCEPT !.memory_back = m]

Advance(s, n) == [s EXCEPT !.position = @ + n]
Retreat(s, n) == [s EXCEPT !.end = @ - n]

RECURSIVE next(_, _, _, _, _)
next(h, x, s, old_pos, early) ==
    LET Differs(i) == Byte(x, i) # Byte(h, s.position + i)
        right == {i \in (IF is_long(s) THEN s.crit_pos ELSE Larger(s.crit_pos, s.memory)) .. Len(x) - 1 :
                    Differs(i)}
        left == {i \in (IF is_long(s) THEN 0 ELSE s.memory) .. s.crit_pos - 1 : Differs(i)}
    IN IF s.position + Len(x) > Len(h)
       THEN [s |-> [s EXCEPT !.position = Len(h)], r |-> Reject(old_pos, Len(h))]
       ELSE IF early /\ old_pos # s.position
       THEN [s |-> s, r |-> Reject(old_pos, s.position)]
       ELSE IF ~byteset_contains(s, Byte(h, s.position + Len(x) - 1))
       THEN next(h, x, Remember(Advance(s, Len(x)), 0), old_pos, early)
       ELSE IF right # {}
       THEN next(h, x, Remember(Advance(s, Min(right) - s.crit_pos + 1), 0), old_pos, early)
       ELSE IF left # {}
       THEN next(h, x, Remember(Advance(s, s.period), Len(x) - s.period), old_pos, early)
       ELSE [s |-> Remember(Advance(s, Len(x)), 0), r |-> Match(s.position, s.position + Len(x))]

RECURSIVE next_back(_, _, _, _, _)
next_back(h, x, s, old_end, early) ==
    LET Differs(i) == Byte(x, i) # Byte(h, s.end - Len(x) + i)
        left == {i \in 0 .. (IF is_long(s) THEN s.crit_pos_back ELSE Smaller(s.crit_pos_back, s.memory_back)) - 1 :
                    Differs(i)}
        right == {i \in s.crit_pos_back .. (IF is_long(s) THEN Len(x) ELSE s.memory_back) - 1 : Differs(i)}
    IN IF s.end < Len(x)
       THEN [s |-> [s EXCEPT !.end = 0], r |-> Reject(0, old_end)]
       ELSE IF early /\ old_end # s.end
       THEN [s |-> s, r |-> Reject(s.end, old_end)]
       ELSE IF ~byteset_contains(s, Byte(h, s.end - Len(x)))
       THEN next_back(h, x, RememberBack(Retreat(s, Len(x)), Len(x)), old_end, early)
       ELSE IF left # {}
       THEN next_back(h, x, RememberBack(Retreat(s, s.crit_pos_back - Max(left)), Len(x)), old_end, early)
       ELSE IF right # {}
       THEN next_back(h, x, RememberBack(Retreat(s, s.period), s.period), old_end, early)
       ELSE [s |-> RememberBack(Retreat(s, Len(x)), Len(x)), r |-> Match(s.end - Len(x), s.end)]

-----------------------------------------------------------------------------
(* StrSearcher                                                               *)

EmptyNeedle(h) == [position |-> 0, end |-> Len(h), is_match_fw |-> TRUE, is_match_bw |-> TRUE]

NewSearcher(h, x) == IF x = <<>> THEN EmptyNeedle(h) ELSE TwoWay(x, Len(h))

NextBoundary(h, i) == Min({j \in i .. Len(h) : is_char_boundary(h, j)})
LastBoundary(h, i) == Max({j \in 0 .. i : is_char_boundary(h, j)})

EmptyNext(h, s) ==
    LET t == [s EXCEPT !.is_match_fw = ~@]
        beyond == NextBoundary(h, s.position + 1)
    IN IF s.is_match_fw THEN [s |-> t, r |-> Match(s.position, s.position)]
       ELSE IF s.position = Len(h) THEN [s |-> t, r |-> Done]
       ELSE [s |-> [t EXCEPT !.position = beyond], r |-> Reject(s.position, beyond)]

EmptyNextBack(h, s) ==
    LET t == [s EXCEPT !.is_match_bw = ~@]
        beyond == LastBoundary(h, s.end - 1)
    IN IF s.is_match_bw THEN [s |-> t, r |-> Match(s.end, s.end)]
       ELSE IF s.end = 0 THEN [s |-> t, r |-> Done]
       ELSE [s |-> [t EXCEPT !.end = beyond], r |-> Reject(beyond, s.end)]

(* Deviation of SkipToBoundary: the reject ends where the algorithm put it.  *)
NoSkip(h, c) == c

(* A reject of the byte search is walked on to a character boundary.         *)
SkipToBoundary(h, c) ==
    IF c.r.step # "Reject" THEN c
    ELSE LET b == NextBoundary(h, c.r.b)
         IN [s |-> [c.s EXCEPT !.position = Larger(b, @)], r |-> Reject(c.r.a, b)]

SkipBackToBoundary(h, c) ==
    IF c.r.step # "Reject" THEN c
    ELSE LET a == LastBoundary(h, c.r.a)
         IN [s |-> [c.s EXCEPT !.end = Smaller(a, @)], r |-> Reject(a, c.r.b)]

SearcherNext(h, x, s) ==
    IF x = <<>> THEN EmptyNext(h, s)
    ELSE IF s.position = Len(h) THEN [s |-> s, r |-> Done]
    ELSE SkipToBoundary(h, next(h, x, s, s.position, TRUE))

SearcherNextBack(h, x, s) ==
    IF x = <<>> THEN EmptyNextBack(h, s)
    ELSE IF s.end = 0 THEN [s |-> s, r |-> Done]
    ELSE SkipBackToBoundary(h, next_back(h, x, s, s.end, TRUE))

(* MatchOnly: a reject stands for the end of the haystack.                   *)
MatchOnly(c) == IF c.r.step = "Reject" THEN [c EXCEPT !.r = Done] ELSE c

(* The loops of next_match with an empty needle and of Searcher::next_reject. *)
RECURSIVE Until(_, _, _, _, _)
Until(step, h, x, s, backwards) ==
    LET On(c) == IF c.r.step \in {step, "Done"} THEN c ELSE Until(step, h, x, c.s, backwards)
    IN On(IF backwards THEN SearcherNextBack(h, x, s) ELSE SearcherNext(h, x, s))

next_match(h, x, s) ==
    IF x = <<>> THEN Until("Match", h, x, s, FALSE) ELSE MatchOnly(next(h, x, s, s.position, FALSE))

next_match_back(h, x, s) ==
    IF x = <<>> THEN Until("Match", h, x, s, TRUE) ELSE MatchOnly(next_back(h, x, s, s.end, FALSE))

next_reject(h, x, s) == Until("Reject", h, x, s, FALSE)
next_reject_back(h, x, s) == Until("Reject", h, x, s, TRUE)

-----------------------------------------------------------------------------
(* Where a search by definition finds the string x in h.                     *)
Occurrences(h, x) ==
    {i \in 0 .. Len(h) - Len(x) : is_char_boundary(h, i) /\ SubSeq(h, i + 1, i + Len(x)) = x}
=============================================================================
