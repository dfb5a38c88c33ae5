---------------------------- MODULE StrSearcher ----------------------------
(* core/src/str/pattern.rs: a StrSearcher and a caller that calls next and   *)
(* next_match in any order, or next_back and next_match_back.  The two       *)
(* directions have cursors and memories of their own.                        *)
EXTENDS StrPattern

CONSTANTS MaxHaystack, MaxNeedle,   \* the longest strings, in bytes
          AsciiLength               \* length of the longer haystacks of A and a, which memory needs

VARIABLES haystack, needle,
          back,       \* the searcher is used through ReverseSearcher
          searcher,   \* StrSearcherImpl
          from,       \* the end of what has been reported so far
          matched,    \* the last report was a match
          before,     \* from and matched as they were when the last call began
          answer,     \* the last call and its result
          ended       \* an earlier call answered that nothing is left

vars == <<haystack, needle, back, searcher, from, matched, before, answer, ended>>

Init ==
    /\ haystack \in StringsOf(MaxHaystack) \cup [1 .. AsciiLength -> {65, 97}]
    /\ needle \in StringsOf(MaxNeedle)
    /\ back \in BOOLEAN
    /\ searcher = NewSearcher(haystack, needle)
    /\ from = IF back THEN Len(haystack) ELSE 0
    /\ before = [from |-> from, matched |-> FALSE]
    /\ matched = FALSE
    /\ answer = [call |-> "none", r |-> Done]
    /\ ended = FALSE

(* The call returned c.                                                      *)
Returned(call, c) ==
    /\ searcher' = c.s
    /\ answer' = [call |-> call, r |-> c.r]
    /\ before' = [from |-> from, matched |-> matched]
    /\ matched' = (c.r.step = "Match")
    /\ from' = IF c.r.step # "Done" THEN (IF back THEN c.r.a ELSE c.r.b)
               ELSE IF back THEN 0 ELSE Len(haystack)
    /\ ended' = (ended \/ (answer.call # "none" /\ answer.r = Done))
    /\ UNCHANGED <<haystack, needle, back>>

CallNext == ~back /\ Returned("next", SearcherNext(haystack, needle, searcher))
CallNextMatch == ~back /\ Returned("next_match", next_match(haystack, needle, searcher))
CallNextBack == back /\ Returned("next", SearcherNextBack(haystack, needle, searcher))
CallNextMatchBack == back /\ Returned("next_match", next_match_back(haystack, needle, searcher))

Next == CallNext \/ CallNextMatch \/ CallNextBack \/ CallNextMatchBack

Spec == Init /\ [][Next]_vars

-----------------------------------------------------------------------------
(* The occurrences that the last call still had to report: beyond what had   *)
(* been reported, and not the empty match just reported there.               *)
Ahead ==
    {i \in Occurrences(haystack, needle) :
        /\ IF back THEN i + Len(needle) <= before.from ELSE i >= before.from
        /\ ~(needle = <<>> /\ before.matched /\ i = before.from)}

(* Up to the first Done, whatever mix of next and next_match is called, the  *)
(* answers are those of a search by definition: a match is the nearest       *)
(* occurrence ahead, a reject starts where the last answer ended, ends on a  *)
(* character boundary and passes over no occurrence, and Done comes when the *)
(* haystack is used up.  In particular what memory says has been compared is *)
(* still so when a reject moved the position on to a character boundary.     *)
FindsOccurrences ==
    LET r == answer.r
        near == IF back THEN Max(Ahead) ELSE Min(Ahead)
        start == IF back THEN r.b ELSE r.a
        stop == IF back THEN r.a ELSE r.b
    IN ended \/ answer.call = "none" \/
       CASE r.step = "Match" ->
                /\ Ahead # {} /\ r.a = near /\ r.b = near + Len(needle)
                /\ answer.call = "next" => start = before.from
         [] r.step = "Reject" ->
                /\ start = before.from /\ r.a < r.b /\ is_char_boundary(haystack, stop)
                /\ \A i \in Ahead : IF back THEN i + Len(needle) <= stop ELSE i >= stop
         [] r.step = "Done" ->
                /\ Ahead = {}
                /\ answer.call = "next" => before.from = IF back THEN 0 ELSE Len(haystack)

(* Exhausted stays exhausted: MatchIndices and Matches hand out what         *)
(* next_match returns, and are FusedIterators.                               *)
StaysExhausted == [][answer.call = "next_match" /\ answer.r = Done /\ answer'.call = "next_match" => answer'.r = Done]_vars
=============================================================================
