------------------------------ MODULE StrIter ------------------------------
(* core/src/str/iter.rs and the methods of core/src/str/mod.rs that cut a    *)
(* string at a &str pattern: the iterators over the pieces and the matches,  *)
(* find, split_once and the trims, on top of the searcher of StrPattern.     *)
(* Each is run to its end, on every small string and pattern; a piece is the *)
(* pair of its ends.                                                         *)
EXTENDS StrPattern, SequencesExt

CONSTANTS MaxString, MaxPattern,   \* the longest strings, in bytes
          MaxPieces                \* the largest count given to splitn

VARIABLES input, got, wanted, called

None == <<>>

(* SplitInternal as split makes it.                                          *)
NewSplit(h, x, allow_trailing_empty) ==
    [start |-> 0, end |-> Len(h), matcher |-> NewSearcher(h, x),
     allow_trailing_empty |-> allow_trailing_empty, finished |-> FALSE]

Yields(it, piece) == [it |-> it, piece |-> piece]
Finished(it) == [it EXCEPT !.finished = TRUE]

(* Deviation of get_end: the empty piece behind the last match is yielded.   *)
GetEndAlways(it) ==
    IF ~it.finished THEN Yields(Finished(it), <<it.start, it.end>>) ELSE Yields(it, None)

get_end(it) ==
    IF ~it.finished /\ (it.allow_trailing_empty \/ it.end - it.start > 0)
    THEN Yields(Finished(it), <<it.start, it.end>>)
    ELSE Yields(it, None)

split_next(h, x, it) ==
    LET Cut(c) == IF c.r = Done THEN get_end([it EXCEPT !.matcher = c.s])
                  ELSE Yields([it EXCEPT !.matcher = c.s, !.start = c.r.b], <<it.start, c.r.a>>)
    IN IF it.finished THEN Yields(it, None) ELSE Cut(next_match(h, x, it.matcher))

next_inclusive(h, x, it) ==
    LET Cut(c) == IF c.r = Done THEN get_end([it EXCEPT !.matcher = c.s])
                  ELSE Yields([it EXCEPT !.matcher = c.s, !.start = c.r.b], <<it.start, c.r.b>>)
    IN IF it.finished THEN Yields(it, None) ELSE Cut(next_match(h, x, it.matcher))

(* The part of next_back and next_back_inclusive behind the first test: the  *)
(* end goes back to the start or, if inclusive, the end of the match.        *)
PieceBack(h, x, it, inclusive) ==
    LET Cut(c) == IF c.r = Done THEN Yields(Finished([it EXCEPT !.matcher = c.s]), <<it.start, it.end>>)
                  ELSE Yields([it EXCEPT !.matcher = c.s, !.end = IF inclusive THEN c.r.b ELSE c.r.a],
                              <<c.r.b, it.end>>)
    IN Cut(next_match_back(h, x, it.matcher))

(* The first call from the back drops an empty last piece.                   *)
split_next_back(h, x, it, inclusive) ==
    LET Kept(last) == IF last.piece[1] # last.piece[2] THEN last
                      ELSE IF last.it.finished THEN Yields(last.it, None)
                      ELSE PieceBack(h, x, last.it, inclusive)
    IN IF it.finished THEN Yields(it, None)
       ELSE IF it.allow_trailing_empty THEN PieceBack(h, x, it, inclusive)
       ELSE Kept(PieceBack(h, x, [it EXCEPT !.allow_trailing_empty = TRUE], inclusive))

(* SplitNInternal: a SplitInternal and a count.                              *)
NextOfN(h, x, n, back) ==
    LET Counted(c) == Yields([iter |-> c.it, count |-> n.count - 1], c.piece)
    IN IF n.count = 0 THEN Yields(n, None)
       ELSE Counted(IF n.count = 1 THEN get_end(n.iter)
                    ELSE IF back THEN split_next_back(h, x, n.iter, FALSE) ELSE split_next(h, x, n.iter))

(* MatchIndicesInternal and MatchesInternal.                                 *)
NextMatch(h, x, s, back) ==
    LET Ends(c) == Yields(c.s, IF c.r = Done THEN None ELSE <<c.r.a, c.r.b>>)
    IN Ends(IF back THEN next_match_back(h, x, s) ELSE next_match(h, x, s))

-----------------------------------------------------------------------------
NextPiece(how, h, x, it) ==
    CASE how \in {"split", "split_terminator"} -> split_next(h, x, it)
      [] how = "split_inclusive" -> next_inclusive(h, x, it)
      [] how \in {"rsplit", "rsplit_terminator", "split_inclusive_rev"} ->
             split_next_back(h, x, it, how = "split_inclusive_rev")
      [] how \in {"splitn", "rsplitn"} -> NextOfN(h, x, it, how = "rsplitn")
      [] how \in {"matches", "rmatches"} -> NextMatch(h, x, it, how = "rmatches")

(* What the iterator yields before its first None.                           *)
RECURSIVE Collect(_, _, _, _)
Collect(how, h, x, it) ==
    LET On(c) == IF c.piece = None THEN <<>> ELSE <<c.piece>> \o Collect(how, h, x, c.it)
    IN On(NextPiece(how, h, x, it))

(* find and, from the back, rfind.                                           *)
find(h, x, back) == NextMatch(h, x, NewSearcher(h, x), back).piece

split_once(h, m) == IF m = None THEN None ELSE <<<<0, m[1]>>, <<m[2], Len(h)>>>>

trim_start_matches(h, x) ==
    LET r == next_reject(h, x, NewSearcher(h, x)).r
    IN <<IF r = Done THEN Len(h) ELSE r.a, Len(h)>>

trim_end_matches(h, x) ==
    LET r == next_reject_back(h, x, NewSearcher(h, x)).r
    IN <<0, IF r = Done THEN 0 ELSE r.b>>

-----------------------------------------------------------------------------
(* The definitions: matches are taken greedily from one end, pieces are what *)
(* lies between them.                                                        *)
RECURSIVE Greedy(_, _, _)
Greedy(h, x, from) ==
    LET here == {i \in Occurrences(h, x) : i >= from}
        a == Min(here)
    IN IF here = {} THEN <<>>
       ELSE <<<<a, a + Len(x)>>>> \o Greedy(h, x, IF x = <<>> THEN a + 1 ELSE a + Len(x))

RECURSIVE GreedyBack(_, _, _)
GreedyBack(h, x, to) ==
    LET here == {i \in Occurrences(h, x) : i + Len(x) <= to}
        a == Max(here)
    IN IF here = {} THEN <<>>
       ELSE GreedyBack(h, x, IF x = <<>> THEN a - 1 ELSE a) \o <<<<a, a + Len(x)>>>>

(* The stretches between consecutive matches ms; with the match if inclusive. *)
Between(h, ms, inclusive) ==
    LET start(k) == IF k = 1 THEN 0 ELSE ms[k - 1][2]
        stop(k) == IF k > Len(ms) THEN Len(h) ELSE ms[k][IF inclusive THEN 2 ELSE 1]
    IN [k \in 1 .. Len(ms) + 1 |-> <<start(k), stop(k)>>]

DropEmptyLast(ps) == IF Last(ps)[1] = Last(ps)[2] THEN Front(ps) ELSE ps

(* At most n pieces, the last of which is the rest.                          *)
Limited(h, ps, n) ==
    IF n = 0 THEN <<>> ELSE IF n >= Len(ps) THEN ps
    ELSE SubSeq(ps, 1, n - 1) \o <<<<ps[n][1], Len(h)>>>>
LimitedBack(ps, n) ==
    IF n = 0 THEN <<>> ELSE IF n >= Len(ps) THEN Reverse(ps)
    ELSE Reverse(SubSeq(ps, Len(ps) - n + 2, Len(ps))) \o <<<<0, ps[Len(ps) - n + 1][2]>>>>

(* Whole copies of x off the front, or the back, of the string.              *)
RECURSIVE TrimmedTo(_, _, _)
TrimmedTo(h, x, i) ==
    IF x # <<>> /\ i \in Occurrences(h, x) THEN TrimmedTo(h, x, i + Len(x)) ELSE i
RECURSIVE TrimmedFrom(_, _, _)
TrimmedFrom(h, x, j) ==
    IF x # <<>> /\ (j - Len(x)) \in Occurrences(h, x) THEN TrimmedFrom(h, x, j - Len(x)) ELSE j

-----------------------------------------------------------------------------
Call(op, result, exact) ==
    /\ called' = TRUE
    /\ input' = op /\ got' = result /\ wanted' = exact

Init == input \in StringsOf(MaxString) /\ got = <<>> /\ wanted = <<>> /\ called = FALSE

Splits == {"split", "split_terminator", "split_inclusive", "rsplit", "rsplit_terminator", "split_inclusive_rev"}

Split ==
    /\ ~called
    /\ \E x \in StringsOf(MaxPattern) :
        LET h == input
            Expected(ms, back) ==
                [split |-> Between(h, ms, FALSE), split_terminator |-> DropEmptyLast(Between(h, ms, FALSE)),
                 split_inclusive |-> DropEmptyLast(Between(h, ms, TRUE)),
                 rsplit |-> Reverse(Between(h, back, FALSE)),
                 rsplit_terminator |-> Reverse(DropEmptyLast(Between(h, back, FALSE))),
                 split_inclusive_rev |-> Reverse(DropEmptyLast(Between(h, back, TRUE)))]
        IN Call(<<"split", h, x>>,
                [how \in Splits |-> Collect(how, h, x, NewSplit(h, x, how \in {"split", "rsplit"}))],
                Expected(Greedy(h, x, 0), GreedyBack(h, x, Len(h))))

SplitN ==
    /\ ~called
    /\ \E x \in StringsOf(MaxPattern), n \in 0 .. MaxPieces :
        LET h == input
        IN Call(<<"splitn", h, x, n>>,
                [how \in {"splitn", "rsplitn"} |->
                    Collect(how, h, x, [iter |-> NewSplit(h, x, TRUE), count |-> n])],
                [splitn |-> Limited(h, Between(h, Greedy(h, x, 0), FALSE), n),
                 rsplitn |-> LimitedBack(Between(h, GreedyBack(h, x, Len(h)), FALSE), n)])

Matches ==
    /\ ~called
    /\ \E x \in StringsOf(MaxPattern), back \in BOOLEAN :
        LET h == input
            Found(m) == <<m, split_once(h, m)>>
            First(ms) == IF ms = <<>> THEN <<None, None>>
                         ELSE IF back
                         THEN <<Last(ms), Reverse(LimitedBack(Between(h, ms, FALSE), 2))>>
                         ELSE <<Head(ms), Limited(h, Between(h, ms, FALSE), 2)>>
            Expected(ms) == <<IF back THEN Reverse(ms) ELSE ms, First(ms)>>
        IN Call(<<"matches", h, x, back>>,
                <<Collect(IF back THEN "rmatches" ELSE "matches", h, x, NewSearcher(h, x)),
                  Found(find(h, x, back))>>,
                Expected(IF back THEN GreedyBack(h, x, Len(h)) ELSE Greedy(h, x, 0)))

Trim ==
    /\ ~called
    /\ \E x \in StringsOf(MaxPattern) :
        Call(<<"trim", input, x>>, <<trim_start_matches(input, x), trim_end_matches(input, x)>>,
             <<<<TrimmedTo(input, x, 0), Len(input)>>, <<0, TrimmedFrom(input, x, Len(input))>>>>)

Next == Split \/ SplitN \/ Matches \/ Trim

(* Splitting, matching and trimming yield what their definitions say:        *)
(* greedy matches from the end the iteration starts at, the pieces between   *)
(* them, the last one dropped when a terminator ends the string.             *)
CutsAsDefined == got = wanted
=============================================================================
