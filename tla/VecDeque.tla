------------------------------ MODULE VecDeque ------------------------------
(* alloc::collections::VecDeque: a sequence kept in a ring whose capacity is *)
(* a power of two and in which one slot is always left empty.  A call moves  *)
(* as few elements as it can, in blocks, and has a case for every way the    *)
(* elements may lie around the end of the buffer.                            *)
(*                                                                           *)
(* What a call does depends on the ring alone, and every position of tail    *)
(* and head can be reached with push_back and pop_front: Init is any ring    *)
(* with one of the capacities Caps, and a behaviour is one call.  Elements   *)
(* are numbered from 1; a slot that holds none is Gone.  items and wanted    *)
(* are what the call means for a sequence: the contents it leaves behind and *)
(* the elements it hands out or drops.                                       *)
EXTENDS Integers, SequencesExt

CONSTANTS Caps,     \* capacities of the ring, powers of two
          MaxExtra, \* bound: elements reserved for or added by one call
          MaxKept   \* bound: length up to which every outcome of retain is tried

VARIABLES ring,     \* the deque: its buffer mem of cap slots, tail and head
          items,    \* the contents it should have
          got,      \* what the call handed out or dropped
          wanted,   \* what it should have
          called

vars == <<ring, items, got, wanted, called>>

Gone == 0
MINIMUM_CAPACITY == 1

next_power_of_two(n) == Min({p \in {2^k : k \in 0..7} : p >= n})

len(r) == (r.head - r.tail) % r.cap
wrap_add(r, i, n) == (i + n) % r.cap
wrap_sub(r, i, n) == (i - n) % r.cap
is_full(r) == r.cap - len(r) = 1
is_contiguous(r) == r.tail <= r.head

Slice(r, from, n) == [i \in 1..n |-> r.mem[from + i - 1]]

(* as_slices: the elements up to the end of the buffer, and those wrapped    *)
(* round to its start.                                                       *)
FrontSlice(r) == IF is_contiguous(r) THEN Slice(r, r.tail, r.head - r.tail) ELSE Slice(r, r.tail, r.cap - r.tail)
BackSlice(r) == IF is_contiguous(r) THEN <<>> ELSE Slice(r, 0, r.head)

Contents(r) == [i \in 1..len(r) |-> r.mem[wrap_add(r, r.tail, i - 1)]]

buffer_write(r, i, x) == [r EXCEPT !.mem[i] = x]

(* Outside the buffer there is nothing to rely on: such a copy loses all.    *)
copy(r, dst, src, n) ==
    LET inside == n >= 0 /\ dst \in 0..r.cap - n /\ src \in 0..r.cap - n
        from(i) == IF i \in dst..dst + n - 1 THEN r.mem[src + i - dst] ELSE r.mem[i]
    IN  [r EXCEPT !.mem = [i \in DOMAIN @ |-> IF inside THEN from(i) ELSE Gone]]

(* Deviation of DstAfterSrc: the distance from src to dst is taken without   *)
(* wrapping.                                                                 *)
DstAfterSrcUnwrapped(r, dst, src, n) == dst - src \in 0..n - 1
DstAfterSrc(r, dst, src, n) == wrap_sub(r, dst, src) < n

(* Copies n elements between two stretches either of which may wrap, in the  *)
(* order that never overwrites what is still to be copied.                   *)
wrap_copy(r, dst, src, n) ==
    LET after == DstAfterSrc(r, dst, src, n)
        srcPre == r.cap - src
        dstPre == r.cap - dst
        srcWraps == srcPre < n
        dstWraps == dstPre < n
    IN  IF src = dst \/ n = 0 THEN r ELSE
        CASE ~srcWraps /\ ~dstWraps -> copy(r, dst, src, n)
          [] ~after /\ ~srcWraps /\ dstWraps ->
                copy(copy(r, dst, src, dstPre), 0, src + dstPre, n - dstPre)
          [] after /\ ~srcWraps /\ dstWraps ->
                copy(copy(r, 0, src + dstPre, n - dstPre), dst, src, dstPre)
          [] ~after /\ srcWraps /\ ~dstWraps ->
                copy(copy(r, dst, src, srcPre), dst + srcPre, 0, n - srcPre)
          [] after /\ srcWraps /\ ~dstWraps ->
                copy(copy(r, dst + srcPre, 0, n - srcPre), dst, src, srcPre)
          [] ~after /\ srcWraps /\ dstWraps ->
                LET delta == dstPre - srcPre
                IN  copy(copy(copy(r, dst, src, srcPre), dst + srcPre, 0, delta), 0, delta, n - dstPre)
          [] after /\ srcWraps /\ dstWraps ->
                LET delta == srcPre - dstPre
                IN  copy(copy(copy(r, delta, 0, n - srcPre), 0, r.cap - delta, delta), dst, src, dstPre)

-----------------------------------------------------------------------------
(* Capacity.                                                                 *)

(* RawVec grows or shrinks: the slots both buffers have stay.                *)
Realloc(r, cap) ==
    [r EXCEPT !.cap = cap, !.mem = [i \in 0..cap - 1 |-> IF i \in DOMAIN @ THEN @[i] ELSE Gone]]

handle_capacity_increase(r, old) ==
    LET tail == r.cap - (old - r.tail)
    IN  IF is_contiguous(r) THEN r
        ELSE IF r.head < old - r.tail THEN [copy(r, old, 0, r.head) EXCEPT !.head = @ + old]
        ELSE [copy(r, tail, r.tail, old - r.tail) EXCEPT !.tail = tail]

grow(r) == IF is_full(r) THEN handle_capacity_increase(Realloc(r, 2 * r.cap), r.cap) ELSE r

with_capacity(n) ==
    LET cap == next_power_of_two(Max({n, MINIMUM_CAPACITY}) + 1)
    IN  [cap |-> cap, tail |-> 0, head |-> 0, mem |-> [i \in 0..cap - 1 |-> Gone]]

reserve(r, n) ==
    LET cap == next_power_of_two(len(r) + 1 + n)
    IN  IF cap > r.cap THEN handle_capacity_increase(Realloc(r, cap), r.cap) ELSE r

shrink_to(r, n) ==
    LET target == next_power_of_two(Max({n, len(r), MINIMUM_CAPACITY}) + 1)
        out == r.head = 0 \/ r.head >= target
        wrapped == wrap_sub(r, r.head, target)
        tail == target - (r.cap - r.tail)
        moved == IF r.tail >= target /\ out
                 THEN [copy(r, 0, r.tail, len(r)) EXCEPT !.head = len(r), !.tail = 0]
                 ELSE IF r.tail # 0 /\ r.tail < target /\ out
                 THEN [copy(r, 0, target, wrapped) EXCEPT !.head = wrapped]
                 ELSE IF r.tail >= target
                 THEN [copy(r, tail, r.tail, r.cap - r.tail) EXCEPT !.tail = tail]
                 ELSE r
    IN  IF target < r.cap THEN Realloc(moved, target) ELSE r

-----------------------------------------------------------------------------
(* The two ends.                                                             *)

push_back(r0, x) ==
    LET r == grow(r0)
    IN  buffer_write([r EXCEPT !.head = wrap_add(r, @, 1)], r.head, x)

push_front(r0, x) ==
    LET r == grow(r0)
        tail == wrap_sub(r, r.tail, 1)
    IN  buffer_write([r EXCEPT !.tail = tail], tail, x)

(* A pop is the deque it leaves and the element, if there was one.           *)
pop_front(r) ==
    IF len(r) = 0 THEN <<r, <<>>>>
    ELSE <<[r EXCEPT !.tail = wrap_add(r, @, 1)], <<r.mem[r.tail]>>>>

pop_back(r) ==
    LET head == wrap_sub(r, r.head, 1)
    IN  IF len(r) = 0 THEN <<r, <<>>>> ELSE <<[r EXCEPT !.head = head], <<r.mem[head]>>>>

(* extend reserves for all that is still to come when it finds no room.      *)
RECURSIVE extend(_, _)
extend(r0, xs) ==
    IF xs = <<>> THEN r0
    ELSE LET r == IF is_full(r0) THEN reserve(r0, Len(xs)) ELSE r0
         IN  extend(buffer_write([r EXCEPT !.head = wrap_add(r, @, 1)], r.head, Head(xs)), Tail(xs))

-----------------------------------------------------------------------------
(* The middle.                                                               *)

swap(r, i, j) ==
    LET ri == wrap_add(r, r.tail, i)
        rj == wrap_add(r, r.tail, j)
    IN  [r EXCEPT !.mem[ri] = r.mem[rj], !.mem[rj] = r.mem[ri]]

swap_remove_front(r, i) ==
    IF i >= len(r) THEN <<r, <<>>>> ELSE pop_front(IF i # 0 THEN swap(r, i, 0) ELSE r)

swap_remove_back(r, i) ==
    IF i >= len(r) THEN <<r, <<>>>> ELSE pop_back(IF i < len(r) - 1 THEN swap(r, i, len(r) - 1) ELSE r)

(* Makes room at index on the side with fewer elements.                      *)
OpenGap(r, index) ==
    LET idx == wrap_add(r, r.tail, index)
        contiguous == is_contiguous(r)
        nearTail == index <= len(r) - index
        inTail == idx >= r.tail
        before == wrap_sub(r, r.tail, 1)
        wrapFirst(s) == copy(copy(s, s.tail - 1, s.tail, s.cap - s.tail), s.cap - 1, 0, 1)
    IN  CASE contiguous /\ nearTail /\ index = 0 -> [r EXCEPT !.tail = before]
          [] contiguous /\ nearTail /\ index # 0 ->
                [copy(copy(r, before, r.tail, 1), r.tail, r.tail + 1, index - 1) EXCEPT !.tail = before]
          [] contiguous /\ ~nearTail ->
                [copy(r, idx + 1, idx, r.head - idx) EXCEPT !.head = wrap_add(r, @, 1)]
          [] ~contiguous /\ nearTail /\ inTail ->
                [copy(r, r.tail - 1, r.tail, index) EXCEPT !.tail = @ - 1]
          [] ~contiguous /\ ~nearTail /\ inTail ->
                LET last == copy(copy(r, 1, 0, r.head), 0, r.cap - 1, 1)
                IN  [copy(last, idx + 1, idx, r.cap - 1 - idx) EXCEPT !.head = @ + 1]
          [] ~contiguous /\ nearTail /\ ~inTail /\ idx = 0 -> [wrapFirst(r) EXCEPT !.tail = @ - 1]
          [] ~contiguous /\ nearTail /\ ~inTail /\ idx # 0 ->
                [copy(wrapFirst(r), 0, 1, idx - 1) EXCEPT !.tail = @ - 1]
          [] ~contiguous /\ ~nearTail /\ ~inTail ->
                [copy(r, idx + 1, idx, r.head - idx) EXCEPT !.head = @ + 1]

insert(r, index, x) ==
    LET opened == OpenGap(grow(r), index)
    IN  buffer_write(opened, wrap_add(opened, opened.tail, index), x)

(* Closes the gap at index from the side with fewer elements.                *)
CloseGap(r, index) ==
    LET idx == wrap_add(r, r.tail, index)
        contiguous == is_contiguous(r)
        nearTail == index <= len(r) - index
        inTail == idx >= r.tail
    IN  CASE contiguous /\ nearTail -> [copy(r, r.tail + 1, r.tail, index) EXCEPT !.tail = @ + 1]
          [] ~nearTail /\ (contiguous \/ ~inTail) ->
                [copy(r, idx, idx + 1, r.head - idx - 1) EXCEPT !.head = @ - 1]
          [] ~contiguous /\ nearTail /\ inTail ->
                [copy(r, r.tail + 1, r.tail, index) EXCEPT !.tail = wrap_add(r, @, 1)]
          [] ~contiguous /\ ~nearTail /\ inTail ->
                LET s == copy(r, idx, idx + 1, r.cap - idx - 1)
                    t == IF r.head # 0 THEN copy(copy(s, r.cap - 1, 0, 1), 0, 1, r.head - 1) ELSE s
                IN  [t EXCEPT !.head = wrap_sub(r, @, 1)]
          [] ~contiguous /\ nearTail /\ ~inTail ->
                LET s == copy(copy(r, 1, 0, idx), 0, r.cap - 1, 1)
                IN  [copy(s, r.tail + 1, r.tail, r.cap - r.tail - 1) EXCEPT !.tail = wrap_add(r, @, 1)]

remove(r, index) ==
    IF len(r) <= index THEN <<r, <<>>>>
    ELSE <<CloseGap(r, index), <<r.mem[wrap_add(r, r.tail, index)]>>>>

-----------------------------------------------------------------------------
(* Many elements at once.                                                    *)

(* The deque cut to n elements, and the elements dropped.                    *)
truncate(r, n) ==
    LET front == FrontSlice(r)
        back == BackSlice(r)
        cut == [r EXCEPT !.head = wrap_sub(r, @, len(r) - n)]
    IN  IF n > len(r) THEN <<r, <<>>>>
        ELSE IF n > Len(front) THEN <<cut, SubSeq(back, n - Len(front) + 1, Len(back))>>
        ELSE <<cut, SubSeq(front, n + 1, Len(front)) \o back>>

(* While a Drain exists the deque ends where the drained range starts.       *)
DrainFrom(r, start) == [r EXCEPT !.head = wrap_add(r, r.tail, start)]

(* Drop of Drain: the shorter of the two remaining stretches is moved up to  *)
(* the other.  r is the deque as DrainFrom left it.                          *)
DropDrain(r, drainHead, origHead) ==
    LET tailLen == (r.head - r.tail) % r.cap
        headLen == (origHead - drainHead) % r.cap
        tail == wrap_sub(r, drainHead, tailLen)
    IN  CASE tailLen = 0 /\ headLen = 0 -> [r EXCEPT !.head = 0, !.tail = 0]
          [] tailLen = 0 /\ headLen # 0 -> [r EXCEPT !.head = origHead, !.tail = drainHead]
          [] tailLen # 0 /\ headLen = 0 -> r
          [] tailLen # 0 /\ headLen # 0 /\ tailLen <= headLen ->
                [wrap_copy(r, tail, r.tail, tailLen) EXCEPT !.tail = tail, !.head = origHead]
          [] tailLen # 0 /\ headLen # 0 /\ tailLen > headLen ->
                [wrap_copy(r, r.head, drainHead, headLen) EXCEPT !.head = wrap_add(r, @, headLen)]

drain(r, start, end) ==
    LET drainHead == wrap_add(r, r.tail, end)
        range == [i \in 1..end - start |-> r.mem[wrap_add(r, r.tail, start + i - 1)]]
    IN  <<DropDrain(DrainFrom(r, start), drainHead, r.head), range>>

(* Writes the elements xs into a fresh buffer from its first slot.           *)
Filled(r, xs) == [r EXCEPT !.mem = [i \in DOMAIN @ |-> IF i < Len(xs) THEN xs[i + 1] ELSE @[i]]]

(* The deque cut at position at, and a new one with the rest.                *)
split_off(r, at) ==
    LET front == FrontSlice(r)
        back == BackSlice(r)
        rest == len(r) - at
        other == with_capacity(rest)
        taken == IF at < Len(front) THEN SubSeq(front, at + 1, Len(front)) \o back
                 ELSE SubSeq(back, at - Len(front) + 1, Len(back))
    IN  <<[r EXCEPT !.head = wrap_sub(r, @, rest)], [Filled(other, taken) EXCEPT !.head = rest % other.cap]>>

(* Elements to keep are swapped towards the front, past those to delete.     *)
retain(r, keep) ==
    LET step(s, i) == IF s.r.mem[wrap_add(s.r, s.r.tail, i)] \notin keep THEN [s EXCEPT !.del = @ + 1]
                      ELSE IF s.del > 0 THEN [s EXCEPT !.r = swap(s.r, i - s.del, i)]
                      ELSE s
        end == FoldLeft(step, [r |-> r, del |-> 0], [i \in 1..len(r) |-> i - 1])
    IN  IF end.del > 0 THEN truncate(end.r, len(r) - end.del) ELSE <<r, <<>>>>

resize_with(r, n, xs) ==
    IF n > len(r) THEN <<extend(r, SubSeq(xs, 1, n - len(r))), <<>>>> ELSE truncate(r, n)

(* The swaps of make_contiguous: each pass swaps the elements between the    *)
(* edges with those from the right edge on, over and over.                   *)
RECURSIVE SwapPasses(_, _, _)
SwapPasses(r, left, right) ==
    LET swapOne(m, i) == LET src == right + ((i - left) % (r.cap - right))
                         IN  [m EXCEPT ![i] = m[src], ![src] = m[i]]
        pass == [r EXCEPT !.mem = FoldLeft(swapOne, @, [k \in 1..right - left |-> left + k - 1])]
        offset == IF left < right THEN (right - 1 - left) % (r.cap - right) ELSE 0
    IN  IF left < len(r) /\ right # r.cap THEN SwapPasses(pass, right, right + offset + 1) ELSE r

make_contiguous(r) ==
    LET free == r.tail - r.head
        tailLen == r.cap - r.tail
    IN  CASE is_contiguous(r) -> r
          [] ~is_contiguous(r) /\ free >= tailLen ->
                [copy(copy(r, tailLen, 0, r.head), 0, r.tail, tailLen) EXCEPT !.tail = 0, !.head = len(r)]
          [] ~is_contiguous(r) /\ free < tailLen /\ free > r.head ->
                [copy(copy(r, r.head, r.tail, tailLen), r.head + tailLen, 0, r.head)
                    EXCEPT !.tail = r.head, !.head = wrap_add(r, r.head, len(r))]
          [] ~is_contiguous(r) /\ free < tailLen /\ free <= r.head ->
                [SwapPasses(r, 0, r.tail) EXCEPT !.tail = 0, !.head = len(r)]

rotate_left_inner(r, mid) ==
    [wrap_copy(r, r.head, r.tail, mid) EXCEPT !.head = wrap_add(r, @, mid), !.tail = wrap_add(r, @, mid)]

rotate_right_inner(r, k) ==
    LET s == [r EXCEPT !.head = wrap_sub(r, @, k), !.tail = wrap_sub(r, @, k)]
    IN  wrap_copy(s, s.tail, s.head, k)

rotate_left(r, mid) ==
    LET k == len(r) - mid IN IF mid <= k THEN rotate_left_inner(r, mid) ELSE rotate_right_inner(r, k)

rotate_right(r, k) ==
    LET mid == len(r) - k IN IF k <= mid THEN rotate_right_inner(r, k) ELSE rotate_left_inner(r, mid)

(* From<Vec>: the vector's buffer, enlarged when it is not a ring's.         *)
from_vec(xs, cap) ==
    LET fits == cap \in {2^k : k \in 0..7} /\ cap >= MINIMUM_CAPACITY + 1 /\ cap # Len(xs)
        size == IF fits THEN cap ELSE next_power_of_two(Max({cap, MINIMUM_CAPACITY}) + 1)
    IN  Filled([cap |-> size, tail |-> 0, head |-> Len(xs), mem |-> [i \in 0..size - 1 |-> Gone]], xs)

(* Into<Vec>: the elements at the start of the buffer.                       *)
into_vec(r) ==
    LET s == make_contiguous(r)
    IN  Slice(IF s.tail # 0 THEN copy(s, 0, s.tail, len(s)) ELSE s, 0, len(s))

-----------------------------------------------------------------------------
(* A call: the deque r it leaves and what it gives out, against the contents *)
(* xs and the elements ys that the same operation on a sequence has.         *)
Call(r, out, xs, ys) ==
    /\ ~called /\ called' = TRUE
    /\ ring' = r /\ got' = out
    /\ items' = xs /\ wanted' = ys

Size == Len(items)

(* The elements of xs from position m to n that there are.                   *)
Part(xs, m, n) == SubSeq(xs, Max({m, 1}), Min({n, Len(xs)}))

Added(n) == [i \in 1..n |-> Size + i]

Init ==
    /\ \E cap \in Caps : \E tail, head \in 0..cap - 1 :
          LET n == (head - tail) % cap
              mem == [i \in 0..cap - 1 |-> IF (i - tail) % cap < n THEN ((i - tail) % cap) + 1 ELSE Gone]
          IN  /\ ring = [cap |-> cap, tail |-> tail, head |-> head, mem |-> mem]
              /\ items = [i \in 1..n |-> i]
    /\ got = <<>> /\ wanted = <<>> /\ called = FALSE

PushBack == Call(push_back(ring, Size + 1), <<>>, Append(items, Size + 1), <<>>)

PushFront == Call(push_front(ring, Size + 1), <<>>, <<Size + 1>> \o items, <<>>)

PopFront ==
    LET p == pop_front(ring) IN Call(p[1], p[2], Part(items, 2, Size), Part(items, 1, 1))

PopBack ==
    LET p == pop_back(ring) IN Call(p[1], p[2], Part(items, 1, Size - 1), Part(items, Size, Size))

Insert == \E i \in 0..Size : Call(insert(ring, i, Size + 1), <<>>, InsertAt(items, i + 1, Size + 1), <<>>)

RemoveOne ==
    \E i \in 0..Size :
        LET p == remove(ring, i)
        IN  Call(p[1], p[2], RemoveAt(items, i + 1), Part(items, i + 1, i + 1))

SwapRemoveFront ==
    \E i \in 0..Size :
        LET p == swap_remove_front(ring, i)
            xs == IF i < Size THEN Tail([items EXCEPT ![i + 1] = items[1]]) ELSE items
        IN  Call(p[1], p[2], xs, Part(items, i + 1, i + 1))

SwapRemoveBack ==
    \E i \in 0..Size :
        LET p == swap_remove_back(ring, i)
            xs == IF i < Size THEN Part([items EXCEPT ![i + 1] = items[Size]], 1, Size - 1) ELSE items
        IN  Call(p[1], p[2], xs, Part(items, i + 1, i + 1))

Reserve == \E n \in 0..MaxExtra : Call(reserve(ring, n), <<>>, items, <<>>)

(* shrink_to panics when asked for more than the capacity.                   *)
ShrinkTo == \E n \in 0..ring.cap - 1 : Call(shrink_to(ring, n), <<>>, items, <<>>)

Truncate ==
    \E n \in 0..Size + 1 :
        LET p == truncate(ring, n) IN Call(p[1], p[2], Part(items, 1, n), Part(items, n + 1, Size))

(* append is extend with the other deque's drain.                            *)
Extend == \E n \in 0..MaxExtra : Call(extend(ring, Added(n)), <<>>, items \o Added(n), <<>>)

ResizeWith ==
    \E n \in 0..Size + MaxExtra :
        LET p == resize_with(ring, n, Added(MaxExtra))
        IN  Call(p[1], p[2], Part(items \o Added(MaxExtra), 1, n), Part(items, n + 1, Size))

DrainRange ==
    \E start \in 0..Size : \E end \in start..Size :
        LET p == drain(ring, start, end)
        IN  Call(p[1], p[2], Part(items, 1, start) \o Part(items, end + 1, Size), Part(items, start + 1, end))

(* The Drain is leaked: the deque keeps what comes before the range.         *)
DrainForgotten == \E start \in 0..Size : Call(DrainFrom(ring, start), <<>>, Part(items, 1, start), <<>>)

SplitOff ==
    \E at \in 0..Size :
        LET p == split_off(ring, at)
        IN  Call(p[1], Contents(p[2]), Part(items, 1, at), Part(items, at + 1, Size))

(* The elements dropped may be dropped in any order, each of them once.      *)
Retain ==
    /\ Size <= MaxKept
    /\ \E keep \in SUBSET ToSet(items) :
          LET p == retain(ring, keep)
              dropped == ToSet(items) \ keep
          IN  Call(p[1], <<Len(p[2]), ToSet(p[2])>>, SelectSeq(items, LAMBDA x : x \in keep),
                   <<Cardinality(dropped), dropped>>)

MakeContiguous ==
    LET r == make_contiguous(ring) IN Call(r, FrontSlice(r), items, items)

RotateLeft ==
    \E n \in 0..Size : Call(rotate_left(ring, n), <<>>, Part(items, n + 1, Size) \o Part(items, 1, n), <<>>)

RotateRight ==
    \E n \in 0..Size :
        Call(rotate_right(ring, n), <<>>, Part(items, Size - n + 1, Size) \o Part(items, 1, Size - n), <<>>)

(* The conversions consume the deque, or the vector: a new deque follows.    *)
FromVec == \E cap \in Size..ring.cap + 1 : Call(from_vec(items, cap), <<>>, items, <<>>)

IntoVec == Call(with_capacity(0), into_vec(ring), <<>>, items)

Next ==
    \/ PushBack \/ PushFront \/ PopFront \/ PopBack
    \/ Insert \/ RemoveOne \/ SwapRemoveFront \/ SwapRemoveBack
    \/ Reserve \/ ShrinkTo \/ Truncate \/ Extend \/ ResizeWith
    \/ DrainRange \/ DrainForgotten \/ SplitOff \/ Retain
    \/ MakeContiguous \/ RotateLeft \/ RotateRight \/ FromVec \/ IntoVec

-----------------------------------------------------------------------------
(* Wherever the elements lie in the ring, every call leaves the contents     *)
(* that the same operation on a sequence has, hands out or drops the same    *)
(* elements, each once, and keeps the ring well formed: a capacity that is a *)
(* power of two with tail and head inside it.                                *)
ActsAsSequence ==
    /\ Contents(ring) = items
    /\ got = wanted
    /\ ring.cap \in {2^k : k \in 1..7} /\ DOMAIN ring.mem = 0..ring.cap - 1
    /\ ring.tail \in 0..ring.cap - 1 /\ ring.head \in 0..ring.cap - 1
=============================================================================
