----------------------------- MODULE SyncProofs -----------------------------
(* The inductive invariant of the bounded channel, for any finite set of     *)
(* senders, any set of addresses that the receiver's tokens can have and any *)
(* capacities.  ChannelsProofs draws the theorems from it.                   *)
EXTENDS Sync, FiniteSetTheorems, TLAPS

(* What the packet is made for: finitely many handles, one of them there at  *)
(* first, capacities that are numbers, and names that tell apart.            *)
Setting ==
    /\ IsFiniteSet(Senders) /\ First \in Senders /\ Caps \subseteq Nat
    /\ Senders \cap Tokens = {} /\ None \notin Senders \cup Tokens

SPC == {"idle", "lock", "queued", "blocked", "signal", "dropchan", "dropsignal", "gone"}
RPC == {"idle", "wait", "late", "signal", "dropsignal", "gone"}

(* Where the receiver is inside recv, and where it has left the port.        *)
Waiting == {"wait", "late"}
Leaving == {"dropsignal", "gone"}

Holds(q, s) == \E i \in 1 .. Len(q) : q[i] = s

-----------------------------------------------------------------------------
(* The buffer: as many slots as the capacity asks for, those of the messages *)
(* taken and the others free.  drop_port takes a buffer with a capacity away. *)
Slots == IF cap = 0 THEN 1 ELSE cap

Ring(b, st, sz, n) ==
    /\ b \in [0 .. n - 1 -> Senders \cup {None}] /\ st \in 0 .. n - 1 /\ sz \in 0 .. n
    /\ \A i \in 0 .. n - 1 : (b[(st + i) % n] # None) <=> (i < sz)

RingInv ==
    /\ cap \in Nat /\ size \in Nat
    /\ \/ Ring(buf, start, size, Slots)
       \/ buf = <<>> /\ cap # 0 /\ disconnected /\ rpc \in Leaving

Types ==
    /\ disconnected \in BOOLEAN /\ timed \in BOOLEAN
    /\ queue \in Seq(Senders) /\ pend \in Seq(Senders)
    /\ blocker \in Senders \cup Tokens \cup {None} /\ canceled \in Senders \cup {None}
    /\ flag \in [Senders -> BOOLEAN] /\ woken \in [Senders \cup Tokens -> BOOLEAN]
    /\ spc \in [Senders -> SPC] /\ sres \in [Senders -> {None, "Ok", "Err", "Full"}]
    /\ stok \in [Senders -> Tokens \cup {None}]
    /\ rpc \in RPC /\ rtok \in Tokens \cup {None}
    /\ rres \in {None, "Ok", "Empty", "Disconnected"}

(* The handles that `channels` counts; the one that drops the last of them   *)
(* disconnects.                                                              *)
Alive == {s \in Senders : spc[s] \notin {"gone", "dropchan", "dropsignal"}}

CountInv ==
    /\ channels = Cardinality(Alive)
    /\ \A s \in Senders : spc[s] = "dropchan" => Alive = {}

(* A sender in the queue sleeps; it is in `pend` or has been signalled once  *)
(* it is no longer there.  A token is owed one signal.                       *)
QueueInv ==
    /\ IsInjective(queue) /\ (disconnected => queue = <<>>)
    /\ \A s \in Senders : Holds(queue, s) => spc[s] = "queued" /\ ~woken[s]
    /\ \A s \in Senders : spc[s] = "queued" => Holds(queue, s) \/ Holds(pend, s) \/ woken[s]

PendInv ==
    /\ IsInjective(pend) /\ (pend # <<>> <=> rpc \in {"signal", "dropsignal"})
    /\ \A s \in Senders : Holds(pend, s) =>
          spc[s] \in {"queued", "blocked"} /\ ~woken[s] /\ ~Holds(queue, s) /\ blocker # s

(* A sender is the blocker while its rendezvous is open, the receiver while  *)
(* nothing has come.                                                         *)
BlockerInv ==
    /\ blocker \in Senders =>
          /\ cap = 0 /\ canceled = blocker /\ spc[blocker] = "blocked" /\ ~disconnected
          /\ size > 0 /\ buf[start] = blocker /\ ~flag[blocker] /\ ~woken[blocker]
    /\ canceled # None => blocker = canceled
    /\ blocker \in Tokens => 
          /\ rpc \in Waiting /\ rtok = blocker /\ size = 0 /\ ~disconnected
          /\ ~woken[blocker] /\ \A s \in Senders : stok[s] # blocker
    /\ rpc \in Waiting => rtok \in Tokens /\ blocker \in {rtok, None}
                          /\ (blocker = None => size > 0 \/ disconnected)
    /\ rpc = "late" => timed
    /\ \A s \in Senders : spc[s] \in {"signal", "dropsignal"} => stok[s] \in Tokens

(* The message of a rendezvous: its sender is the blocker, or was told to    *)
(* take it back, or handed it to a receiver that waits.                      *)
MessageInv ==
    /\ cap = 0 /\ size > 0 =>
          \/ blocker = buf[start]
          \/ rpc \in Leaving /\ spc[buf[start]] = "blocked" /\ flag[buf[start]]
          \/ rpc \in Waiting /\ spc[buf[start]] # "blocked"
    /\ \A s \in Senders : spc[s] = "blocked" =>
          /\ cap = 0
          /\ flag[s] => size > 0 /\ buf[start] = s /\ rpc \in Leaving /\ disconnected

(* The senders that look for a slot or are told of one.                      *)
Seeking == {s \in Senders : spc[s] = "lock" \/ (spc[s] = "queued" /\ ~Holds(queue, s))}

SlotInv == queue # <<>> => size + Cardinality(Seeking) >= Slots

IInv ==
    /\ Types /\ RingInv /\ CountInv /\ QueueInv /\ PendInv
    /\ BlockerInv /\ MessageInv /\ SlotInv

-----------------------------------------------------------------------------
(* The slot i places past x.                                                 *)
Past(x, i, n) == IF x + i < n THEN x + i ELSE x + i - n

(* Every index wraps around at most once.                                    *)
LEMMA Wraps ==
    ASSUME NEW n \in Nat \ {0}, NEW x \in 0 .. n - 1, NEW i \in 0 .. n
    PROVE  (x + i) % n = Past(x, i, n) /\ Past(x, i, n) \in 0 .. n - 1
<1>1. CASE x + i < n
    BY <1>1 DEF Past
<1>2. CASE x + i >= n
    BY <1>2 DEF Past
<1> QED
    BY <1>1, <1>2

(* Buffer::enqueue fills the next free slot, ...                             *)
LEMMA RingPut ==
    ASSUME NEW n \in Nat \ {0}, NEW b, NEW st, NEW sz, Ring(b, st, sz, n), sz < n,
           NEW m \in Senders, None \notin Senders
    PROVE  /\ (st + sz) % n \in 0 .. n - 1 /\ b[(st + sz) % n] = None
           /\ Ring([b EXCEPT ![(st + sz) % n] = m], st, sz + 1, n)
<1>1. st \in 0 .. n - 1 /\ sz \in 0 .. n - 1
    BY DEF Ring
<1>2. \A i \in 0 .. n - 1 : (st + i) % n = Past(st, i, n) /\ Past(st, i, n) \in 0 .. n - 1
    BY <1>1, Wraps
<1>3. \A i \in 0 .. n - 1 : i # sz => Past(st, i, n) # Past(st, sz, n)
    BY <1>1 DEF Past
<1> DEFINE k == Past(st, sz, n)
           b2 == [b EXCEPT ![k] = m]
<1>9. ~(sz < sz)
    BY <1>1
<1>4. k \in 0 .. n - 1 /\ (st + sz) % n = k /\ b[k] = None
    BY <1>1, <1>2, <1>9, Zenon DEF Ring
<1>5. b \in [0 .. n - 1 -> Senders \cup {None}] /\ b2 \in [0 .. n - 1 -> Senders \cup {None}]
    BY <1>4, Zenon DEF Ring
<1>6. ASSUME NEW i \in 0 .. n - 1 PROVE (b2[Past(st, i, n)] # None) <=> (i < sz + 1)
  <2>1. CASE i = sz
      BY <1>1, <1>4, <1>5, <2>1
  <2>2. CASE i # sz
    <3>1. b2[Past(st, i, n)] = b[Past(st, i, n)]
        BY <1>2, <1>3, <1>5, <2>2, Zenon
    <3>2. (b[Past(st, i, n)] # None) <=> (i < sz)
        BY <1>2, Zenon DEF Ring
    <3>3. (i < sz) <=> (i < sz + 1)
        BY <1>1, <2>2
    <3> QED
        BY <3>1, <3>2, <3>3, Zenon
  <2> QED
      BY <2>1, <2>2, Zenon
<1>7. sz + 1 \in 0 .. n
    BY <1>1
<1> HIDE DEF k, b2
<1>8. Ring(b2, st, sz + 1, n)
    BY <1>1, <1>2, <1>5, <1>6, <1>7, Zenon DEF Ring
<1> QED
    BY <1>4, <1>8, Zenon DEF b2

(* ... Buffer::dequeue empties the first one.                                *)
LEMMA RingGet ==
    ASSUME NEW n \in Nat \ {0}, NEW b, NEW st, NEW sz, Ring(b, st, sz, n), sz > 0
    PROVE  /\ b[st] \in Senders
           /\ Ring([b EXCEPT ![st] = None], (st + 1) % n, sz - 1, n)
<1> DEFINE next == Past(st, 1, n)
<1>1. st \in 0 .. n - 1 /\ sz \in 1 .. n
    BY DEF Ring
<1>2. \A i \in 0 .. n - 1 : (st + i) % n = Past(st, i, n) /\ Past(st, i, n) \in 0 .. n - 1
    BY <1>1, Wraps
<1>3. (st + 1) % n = next /\ next \in 0 .. n - 1
    BY <1>1, Wraps
<1>4. \A i \in 0 .. n - 1 : (next + i) % n = Past(next, i, n)
    BY <1>3, Wraps
<1>5. \A i \in 0 .. n - 1 : Past(next, i, n) = IF i = n - 1 THEN st ELSE Past(st, i + 1, n)
    BY <1>1 DEF Past
<1>6. \A i \in 0 .. n - 2 : Past(st, i + 1, n) # st
    BY <1>1 DEF Past
<1> DEFINE b2 == [b EXCEPT ![st] = None]
<1>7. b \in [0 .. n - 1 -> Senders \cup {None}] /\ b2 \in [0 .. n - 1 -> Senders \cup {None}]
    BY <1>1, Zenon DEF Ring
<1>8. 0 \in 0 .. n - 1 /\ Past(st, 0, n) = st /\ 0 < sz /\ sz - 1 \in 0 .. n
    BY <1>1 DEF Past
<1>9. b[st] \in Senders
    BY <1>1, <1>2, <1>7, <1>8, Zenon DEF Ring
<1>10. ASSUME NEW i \in 0 .. n - 1 PROVE (b2[Past(next, i, n)] # None) <=> (i < sz - 1)
  <2>1. CASE i = n - 1
      BY <1>1, <1>5, <1>7, <2>1
  <2>2. CASE i # n - 1
    <3>1. i \in 0 .. n - 2 /\ i + 1 \in 0 .. n - 1 /\ ((i + 1 < sz) <=> (i < sz - 1))
        BY <1>1, <2>2
    <3>2. b2[Past(next, i, n)] = b[Past(st, i + 1, n)]
        BY <1>2, <1>5, <1>6, <1>7, <2>2, <3>1, Zenon
    <3>3. (b[Past(st, i + 1, n)] # None) <=> (i + 1 < sz)
        BY <1>2, <3>1, Zenon DEF Ring
    <3> QED
        BY <3>1, <3>2, <3>3, Zenon
  <2> QED
      BY <2>1, <2>2, Zenon
<1> HIDE DEF next, b2
<1>11. Ring(b2, next, sz - 1, n)
    BY <1>3, <1>4, <1>7, <1>8, <1>10, Zenon DEF Ring
<1> QED
    BY <1>3, <1>9, <1>11, Zenon DEF b2

-----------------------------------------------------------------------------
(* Queues: what Append and Tail do to who is in them.                        *)
LEMMA EmptyQueue == \A x : ~Holds(<<>>, x) /\ IsInjective(<<>>)
    BY DEF Holds, IsInjective

(* Only the empty queue has length 0.                                        *)
LEMMA QueueLength ==
    ASSUME NEW A, NEW s \in Seq(A)
    PROVE  s = <<>> <=> Len(s) = 0
OBVIOUS

(* Append adds one sender at the end.                                        *)
LEMMA AppendQueue ==
    ASSUME NEW A, NEW s \in Seq(A), NEW x \in A
    PROVE  /\ \A y : Holds(Append(s, x), y) <=> Holds(s, y) \/ y = x
           /\ IsInjective(s) /\ ~Holds(s, x) => IsInjective(Append(s, x))
           /\ Append(s, x) \in Seq(A) /\ Append(s, x) # <<>>
<1>1. ASSUME NEW y PROVE Holds(Append(s, x), y) <=> Holds(s, y) \/ y = x
  <2>1. Holds(Append(s, x), y) => Holds(s, y) \/ y = x
      BY DEF Holds
  <2>2. Holds(s, y) => Holds(Append(s, x), y)
      BY DEF Holds
  <2>3. Append(s, x)[Len(s) + 1] = x /\ Len(s) + 1 \in 1 .. Len(Append(s, x))
      OBVIOUS
  <2> QED
      BY <2>1, <2>2, <2>3, Zenon DEF Holds
<1>2. IsInjective(s) /\ ~Holds(s, x) => IsInjective(Append(s, x))
    BY DEF Holds, IsInjective
<1>3. Append(s, x) \in Seq(A)
    OBVIOUS
<1>4. Append(s, x) # <<>>
    BY <1>1, EmptyQueue, Zenon
<1> QED
    BY <1>1, <1>2, <1>3, <1>4, Zenon

(* A queue of one.                                                           *)
LEMMA OneQueue ==
    ASSUME NEW A, NEW x \in A
    PROVE  <<x>> \in Seq(A) /\ IsInjective(<<x>>) /\ \A y : Holds(<<x>>, y) <=> y = x
BY DEF Holds, IsInjective

(* Tail takes the first sender away.                                         *)
LEMMA TailQueue ==
    ASSUME NEW A, NEW s \in Seq(A), s # <<>>
    PROVE  /\ Head(s) \in A /\ Holds(s, Head(s)) /\ Tail(s) \in Seq(A)
           /\ \A y : Holds(s, y) => y = Head(s) \/ Holds(Tail(s), y)
           /\ \A y : Holds(Tail(s), y) => Holds(s, y)
           /\ IsInjective(s) => IsInjective(Tail(s)) /\ ~Holds(Tail(s), Head(s))
<1>1. Len(s) \in Nat /\ Len(s) >= 1 /\ Head(s) = s[1]
    OBVIOUS
<1>2. Head(s) \in A /\ Tail(s) \in Seq(A) /\ Holds(s, Head(s))
    BY <1>1 DEF Holds
<1>3. /\ Len(Tail(s)) = Len(s) - 1
      /\ \A i \in 1 .. Len(s) - 1 : Tail(s)[i] = s[i + 1]
    BY <1>1
<1>4. ASSUME NEW y, Holds(s, y) PROVE y = Head(s) \/ Holds(Tail(s), y)
  <2>1. PICK i \in 1 .. Len(s) : s[i] = y
      BY <1>4, Zenon DEF Holds
  <2>2. i # 1 => i - 1 \in 1 .. Len(s) - 1 /\ Tail(s)[i - 1] = y
      BY <1>1, <1>3, <2>1
  <2> QED
      BY <1>1, <1>3, <2>1, <2>2, Zenon DEF Holds
<1>5. ASSUME NEW y, Holds(Tail(s), y) PROVE Holds(s, y)
  <2>1. PICK i \in 1 .. Len(s) - 1 : s[i + 1] = y
      BY <1>3, <1>5, Zenon DEF Holds
  <2> QED
      BY <1>1, <2>1 DEF Holds
<1>6. ASSUME IsInjective(s) PROVE IsInjective(Tail(s)) /\ ~Holds(Tail(s), Head(s))
    BY <1>1, <1>3, <1>6 DEF Holds, IsInjective
<1> QED
    BY <1>2, <1>4, <1>5, <1>6, Zenon

(* Such a list holds a thing once or not at all.                             *)

-----------------------------------------------------------------------------
(* Counting senders.                                                         *)
LEMMA Cards ==
    ASSUME Setting, NEW A \in SUBSET Senders
    PROVE  /\ Cardinality(A) \in Nat /\ (Cardinality(A) = 0 <=> A = {})
           /\ \A x \in Senders \ A : Cardinality(A \cup {x}) = Cardinality(A) + 1
           /\ \A x \in A : Cardinality(A \ {x}) = Cardinality(A) - 1
           /\ \A B \in SUBSET A : Cardinality(B) <= Cardinality(A)
<1>1. IsFiniteSet(A)
    BY FS_Subset, Zenon DEF Setting
<1> QED
    BY <1>1, FS_CardinalityType, FS_EmptySet, FS_AddElement, FS_RemoveElement, FS_Subset, Zenon

(* A buffer that is there has a slot for every unit of its length.           *)
LEMMA Length ==
    ASSUME cap \in Nat, Ring(buf, start, size, Slots)
    PROVE  BufLen = Slots /\ Slots \in Nat \ {0}
<1>1. Slots \in Nat \ {0}
    BY DEF Slots
<1>2. DOMAIN buf = 0 .. Slots - 1
    BY Zenon DEF Ring
<1>3. Cardinality(0 .. Slots - 1) = Slots
  <2>1. 0 \in Int /\ Slots - 1 \in Int /\ ~(0 > Slots - 1) /\ (Slots - 1) - 0 + 1 = Slots
      BY <1>1
  <2> QED
      BY <2>1, FS_Interval, Zenon
<1> QED
    BY <1>1, <1>2, <1>3, Zenon DEF BufLen
(* A message enters the buffer where it has room, ...                        *)
LEMMA Enqueued ==
    ASSUME Setting, RingInv, ~disconnected, HasRoom, NEW m \in Senders
    PROVE  /\ ~Overwrites /\ size < Slots /\ BufLen = Slots /\ (cap = 0 => size = 0)
           /\ Enqueue(m) /\ UNCHANGED <<cap, disconnected, rpc>> =>
                 /\ RingInv' /\ size' = size + 1 /\ size' > 0
                 /\ cap = 0 => buf'[start'] = m
<1>1. Ring(buf, start, size, Slots) /\ cap \in Nat
    BY Zenon DEF RingInv
<1>2. BufLen = Slots /\ Slots \in Nat \ {0} /\ size \in 0 .. Slots /\ start \in 0 .. Slots - 1
    BY <1>1, Length, Zenon DEF Ring
<1>3. size < Slots /\ (cap = 0 => size = 0 /\ start = 0 /\ Slots = 1)
    BY <1>2 DEF HasRoom, Slots
<1>4. None \notin Senders
    BY Zenon DEF Setting
<1>7. Slot = (start + size) % Slots
    BY <1>2, Zenon DEF Slot
<1>5. /\ Slot \in 0 .. Slots - 1 /\ buf[Slot] = None
      /\ Ring([buf EXCEPT ![Slot] = m], start, size + 1, Slots)
  <2> DEFINE k == (start + size) % Slots
  <2>1. k \in 0 .. Slots - 1 /\ buf[k] = None /\ Ring([buf EXCEPT ![k] = m], start, size + 1, Slots)
      BY <1>1, <1>2, <1>3, <1>4, RingPut, Zenon
  <2> QED
      BY <1>7, <2>1, Zenon
<1>6. ASSUME Enqueue(m), UNCHANGED <<cap, disconnected, rpc>>
      PROVE  RingInv' /\ size' = size + 1 /\ size' > 0 /\ (cap = 0 => buf'[start'] = m)
  <2>1. /\ buf' = [buf EXCEPT ![Slot] = m] /\ size' = size + 1 /\ start' = start
        /\ Slots' = Slots /\ cap' = cap
      BY <1>6, Zenon DEF Enqueue, Slots
  <2>2. size' \in Nat /\ size' > 0
      BY <1>2, <2>1
  <2>3. RingInv'
      BY <1>1, <1>5, <2>1, <2>2, Zenon DEF RingInv
  <2>4. cap = 0 => Slot = start
      BY <1>2, <1>3 DEF Slot
  <2>5. cap = 0 => buf'[start'] = m
      BY <1>1, <1>2, <2>1, <2>4, Zenon DEF Ring
  <2> QED
      BY <2>1, <2>2, <2>3, <2>5, Zenon
<1> QED
    BY <1>2, <1>3, <1>5, <1>6, Zenon DEF Overwrites

(* ... and leaves it where there is one.                                     *)
LEMMA Dequeued ==
    ASSUME RingInv, Ring(buf, start, size, Slots), size > 0
    PROVE  /\ buf[start] \in Senders /\ (cap = 0 => size = 1)
           /\ Dequeue /\ cap' = cap => RingInv' /\ size' = size - 1 /\ (cap = 0 => ~(size' > 0))
<1>1. cap \in Nat /\ size \in Nat
    BY Zenon DEF RingInv
<1>2. BufLen = Slots /\ Slots \in Nat \ {0} /\ size \in 0 .. Slots
    BY <1>1, Length, Zenon DEF Ring
<1>3. cap = 0 => size = 1
    BY <1>2 DEF Slots
<1>4. /\ buf[start] \in Senders
      /\ Ring([buf EXCEPT ![start] = None], (start + 1) % Slots, size - 1, Slots)
    BY <1>2, RingGet, Zenon
<1>5. ASSUME Dequeue, cap' = cap PROVE RingInv' /\ size' = size - 1 /\ (cap = 0 => ~(size' > 0))
  <2>1. /\ buf' = [buf EXCEPT ![start] = None] /\ start' = (start + 1) % Slots /\ size' = size - 1
        /\ Slots' = Slots /\ cap' = cap
      BY <1>2, <1>5, Zenon DEF Dequeue, Slots
  <2>2. size' \in Nat /\ (cap = 0 => ~(size' > 0))
      BY <1>1, <1>3, <2>1
  <2> QED
      BY <1>1, <1>4, <2>1, <2>2, Zenon DEF RingInv
<1> QED
    BY <1>3, <1>4, <1>5, Zenon
(* A rendezvous channel has one slot, and a sender's message in it.          *)
LEMMA OneSlot ==
    ASSUME RingInv, cap = 0
    PROVE  Ring(buf, start, size, Slots) /\ (size > 0 => buf[start] \in Senders)
BY Dequeued, Zenon DEF RingInv

-----------------------------------------------------------------------------
(* What a sender that goes somewhere else leaves as it was.                  *)
Elsewhere == <<ring, disconnected, cap, queue, blocker, canceled, flag, woken, stok, receiver>>

(* A sender that nobody has a token of goes on its way: the packet does not  *)
(* know about it.                                                            *)
LEMMA Walks ==
    ASSUME Setting, IInv, NEW s \in Senders, NEW at \in {"idle", "lock", "dropchan", "gone"},
           NEW r \in {None, "Ok", "Err", "Full"}, S(s, at, r), UNCHANGED Elsewhere,
           ~Holds(queue, s), ~Holds(pend, s), blocker # s, spc[s] = "blocked" => ~flag[s]
    PROVE  Types' /\ RingInv' /\ QueueInv' /\ PendInv' /\ BlockerInv' /\ MessageInv'
<1>1. /\ spc' = [spc EXCEPT ![s] = at] /\ sres' = [sres EXCEPT ![s] = r]
      /\ UNCHANGED <<buf, start, size, disconnected, cap, queue, blocker, canceled, flag, woken>>
      /\ UNCHANGED <<stok, rpc, rtok, timed, pend, rres>>
    BY Zenon DEF S, Elsewhere, ring, receiver
<1>2. spc \in [Senders -> SPC] /\ sres \in [Senders -> {None, "Ok", "Err", "Full"}] /\ at \in SPC
    BY Zenon DEF IInv, Types, SPC
<1>3. \A u \in Senders : spc'[u] = IF u = s THEN at ELSE spc[u]
    BY <1>1, <1>2, Zenon
<1>4. Types'
    BY <1>1, <1>2, Zenon DEF IInv, Types
<1>5. RingInv'
    BY <1>1, Zenon DEF IInv, RingInv, Slots
<1>6. QueueInv'
    BY <1>1, <1>3, Zenon DEF IInv, QueueInv
<1>7. PendInv'
    BY <1>1, <1>3, Zenon DEF IInv, PendInv
<1>8. BlockerInv'
    BY <1>1, <1>3, Zenon DEF IInv, BlockerInv
<1>9. MessageInv'
  <2>1. cap = 0 /\ size > 0 => buf[start] \in Senders
      BY OneSlot, Zenon DEF IInv
  <2> QED
      BY <1>1, <1>3, <2>1, Zenon DEF IInv, MessageInv
<1> QED
    BY <1>4, <1>5, <1>6, <1>7, <1>8, <1>9, Zenon

(* No handle comes or goes.                                                  *)
LEMMA SameHandles ==
    ASSUME IInv, NEW s \in Senders, NEW at \in {"idle", "lock", "queued", "blocked", "signal"},
           s \in Alive, spc' = [spc EXCEPT ![s] = at], channels' = channels
    PROVE  CountInv'
<1>1. \A u \in Senders : spc'[u] = IF u = s THEN at ELSE spc[u]
    BY Zenon DEF IInv, Types
<1>2. Alive' = Alive
    BY <1>1, Zenon DEF Alive
<1> QED
    BY <1>1, <1>2, Zenon DEF IInv, CountInv

(* No slot becomes free, and nobody stops looking for one.                   *)
LEMMA SameSlots ==
    ASSUME Setting, IInv, size' \in Nat, size' >= size, Seeking \subseteq Seeking', cap' = cap,
           queue' # <<>> => queue # <<>>
    PROVE  SlotInv'
<1>1. Cardinality(Seeking) \in Nat /\ Cardinality(Seeking') \in Nat
      /\ Cardinality(Seeking) <= Cardinality(Seeking')
  <2>1. Seeking \in SUBSET Senders /\ Seeking' \in SUBSET Senders
      BY Zenon DEF Seeking
  <2> QED
      BY <2>1, Cards, Zenon
<1>2. size \in Nat /\ Slots \in Nat /\ Slots' = Slots
    BY Zenon DEF IInv, RingInv, Slots
<1> QED
    BY <1>1, <1>2 DEF IInv, SlotInv
-----------------------------------------------------------------------------
(* A sender outside the queue, outside a rendezvous or past its wait is      *)
(* nobody's to wake.                                                         *)
LEMMA Forgotten ==
    ASSUME IInv, NEW s \in Senders, spc[s] \notin {"queued", "blocked"} \/ woken[s]
    PROVE  ~Holds(queue, s) /\ ~Holds(pend, s) /\ blocker # s
BY Zenon DEF IInv, QueueInv, PendInv, BlockerInv

(* The steps of a sender that change nothing but its place.                  *)
LEMMA StepAside ==
    ASSUME Setting, IInv, NEW s \in Senders,
           Send(s) \/ SlotFreed(s) \/ SendFails(s) \/ TrySendFails(s)
    PROVE  IInv'
<1>1. PICK at \in {"idle", "lock"}, r \in {None, "Ok", "Err", "Full"} :
        /\ S(s, at, r) /\ UNCHANGED Elsewhere /\ channels' = channels
        /\ at = "idle" => spc[s] = "idle" \/ disconnected
    BY Zenon DEF Send, SlotFreed, SendFails, TrySendFails, Elsewhere, state
<1>2. spc[s] \in {"idle", "lock"} \/ (spc[s] = "queued" /\ woken[s])
    BY Zenon DEF Send, SlotFreed, SendFails, TrySendFails
<1>3. ~Holds(queue, s) /\ ~Holds(pend, s) /\ blocker # s /\ spc[s] # "blocked" /\ s \in Alive
    BY <1>2, Forgotten, Zenon DEF Alive
<1>4. Types' /\ RingInv' /\ QueueInv' /\ PendInv' /\ BlockerInv' /\ MessageInv'
    BY <1>1, <1>3, Walks, Zenon
<1>5. /\ spc' = [spc EXCEPT ![s] = at] /\ spc \in [Senders -> SPC]
      /\ size' = size /\ size \in Nat /\ queue' = queue /\ cap' = cap
    BY <1>1, Zenon DEF S, Elsewhere, ring, IInv, Types, RingInv
<1>6. CountInv'
    BY <1>1, <1>3, <1>5, SameHandles, Zenon
<1>7. SlotInv'
  <2>1. CASE disconnected
      BY <1>5, <2>1, Zenon DEF IInv, QueueInv, SlotInv
  <2>2. CASE ~disconnected
    <3>1. Seeking \subseteq Seeking'
        BY <1>1, <1>3, <1>5, <2>2, Zenon DEF Seeking
    <3> QED
        BY <1>5, <3>1, SameSlots
  <2> QED
      BY <2>1, <2>2, Zenon
<1> QED
    BY <1>4, <1>6, <1>7, Zenon DEF IInv
(* A handle is cloned, or is dropped while others are left.                  *)
LEMMA HandlesChange ==
    ASSUME Setting, IInv, NEW s \in Senders, DropSender(s) \/ \E t \in Senders : Clone(s, t)
    PROVE  IInv'
<1>1. PICK t \in Senders, at \in {"idle", "dropchan", "gone"} :
        /\ S(t, at, None) /\ UNCHANGED Elsewhere /\ spc[s] = "idle"
        /\ \/ at = "idle" /\ spc[t] = "gone" /\ channels' = channels + 1
           \/ at # "idle" /\ t = s /\ channels' = channels - 1 /\ (at = "dropchan" => channels = 1)
    BY Zenon DEF Clone, DropSender, Elsewhere, state
<1>2. ~Holds(queue, t) /\ ~Holds(pend, t) /\ blocker # t /\ spc[t] \in {"idle", "gone"}
    BY <1>1, Forgotten, Zenon
<1>3. Types' /\ RingInv' /\ QueueInv' /\ PendInv' /\ BlockerInv' /\ MessageInv'
    BY <1>1, <1>2, Walks, Zenon
<1>4. /\ \A u \in Senders : spc'[u] = IF u = t THEN at ELSE spc[u]
      /\ size' = size /\ size \in Nat /\ queue' = queue /\ cap' = cap
    BY <1>1, Zenon DEF S, Elsewhere, ring, IInv, Types, RingInv
<1>5. Alive \in SUBSET Senders /\ s \in Alive /\ channels = Cardinality(Alive)
      /\ \A u \in Senders : spc[u] # "dropchan"
    BY <1>1, Zenon DEF Alive, IInv, CountInv
<1>6. CountInv'
  <2>1. CASE at = "idle"
    <3>1. Alive' = Alive \cup {t} /\ t \notin Alive
        BY <1>1, <1>4, <2>1, Zenon DEF Alive
    <3> QED
        BY <1>1, <1>4, <1>5, <2>1, <3>1, Cards, Zenon DEF CountInv
  <2>2. CASE at # "idle"
    <3>1. Alive' = Alive \ {t} /\ t \in Alive
        BY <1>1, <1>4, <2>2, Zenon DEF Alive
    <3>2. channels' = Cardinality(Alive')
        BY <1>1, <1>5, <2>2, <3>1, Cards, Zenon
    <3>3. at = "dropchan" => Cardinality(Alive') = 0
        BY <1>1, <2>2, <3>2
    <3>4. Cardinality(Alive') = 0 => Alive' = {}
        BY <1>5, <3>1, Cards, Zenon
    <3> QED
        BY <1>1, <1>4, <1>5, <3>2, <3>3, <3>4, Zenon DEF CountInv
  <2> QED
      BY <2>1, <2>2, Zenon
<1>7. Seeking \subseteq Seeking'
    BY <1>2, <1>4, Zenon DEF Seeking
<1>8. SlotInv'
    BY <1>4, <1>7, SameSlots
<1> QED
    BY <1>3, <1>6, <1>8, Zenon DEF IInv

(* The last handle disconnects, when no other sender is left to wait.        *)
LEMMA Disconnects ==
    ASSUME Setting, IInv, NEW s \in Senders, DropChan(s)
    PROVE  IInv'
<1>1. spc[s] = "dropchan" /\ \A u \in Senders : spc[u] \in {"gone", "dropchan", "dropsignal"}
    BY Zenon DEF DropChan, IInv, CountInv, Alive
<1>2. queue = <<>> /\ blocker \notin Senders /\ canceled = None
  <2>1. queue = <<>>
      BY <1>1, TailQueue, Zenon DEF IInv, Types, QueueInv
  <2> QED
      BY <1>1, <2>1, Zenon DEF IInv, Types, BlockerInv
<1>3. ~Holds(queue, s) /\ ~Holds(pend, s) /\ blocker # s
    BY <1>1, Forgotten, Zenon
<1>4. /\ UNCHANGED <<buf, start, size, channels, cap, queue, canceled, flag, woken>>
      /\ UNCHANGED <<rpc, rtok, timed, pend, rres>>
    BY Zenon DEF DropChan, ring, receiver
<1>5. CASE disconnected
  <2>1. S(s, "gone", None) /\ UNCHANGED Elsewhere
      BY <1>4, <1>5, Zenon DEF DropChan, Elsewhere, ring, receiver
  <2>2. Types' /\ RingInv' /\ QueueInv' /\ PendInv' /\ BlockerInv' /\ MessageInv'
      BY <1>1, <1>3, <2>1, Walks, Zenon
  <2>3. \A u \in Senders : spc'[u] = IF u = s THEN "gone" ELSE spc[u]
      BY <2>1, Zenon DEF S, IInv, Types
  <2>4. Alive' = {} /\ Alive = {}
      BY <1>1, <2>3, Zenon DEF Alive
  <2>5. CountInv' /\ SlotInv'
      BY <1>2, <1>4, <2>3, <2>4, Zenon DEF IInv, CountInv, SlotInv
  <2> QED
      BY <2>2, <2>5, Zenon DEF IInv
<1>6. CASE ~disconnected
  <2> DEFINE at == IF blocker = None THEN "gone" ELSE "dropsignal"
  <2>1. /\ disconnected' = TRUE /\ blocker' = None /\ stok' = [stok EXCEPT ![s] = blocker]
        /\ spc' = [spc EXCEPT ![s] = at] /\ sres' = [sres EXCEPT ![s] = None]
      BY <1>2, <1>6, Zenon DEF DropChan, ToWake, S
  <2>2. /\ \A u \in Senders : spc'[u] = IF u = s THEN at ELSE spc[u]
        /\ \A u \in Senders : stok'[u] = IF u = s THEN blocker ELSE stok[u]
        /\ at \in {"gone", "dropsignal"} /\ (at = "dropsignal" => blocker \in Tokens)
        /\ blocker \in Tokens \cup {None}
      BY <1>2, <2>1, Zenon DEF IInv, Types
  <2> HIDE DEF at
  <2>3. Types'
      BY <1>4, <2>1, <2>2, Zenon DEF IInv, Types, SPC
  <2>4. RingInv'
      BY <1>4, <2>1, Zenon DEF IInv, RingInv, Slots
  <2>5. CountInv'
    <3>1. Alive' = {} /\ Alive = {}
        BY <1>1, <2>2, Zenon DEF Alive
    <3> QED
        BY <1>4, <2>2, <3>1, Zenon DEF IInv, CountInv
  <2>6. QueueInv'
      BY <1>1, <1>2, <1>3, <1>4, <2>2, Zenon DEF IInv, QueueInv
  <2>7. PendInv'
      BY <1>3, <1>4, <2>1, <2>2, Zenon DEF IInv, PendInv, Setting
  <2>8. BlockerInv'
      BY <1>1, <1>2, <1>4, <2>1, <2>2, Zenon DEF IInv, BlockerInv, Setting
  <2>9. MessageInv'
    <3>1. cap = 0 /\ size > 0 => buf[start] \in Senders
        BY OneSlot, Zenon DEF IInv
    <3>2. \A u \in Senders : spc'[u] # "blocked" /\ spc[u] # "blocked"
        BY <1>1, <2>2, Zenon
    <3>3. cap = 0 /\ size > 0 => rpc \in Waiting
        BY <1>2, <3>1, <3>2, Zenon DEF IInv, MessageInv
    <3> QED
        BY <1>4, <3>1, <3>2, <3>3, Zenon DEF MessageInv
  <2>10. SlotInv'
      BY <1>2, <1>4, Zenon DEF SlotInv
  <2> QED
      BY <2>3, <2>4, <2>5, <2>6, <2>7, <2>8, <2>9, <2>10, Zenon DEF IInv
<1> QED
    BY <1>5, <1>6, Zenon
-----------------------------------------------------------------------------
(* A sender that takes a slot no longer looks for one.                       *)
LEMMA SlotTaken ==
    ASSUME Setting, IInv, NEW s \in Senders, size' = size + 1, Seeking \ {s} \subseteq Seeking',
           cap' = cap, queue' = queue
    PROVE  SlotInv'
<1>1. Seeking \in SUBSET Senders /\ Seeking' \in SUBSET Senders /\ Seeking \ {s} \in SUBSET Seeking'
      /\ (s \notin Seeking => Seeking \ {s} = Seeking)
    BY Zenon DEF Seeking
<1>2. Cardinality(Seeking) \in Nat /\ Cardinality(Seeking') \in Nat /\ Cardinality(Seeking \ {s}) \in Nat
      /\ Cardinality(Seeking \ {s}) <= Cardinality(Seeking')
      /\ (s \in Seeking => Cardinality(Seeking \ {s}) = Cardinality(Seeking) - 1)
    BY <1>1, Cards, Zenon
<1>3. Cardinality(Seeking \ {s}) >= Cardinality(Seeking) - 1
    BY <1>1, <1>2
<1>4. size \in Nat /\ Slots \in Nat /\ Slots' = Slots
    BY Zenon DEF IInv, RingInv, Slots
<1> QED
    BY <1>2, <1>3, <1>4 DEF IInv, SlotInv

(* acquire_send_slot finds the buffer full and the sender queues up.         *)
LEMMA Queues ==
    ASSUME Setting, IInv, NEW s \in Senders, WaitForSlot(s)
    PROVE  IInv'
<1>1. /\ spc[s] = "lock" /\ ~disconnected /\ ~HasRoom /\ queue' = Append(queue, s)
      /\ woken' = [woken EXCEPT ![s] = FALSE]
      /\ spc' = [spc EXCEPT ![s] = "queued"] /\ sres' = [sres EXCEPT ![s] = None]
      /\ UNCHANGED <<buf, start, size, channels, disconnected, cap, blocker, canceled, flag, stok>>
      /\ UNCHANGED <<rpc, rtok, timed, pend, rres>>
    BY Zenon DEF WaitForSlot, S, ring, receiver
<1>2. ~Holds(queue, s) /\ ~Holds(pend, s) /\ blocker # s /\ s \notin Tokens /\ s \in Alive
    BY <1>1, Forgotten, Zenon DEF Setting, Alive
<1>3. /\ \A u : Holds(queue', u) <=> Holds(queue, u) \/ u = s
      /\ queue' \in Seq(Senders) /\ (IsInjective(queue) => IsInjective(queue'))
  <2>1. queue \in Seq(Senders)
      BY Zenon DEF IInv, Types
  <2>2. LET q == Append(queue, s)
        IN  /\ \A u : Holds(q, u) <=> Holds(queue, u) \/ u = s
            /\ q \in Seq(Senders) /\ (IsInjective(queue) => IsInjective(q))
      BY <1>2, <2>1, AppendQueue, Zenon
  <2> QED
      BY <1>1, <2>2, Zenon
<1>4. /\ \A u \in Senders : spc'[u] = IF u = s THEN "queued" ELSE spc[u]
      /\ \A u \in Senders \cup Tokens : woken'[u] = IF u = s THEN FALSE ELSE woken[u]
    BY <1>1, Zenon DEF IInv, Types
<1>5. Types'
    BY <1>1, <1>3, Zenon DEF IInv, Types, SPC
<1>6. RingInv'
    BY <1>1, Zenon DEF IInv, RingInv, Slots
<1>7. CountInv'
    BY <1>1, <1>2, SameHandles, Zenon
<1>8. QueueInv'
    BY <1>1, <1>3, <1>4, Zenon DEF IInv, QueueInv
<1>9. PendInv'
    BY <1>1, <1>2, <1>3, <1>4, Zenon DEF IInv, PendInv
<1>10. BlockerInv'
    BY <1>1, <1>2, <1>4 DEF IInv, BlockerInv
<1>11. MessageInv'
  <2>1. cap = 0 /\ size > 0 => buf[start] \in Senders
      BY OneSlot, Zenon DEF IInv
  <2> QED
      BY <1>1, <1>4, <2>1 DEF IInv, MessageInv
<1>12. SlotInv'
  <2>1. BufLen = Slots /\ size \in Nat /\ Slots \in Nat /\ Slots' = Slots /\ size' = size
      BY <1>1, Length, Zenon DEF IInv, RingInv, Slots
  <2>2. Cardinality(Seeking') \in Nat
    <3>1. Seeking' \in SUBSET Senders
        BY Zenon DEF Seeking
    <3> QED
        BY <3>1, Cards, Zenon
  <2> QED
      BY <1>1, <2>1, <2>2 DEF SlotInv, HasRoom
<1> QED
    BY <1>5, <1>6, <1>7, <1>8, <1>9, <1>10, <1>11, <1>12, Zenon DEF IInv

(* A sender opens a rendezvous.                                              *)
LEMMA Opens ==
    ASSUME Setting, IInv, NEW s \in Senders, Rendezvous(s)
    PROVE  IInv'
<1>1. /\ spc[s] = "lock" /\ ~disconnected /\ HasRoom /\ blocker = None /\ cap = 0
      /\ UNCHANGED <<stok, rpc, rtok, timed, pend, rres>>
    BY Zenon DEF Rendezvous, receiver
<1>2. ~Overwrites /\ canceled = None /\ size = 0
    BY <1>1, Enqueued, Zenon DEF IInv, Types, BlockerInv
<1>3. /\ Enqueue(s) /\ canceled' = s /\ blocker' = s
      /\ flag' = [flag EXCEPT ![s] = FALSE] /\ woken' = [woken EXCEPT ![s] = FALSE]
      /\ spc' = [spc EXCEPT ![s] = "blocked"] /\ sres' = [sres EXCEPT ![s] = None]
      /\ UNCHANGED <<channels, disconnected, cap, queue>>
    BY <1>2, Zenon DEF Rendezvous, S
<1>4. RingInv' /\ size' = size + 1 /\ size' > 0 /\ buf'[start'] = s
    BY <1>1, <1>3, Enqueued, Zenon DEF IInv
<1>5. ~Holds(queue, s) /\ ~Holds(pend, s) /\ s \notin Tokens /\ s # None /\ s \in Alive
    BY <1>1, Forgotten, Zenon DEF Setting, Alive
<1>6. /\ \A u \in Senders : spc'[u] = IF u = s THEN "blocked" ELSE spc[u]
      /\ \A u \in Senders : flag'[u] = IF u = s THEN FALSE ELSE flag[u]
      /\ \A u \in Senders \cup Tokens : woken'[u] = IF u = s THEN FALSE ELSE woken[u]
    BY <1>3, Zenon DEF IInv, Types
<1>7. rpc \notin Waiting
  <2>1. ~(size > 0)
      BY <1>2
  <2> QED
      BY <1>1, <2>1, Zenon DEF IInv, BlockerInv
<1>8. Types'
    BY <1>1, <1>3, Zenon DEF IInv, Types, SPC
<1>9. CountInv'
    BY <1>3, <1>5, SameHandles, Zenon
<1>10. QueueInv'
    BY <1>1, <1>3, <1>5, <1>6 DEF IInv, QueueInv
<1>11. PendInv'
    BY <1>1, <1>3, <1>5, <1>6, Zenon DEF IInv, PendInv
<1>12. BlockerInv'
  <2>1. /\ cap' = 0 /\ canceled' = blocker' /\ spc'[blocker'] = "blocked" /\ ~disconnected'
        /\ size' > 0 /\ buf'[start'] = blocker' /\ ~flag'[blocker'] /\ ~woken'[blocker']
      BY <1>1, <1>3, <1>4, <1>6, Zenon
  <2>2. blocker' \notin Tokens /\ rpc' \notin Waiting /\ rpc' # "late"
      BY <1>1, <1>3, <1>5, <1>7, Zenon DEF Waiting
  <2>3. \A u \in Senders : spc'[u] \in {"signal", "dropsignal"} => stok'[u] \in Tokens
      BY <1>1, <1>6, Zenon DEF IInv, BlockerInv
  <2> QED
      BY <2>1, <2>2, <2>3, Zenon DEF BlockerInv
<1>13. MessageInv'
  <2>1. ASSUME NEW u \in Senders, spc'[u] = "blocked" PROVE ~flag'[u]
      BY <1>1, <1>6, <2>1, Zenon DEF IInv, MessageInv
  <2> QED
      BY <1>1, <1>3, <1>4, <2>1, Zenon DEF MessageInv
<1>14. Seeking \ {s} \subseteq Seeking'
    BY <1>3, <1>6, Zenon DEF Seeking
<1>15. SlotInv'
    BY <1>3, <1>4, <1>14, SlotTaken, Zenon
<1> QED
    BY <1>4, <1>8, <1>9, <1>10, <1>11, <1>12, <1>13, <1>15, Zenon DEF IInv
(* A message is handed over, to a receiver that waits or into a buffer.      *)
LEMMA HandsOver ==
    ASSUME Setting, IInv, NEW s \in Senders, SendEnqueues(s) \/ TrySend(s)
    PROVE  IInv'
<1>1. /\ spc[s] \in {"lock", "idle"} /\ ~disconnected /\ ~(blocker = None /\ cap = 0) /\ HandOver(s)
      /\ HasRoom \/ size # BufLen
    BY Zenon DEF SendEnqueues, TrySend, TryFull
<1>2. HasRoom
  <2>1. Ring(buf, start, size, Slots) /\ cap \in Nat
      BY <1>1, Zenon DEF IInv, RingInv
  <2>2. BufLen = Slots /\ Slots \in Nat /\ size \in 0 .. Slots
      BY <2>1, Length, Zenon DEF Ring
  <2> QED
      BY <1>1, <2>2 DEF HasRoom
<1>3. ~Overwrites /\ (cap = 0 => ~(size > 0))
  <2>1. ~Overwrites /\ (cap = 0 => size = 0)
      BY <1>1, <1>2, Enqueued, Zenon DEF IInv
  <2> QED
      BY <2>1
<1>4. blocker \in Tokens \cup {None} /\ canceled = None /\ (cap = 0 => blocker \in Tokens)
    BY <1>1, <1>3, Zenon DEF IInv, Types, BlockerInv
<1> DEFINE at == IF blocker = None THEN "idle" ELSE "signal"
<1>5. /\ Enqueue(s) /\ blocker' = None /\ stok' = [stok EXCEPT ![s] = blocker]
      /\ spc' = [spc EXCEPT ![s] = at] /\ sres' = [sres EXCEPT ![s] = "Ok"]
      /\ UNCHANGED <<channels, disconnected, cap, queue, canceled, flag, woken>>
      /\ UNCHANGED <<rpc, rtok, timed, pend, rres>>
    BY <1>1, <1>3, <1>4, Zenon DEF HandOver, S, receiver, Setting
<1>6. RingInv' /\ size' = size + 1 /\ size' > 0 /\ (cap = 0 => buf'[start'] = s)
    BY <1>1, <1>2, <1>5, Enqueued, Zenon DEF IInv
<1>7. ~Holds(queue, s) /\ ~Holds(pend, s) /\ s \in Alive
    BY <1>1, Forgotten, Zenon DEF Alive
<1>8. /\ \A u \in Senders : spc'[u] = IF u = s THEN at ELSE spc[u]
      /\ \A u \in Senders : stok'[u] = IF u = s THEN blocker ELSE stok[u]
      /\ at \in {"idle", "signal"} /\ (at = "signal" => blocker \in Tokens)
    BY <1>4, <1>5, Zenon DEF IInv, Types
<1> HIDE DEF at
<1>9. Types'
    BY <1>4, <1>5, <1>8, Zenon DEF IInv, Types, SPC
<1>10. CountInv'
    BY <1>5, <1>7, <1>8, SameHandles, Zenon
<1>11. QueueInv'
  <2>1. \A u \in Senders : spc'[u] = "queued" <=> spc[u] = "queued"
      BY <1>1, <1>8, Zenon
  <2> QED
      BY <1>5, <2>1, Zenon DEF IInv, QueueInv
<1>12. PendInv'
    BY <1>5, <1>7, <1>8, Zenon DEF IInv, PendInv, Setting
<1>13. BlockerInv'
  <2>1. blocker' \notin Senders /\ blocker' \notin Tokens /\ canceled' = None
      BY <1>4, <1>5, Zenon DEF Setting
  <2>2. \A u \in Senders : spc'[u] \in {"signal", "dropsignal"} => stok'[u] \in Tokens
      BY <1>8, Zenon DEF IInv, BlockerInv
  <2> QED
      BY <1>5, <1>6, <2>1, <2>2, Zenon DEF IInv, BlockerInv
<1>14. MessageInv'
  <2>1. ASSUME NEW u \in Senders, spc'[u] = "blocked" PROVE cap = 0 /\ ~flag'[u]
      BY <1>1, <1>5, <1>8, <2>1, Zenon DEF IInv, MessageInv
  <2>2. cap = 0 => rpc \in Waiting /\ spc'[s] # "blocked"
      BY <1>4, <1>8, Zenon DEF IInv, BlockerInv
  <2> QED
      BY <1>5, <1>6, <2>1, <2>2, Zenon DEF MessageInv
<1>15. Seeking \ {s} \subseteq Seeking'
    BY <1>5, <1>8, Zenon DEF Seeking
<1>16. SlotInv'
    BY <1>5, <1>6, <1>15, SlotTaken, Zenon
<1> QED
    BY <1>6, <1>9, <1>10, <1>11, <1>12, <1>13, <1>14, <1>16, Zenon DEF IInv
(* A rendezvous is over: Ok, or its message is taken back.                   *)
LEMMA Closes ==
    ASSUME Setting, IInv, NEW s \in Senders, RendezvousEnds(s)
    PROVE  IInv'
<1>1. /\ spc[s] = "blocked" /\ woken[s] /\ s \in Alive /\ UNCHANGED <<channels, disconnected, cap>>
      /\ UNCHANGED <<queue, blocker, canceled, flag, woken, stok, rpc, rtok, timed, pend, rres>>
    BY Zenon DEF RendezvousEnds, state, receiver, Alive
<1>2. ~Holds(queue, s) /\ ~Holds(pend, s) /\ blocker # s
    BY <1>1, Forgotten, Zenon
<1>3. CASE ~flag[s]
  <2>1. S(s, "idle", "Ok") /\ UNCHANGED Elsewhere
      BY <1>1, <1>3, Zenon DEF RendezvousEnds, Elsewhere, receiver
  <2>2. Types' /\ RingInv' /\ QueueInv' /\ PendInv' /\ BlockerInv' /\ MessageInv'
      BY <1>2, <1>3, <2>1, Walks, Zenon
  <2>3. /\ spc' = [spc EXCEPT ![s] = "idle"] /\ spc \in [Senders -> SPC]
        /\ size' = size /\ size \in Nat
      BY <2>1, Zenon DEF S, Elsewhere, ring, IInv, Types, RingInv
  <2>4. CountInv'
      BY <1>1, <2>3, SameHandles, Zenon
  <2>5. Seeking \subseteq Seeking'
      BY <1>1, <2>3, Zenon DEF Seeking
  <2>6. SlotInv'
      BY <1>1, <2>3, <2>5, SameSlots
  <2> QED
      BY <2>2, <2>4, <2>6, Zenon DEF IInv
<1>4. CASE flag[s]
  <2>1. cap = 0 /\ size > 0 /\ buf[start] = s /\ rpc \in Leaving /\ disconnected
      BY <1>1, <1>4, Zenon DEF IInv, MessageInv
  <2>2. s # None /\ queue = <<>> /\ Ring(buf, start, size, Slots)
      BY <2>1, OneSlot, Zenon DEF IInv, QueueInv, Setting
  <2>3. S(s, "idle", "Err") /\ Dequeue
      BY <1>4, <2>1, <2>2, Zenon DEF RendezvousEnds
  <2>4. RingInv' /\ ~(size' > 0)
      BY <1>1, <2>1, <2>2, <2>3, Dequeued, Zenon DEF IInv
  <2>5. spc' = [spc EXCEPT ![s] = "idle"] /\ sres' = [sres EXCEPT ![s] = "Err"]
      BY <2>3, Zenon DEF S
  <2>6. \A u \in Senders : spc'[u] = IF u = s THEN "idle" ELSE spc[u]
      BY <2>5, Zenon DEF IInv, Types
  <2>7. Types'
      BY <1>1, <2>5, Zenon DEF IInv, Types, SPC
  <2>8. CountInv'
      BY <1>1, <2>5, SameHandles, Zenon
  <2>9. QueueInv'
      BY <1>1, <1>2, <2>6, Zenon DEF IInv, QueueInv
  <2>10. PendInv'
      BY <1>1, <1>2, <2>6, Zenon DEF IInv, PendInv
  <2>11. BlockerInv'
    <3>1. rpc \notin Waiting /\ rpc # "late"
        BY <2>1, Zenon DEF Waiting, Leaving
    <3>2. blocker \notin Senders /\ blocker \notin Tokens /\ canceled = None
        BY <2>1, <3>1, Zenon DEF IInv, BlockerInv, Types
    <3> QED
        BY <1>1, <2>6, <3>1, <3>2, Zenon DEF IInv, BlockerInv
  <2>12. MessageInv'
    <3>1. ASSUME NEW u \in Senders, spc'[u] = "blocked" PROVE ~flag[u]
        BY <2>1, <2>6, <3>1, Zenon DEF IInv, MessageInv
    <3> QED
        BY <1>1, <2>1, <2>4, <3>1, Zenon DEF MessageInv
  <2>13. SlotInv'
      BY <1>1, <2>2, Zenon DEF SlotInv
  <2> QED
      BY <2>4, <2>7, <2>8, <2>9, <2>10, <2>11, <2>12, <2>13, Zenon DEF IInv
<1> QED
    BY <1>3, <1>4, Zenon

(* A sender signals the receiver's token that it took.                       *)
LEMMA Signals ==
    ASSUME Setting, IInv, NEW s \in Senders, Signal(s)
    PROVE  IInv'
<1> DEFINE at == IF spc[s] = "signal" THEN "idle" ELSE "gone"
           k == stok[s]
<1>1. /\ spc[s] \in {"signal", "dropsignal"} /\ woken' = [woken EXCEPT ![k] = TRUE]
      /\ stok' = [stok EXCEPT ![s] = None] /\ spc' = [spc EXCEPT ![s] = at]
      /\ UNCHANGED <<buf, start, size, channels, disconnected, cap, queue, blocker, canceled, flag>>
      /\ UNCHANGED <<sres, rpc, rtok, timed, pend, rres>>
    BY Zenon DEF Signal, ring, state, receiver
<1>2. ~Holds(queue, s) /\ ~Holds(pend, s) /\ blocker # s
    BY <1>1, Forgotten, Zenon
<1>3. k \in Tokens /\ k \notin Senders /\ k # blocker
    BY <1>1, Zenon DEF IInv, BlockerInv, Setting
<1>4. /\ \A u \in Senders : spc'[u] = IF u = s THEN at ELSE spc[u]
      /\ \A u \in Senders : stok'[u] = IF u = s THEN None ELSE stok[u]
      /\ \A u \in Senders \cup Tokens : u # k => woken'[u] = woken[u]
      /\ at \in {"idle", "gone"} /\ (at = "idle" <=> spc[s] = "signal")
      /\ woken' \in [Senders \cup Tokens -> BOOLEAN]
    BY <1>1, <1>3, Zenon DEF IInv, Types
<1>14. /\ spc'[s] \notin {"lock", "queued", "blocked", "signal", "dropchan", "dropsignal"}
       /\ \A u \in Senders : u # s => spc'[u] = spc[u] /\ stok'[u] = stok[u]
       /\ \A u \in Senders : woken'[u] = woken[u]
    BY <1>3, <1>4, Zenon
<1> HIDE DEF at, k
<1>5. Types'
    BY <1>1, <1>4, Zenon DEF IInv, Types, SPC
<1>6. RingInv'
    BY <1>1, Zenon DEF IInv, RingInv, Slots
<1>7. CountInv'
  <2>1. Alive' = Alive
      BY <1>1, <1>4 DEF Alive
  <2>2. \A u \in Senders : spc'[u] = "dropchan" => spc[u] = "dropchan"
      BY <1>14, Zenon
  <2> QED
      BY <1>1, <2>1, <2>2, Zenon DEF IInv, CountInv
<1>8. QueueInv'
    BY <1>1, <1>2, <1>14, Zenon DEF IInv, QueueInv
<1>9. PendInv'
    BY <1>1, <1>2, <1>14, Zenon DEF IInv, PendInv
<1>10. BlockerInv'
  <2>1. blocker \in Tokens => ~woken'[blocker] /\ \A u \in Senders : stok'[u] # blocker
    <3>1. blocker \in Tokens => ~woken[blocker] /\ \A u \in Senders : stok[u] # blocker
        BY Zenon DEF IInv, BlockerInv
    <3>2. blocker \in Tokens => woken'[blocker] = woken[blocker] /\ blocker # None
        BY <1>3, <1>4, Zenon DEF Setting
    <3> QED
        BY <1>4, <3>1, <3>2, Zenon
  <2>2. \A u \in Senders : spc'[u] \in {"signal", "dropsignal"} => stok'[u] \in Tokens
      BY <1>14, Zenon DEF IInv, BlockerInv
  <2>3. blocker \in Senders => spc'[blocker] = spc[blocker] /\ woken'[blocker] = woken[blocker]
      BY <1>2, <1>14, Zenon
  <2> QED
      BY <1>1, <2>1, <2>2, <2>3, Zenon DEF IInv, BlockerInv
<1>11. MessageInv'
  <2>1. cap = 0 /\ size > 0 => buf[start] \in Senders
      BY OneSlot, Zenon DEF IInv
  <2>2. \A u \in Senders : spc'[u] = "blocked" <=> spc[u] = "blocked"
      BY <1>1, <1>14, Zenon
  <2> QED
      BY <1>1, <2>1, <2>2, Zenon DEF IInv, MessageInv
<1>12. Seeking \subseteq Seeking'
    BY <1>1, <1>4, Zenon DEF Seeking
<1>13. SlotInv'
  <2>1. size \in Nat
      BY Zenon DEF IInv, RingInv
  <2> QED
      BY <1>1, <1>12, <2>1, SameSlots
<1> QED
    BY <1>5, <1>6, <1>7, <1>8, <1>9, <1>10, <1>11, <1>13, Zenon DEF IInv
-----------------------------------------------------------------------------
(* With the receiver inside or before a call, the buffer is there, nobody is *)
(* owed a signal and no rendezvous has been called off.                      *)
LEMMA Receiving ==
    ASSUME Setting, IInv, rpc \in {"idle", "wait", "late"}
    PROVE  /\ Ring(buf, start, size, Slots) /\ pend = <<>> /\ rpc \notin Leaving
           /\ \A u \in Senders : spc[u] = "blocked" => cap = 0 /\ ~flag[u]
           /\ \A u : ~Holds(pend, u)
<1>1. rpc \notin Leaving /\ rpc \notin {"signal", "dropsignal"}
    BY Zenon DEF Leaving
<1> QED
    BY <1>1, EmptyQueue, Zenon DEF IInv, RingInv, PendInv, MessageInv

(* recv finds nothing and blocks.                                            *)
LEMMA Blocks ==
    ASSUME Setting, IInv, NEW t \in BOOLEAN, RecvBlocks(t)
    PROVE  IInv'
<1>1. /\ rpc = "idle" /\ ~disconnected /\ size = 0 /\ timed' = t
      /\ UNCHANGED <<buf, start, size, channels, disconnected, cap, queue, canceled, flag, pend>>
      /\ UNCHANGED <<spc, stok, sres>>
    BY Zenon DEF RecvBlocks, ring, sender
<1>2. ~(size > 0) /\ rpc \notin Waiting
    BY <1>1 DEF Waiting
<1>3. blocker = None /\ canceled = None
    BY <1>2, Zenon DEF IInv, BlockerInv, Types
<1>4. PICK k \in Tokens : /\ \A u \in Senders : stok[u] # k
                          /\ blocker' = k /\ rtok' = k /\ woken' = [woken EXCEPT ![k] = FALSE]
                          /\ rpc' = "wait" /\ rres' = None
    BY <1>3, Zenon DEF RecvBlocks, R
<1>5. k \notin Senders /\ k # None
    BY Zenon DEF Setting
<1>6. /\ \A u \in Senders : woken'[u] = woken[u]
      /\ ~woken'[k] /\ woken' \in [Senders \cup Tokens -> BOOLEAN]
    BY <1>4, <1>5, Zenon DEF IInv, Types
<1>7. /\ Ring(buf, start, size, Slots) /\ pend = <<>>
      /\ \A u \in Senders : spc[u] = "blocked" => cap = 0 /\ ~flag[u]
      /\ \A u : ~Holds(pend, u)
    BY <1>1, Receiving, Zenon
<1>8. Types'
    BY <1>1, <1>4, <1>6, Zenon DEF IInv, Types, RPC
<1>9. RingInv' /\ CountInv' /\ SlotInv'
    BY <1>1, <1>7, Zenon DEF IInv, RingInv, Slots, CountInv, Alive, SlotInv, Seeking
<1>10. QueueInv' /\ PendInv'
    BY <1>1, <1>4, <1>6, <1>7, Zenon DEF IInv, QueueInv, PendInv
<1>11. BlockerInv'
    BY <1>1, <1>3, <1>4, <1>5, <1>6, Zenon DEF IInv, BlockerInv, Waiting
<1>12. MessageInv'
    BY <1>1, <1>2, <1>7, Zenon DEF MessageInv
<1> QED
    BY <1>8, <1>9, <1>10, <1>11, <1>12, Zenon DEF IInv

(* A receiver that finds nothing in the buffer returns.                      *)
LEMMA Returns ==
    ASSUME Setting, IInv, rpc \in {"idle", "wait", "late"}, ~(size > 0), blocker' = None,
           rpc' = "idle", rres' \in {None, "Ok", "Empty", "Disconnected"}, rtok' \in Tokens \cup {None},
           UNCHANGED <<ring, channels, disconnected, cap, queue, canceled, flag, woken, sender, timed, pend>>
    PROVE  IInv'
<1>1. /\ UNCHANGED <<buf, start, size, channels, disconnected, cap, queue, canceled, flag, woken>>
      /\ UNCHANGED <<spc, stok, sres, timed, pend>>
    BY Zenon DEF ring, sender
<1>2. /\ Ring(buf, start, size, Slots) /\ pend = <<>>
      /\ \A u \in Senders : spc[u] = "blocked" => cap = 0 /\ ~flag[u]
      /\ \A u : ~Holds(pend, u)
    BY Receiving, Zenon
<1>3. canceled = None /\ None \notin Senders /\ None \notin Tokens
    BY Zenon DEF IInv, Types, BlockerInv, Setting
<1>4. Types'
    BY <1>1, Zenon DEF IInv, Types, RPC
<1>5. RingInv' /\ CountInv' /\ SlotInv'
    BY <1>1, <1>2, Zenon DEF IInv, RingInv, Slots, CountInv, Alive, SlotInv, Seeking
<1>6. QueueInv' /\ PendInv'
  <2>1. QueueInv'
    <3>1. QueueInv
        BY Zenon DEF IInv
    <3> QED
        BY <1>1, <3>1 DEF QueueInv
  <2>2. PendInv'
      BY <1>1, <1>2, Zenon DEF IInv, PendInv
  <2> QED
      BY <2>1, <2>2, Zenon
<1>7. BlockerInv'
    BY <1>1, <1>3, Zenon DEF IInv, BlockerInv, Waiting
<1>8. MessageInv'
    BY <1>1, <1>2, Zenon DEF MessageInv
<1> QED
    BY <1>4, <1>5, <1>6, <1>7, <1>8, Zenon DEF IInv
(* recv and try_recv take a message: the rendezvous it came by is            *)
(* acknowledged, and the slot goes to the first sender that waits for it.    *)
LEMMA Takes ==
    ASSUME Setting, IInv, NEW waited \in BOOLEAN, size > 0, Take(waited, blocker),
           rpc \in {"idle", "wait", "late"}, waited => rpc = "wait",
           rtok' \in Tokens \cup {None}, UNCHANGED <<woken, sender, timed>>
    PROVE  IInv'
<1>1. /\ Dequeue /\ queue' = (IF queue = <<>> THEN queue ELSE Tail(queue))
      /\ UNCHANGED <<channels, disconnected, cap, flag, woken, spc, stok, sres, timed>>
    BY Zenon DEF Take, sender
<1>2. /\ Ring(buf, start, size, Slots) /\ pend = <<>>
      /\ \A u \in Senders : spc[u] = "blocked" => cap = 0 /\ ~flag[u]
      /\ \A u : ~Holds(pend, u)
    BY Receiving, Zenon
<1>3. RingInv' /\ size' = size - 1 /\ (cap = 0 => ~(size' > 0)) /\ buf[start] \in Senders
    BY <1>1, <1>2, Dequeued, Zenon DEF IInv
<1>4. /\ blocker \in Senders \cup {None} /\ None \notin Senders /\ None \notin Tokens
      /\ canceled # None => blocker = canceled
      /\ waited => blocker = None
      /\ blocker \in Senders => cap = 0 /\ spc[blocker] = "blocked" /\ ~woken[blocker]
  <2>1. ~(size = 0)
      OBVIOUS
  <2>2. blocker \notin Tokens
      BY <2>1, Zenon DEF IInv, BlockerInv
  <2> QED
      BY <2>2, Zenon DEF IInv, BlockerInv, Types, Setting, Waiting
<1>5. /\ blocker' = None /\ canceled' = None
      /\ pend' = IF blocker = None THEN SlotGoesTo ELSE Append(SlotGoesTo, blocker)
    BY <1>4, Zenon DEF Take, Acks, IInv, Types
<1>6. rpc' = (IF pend' = <<>> THEN "idle" ELSE "signal") /\ rres' = "Ok"
    BY <1>3, <1>4, Zenon DEF Take, R, Setting
<1>7. /\ queue \in Seq(Senders) /\ IsInjective(queue) /\ queue' \in Seq(Senders) /\ IsInjective(queue')
      /\ SlotGoesTo \in Seq(Senders) /\ IsInjective(SlotGoesTo)
      /\ \A u : Holds(queue, u) <=> Holds(SlotGoesTo, u) \/ Holds(queue', u)
      /\ \A u : ~(Holds(SlotGoesTo, u) /\ Holds(queue', u))
  <2>1. queue \in Seq(Senders) /\ IsInjective(queue)
      BY Zenon DEF IInv, Types, QueueInv
  <2>2. CASE queue = <<>>
      BY <1>1, <2>1, <2>2, EmptyQueue, Zenon DEF SlotGoesTo
  <2>3. CASE queue # <<>>
    <3>1. SlotGoesTo = <<Head(queue)>> /\ queue' = Tail(queue)
        BY <1>1, <2>3, Zenon DEF SlotGoesTo
    <3>2. /\ Head(queue) \in Senders /\ Holds(queue, Head(queue)) /\ Tail(queue) \in Seq(Senders)
          /\ \A u : Holds(queue, u) => u = Head(queue) \/ Holds(Tail(queue), u)
          /\ \A u : Holds(Tail(queue), u) => Holds(queue, u)
          /\ IsInjective(Tail(queue)) /\ ~Holds(Tail(queue), Head(queue))
        BY <2>1, <2>3, TailQueue, Zenon
    <3>3. /\ <<Head(queue)>> \in Seq(Senders) /\ IsInjective(<<Head(queue)>>)
          /\ \A u : Holds(<<Head(queue)>>, u) <=> u = Head(queue)
        BY <3>2, OneQueue, Zenon
    <3> QED
        BY <2>1, <3>1, <3>2, <3>3, Zenon
  <2> QED
      BY <2>2, <2>3, Zenon
<1>8. /\ pend' \in Seq(Senders) /\ IsInjective(pend')
      /\ \A u : Holds(pend', u) <=> Holds(SlotGoesTo, u) \/ (u = blocker /\ u # None)
  <2>1. CASE blocker = None
      BY <1>5, <1>7, <2>1, Zenon
  <2>2. CASE blocker # None
    <3>1. blocker \in Senders /\ ~Holds(SlotGoesTo, blocker) /\ pend' = Append(SlotGoesTo, blocker)
        BY <1>4, <1>5, <1>7, <2>2, Zenon DEF IInv, QueueInv
    <3>2. SlotGoesTo \in Seq(Senders) /\ IsInjective(SlotGoesTo)
        BY <1>7, Zenon
    <3> QED
        BY <2>2, <3>1, <3>2, AppendQueue, Zenon
  <2> QED
      BY <2>1, <2>2, Zenon
<1>9. Types'
    BY <1>1, <1>4, <1>5, <1>6, <1>7, <1>8, Zenon DEF IInv, Types, RPC
<1>10. CountInv'
    BY <1>1, Zenon DEF IInv, CountInv, Alive
<1>11. QueueInv'
  <2>1. disconnected' => queue' = <<>>
      BY <1>1, Zenon DEF IInv, QueueInv
  <2> QED
      BY <1>1, <1>2, <1>7, <1>8, <2>1, Zenon DEF IInv, QueueInv
<1>12. PendInv'
  <2>1. ASSUME NEW u \in Senders, Holds(pend', u)
        PROVE  spc'[u] \in {"queued", "blocked"} /\ ~woken'[u] /\ ~Holds(queue', u) /\ blocker' # u
      BY <1>1, <1>4, <1>5, <1>7, <1>8, <2>1, Zenon DEF IInv, QueueInv
  <2> QED
      BY <1>6, <1>8, <2>1, Zenon DEF PendInv
<1>13. BlockerInv'
  <2>1. rpc' \notin Waiting /\ rpc' # "late"
      BY <1>6, Zenon DEF Waiting
  <2> QED
      BY <1>1, <1>4, <1>5, <2>1, Zenon DEF IInv, BlockerInv
<1>14. MessageInv'
    BY <1>1, <1>2, <1>3, Zenon DEF MessageInv
<1>15. SlotInv'
  <2>1. CASE queue = <<>>
      BY <1>1, <2>1, Zenon DEF SlotInv
  <2>2. CASE queue # <<>>
    <3> DEFINE h == Head(queue)
    <3>1. h \in Senders /\ Holds(queue, h) /\ ~Holds(queue', h) /\ spc[h] = "queued"
          /\ \A u : Holds(queue', u) => Holds(queue, u)
        BY <1>1, <1>7, <2>2, TailQueue, Zenon DEF IInv, QueueInv
    <3>2. Seeking \cup {h} \in SUBSET Seeking' /\ Seeking' \in SUBSET Senders
          /\ Seeking \in SUBSET Senders /\ h \in Senders \ Seeking
        BY <1>1, <3>1, Zenon DEF Seeking
    <3> HIDE DEF h
    <3>3. /\ Cardinality(Seeking \cup {h}) = Cardinality(Seeking) + 1
          /\ Cardinality(Seeking \cup {h}) <= Cardinality(Seeking')
          /\ Cardinality(Seeking) \in Nat /\ Cardinality(Seeking') \in Nat
        BY <3>2, Cards, Zenon
    <3>4. size \in Nat /\ Slots \in Nat /\ Slots' = Slots
        BY <1>1, Zenon DEF IInv, RingInv, Slots
    <3> QED
        BY <1>3, <2>2, <3>3, <3>4 DEF IInv, SlotInv
  <2> QED
      BY <2>1, <2>2, Zenon
<1> QED
    BY <1>3, <1>9, <1>10, <1>11, <1>12, <1>13, <1>14, <1>15, Zenon DEF IInv
(* The calls of the receiver, before and after it waits.                     *)
LEMMA Receives ==
    ASSUME Setting, IInv, RecvTakes \/ Wake \/ GiveUp \/ TryRecv
    PROVE  IInv'
<1>1. rpc \in {"idle", "wait", "late"} /\ None \notin Senders /\ None \notin Tokens
    BY Zenon DEF RecvTakes, Wake, GiveUp, TryRecv, Setting
<1>2. CASE TryRecv
  <2>1. CASE size > 0
      BY <1>1, <1>2, <2>1, Takes, Zenon DEF TryRecv, IInv, Types
  <2>2. CASE ~(size > 0)
    <3>1. /\ rpc = "idle" /\ rpc' = "idle" /\ rres' \in {"Disconnected", "Empty"}
          /\ UNCHANGED <<ring, state, pend, woken, sender, rtok, timed>>
        BY <1>2, <2>2, Zenon DEF TryRecv, R
    <3>2. blocker = None
        BY <2>2, <3>1, Zenon DEF IInv, Types, BlockerInv, Waiting
    <3> QED
        BY <1>1, <2>2, <3>1, <3>2, Returns, Zenon DEF state, IInv, Types
  <2> QED
      BY <2>1, <2>2, Zenon
<1>3. CASE RecvTakes \/ Wake \/ GiveUp
  <2>1. PICK waited \in BOOLEAN, b \in {blocker, Aborted} :
          /\ Finish(waited, b) /\ (waited => rpc = "wait") /\ (rpc = "late" => b = Aborted)
          /\ rpc = "wait" => woken[rtok]
          /\ rpc = "idle" => b = blocker /\ (disconnected \/ size > 0)
          /\ rpc = "wait" => b = blocker
          /\ rpc # "wait" => ~waited
      BY <1>3, Zenon DEF RecvTakes, Wake, GiveUp
  <2>2. rtok' = None /\ UNCHANGED <<woken, sender, timed>>
      BY <2>1, Zenon DEF Finish
  <2>3. CASE size > 0
    <3>1. blocker \notin Tokens
      <4>1. size # 0
          BY <2>3
      <4> QED
          BY <4>1, Zenon DEF IInv, BlockerInv
    <3>2. b = blocker
        BY <2>1, <3>1, Zenon DEF Aborted
    <3>3. Take(waited, blocker)
        BY <2>1, <2>3, <3>2, Zenon DEF Finish
    <3> QED
        BY <1>1, <2>1, <2>2, <2>3, <3>3, Takes, Zenon
  <2>4. CASE ~(size > 0)
    <3>1. /\ blocker' = b
          /\ UNCHANGED <<ring, channels, disconnected, cap, queue, canceled, flag, pend>>
          /\ \/ disconnected /\ R("idle", "Disconnected")
             \/ timed /\ ~waited /\ R("idle", "Empty")
             \/ ~disconnected /\ ~(timed /\ ~waited)
        BY <2>1, <2>4, Zenon DEF Finish
    <3>2. blocker \notin Senders /\ (rpc = "idle" => blocker \notin Tokens)
        BY <2>4, Zenon DEF IInv, BlockerInv, Waiting
    <3>3. rpc = "wait" => blocker = None /\ disconnected
        BY <2>1, <2>4, Zenon DEF IInv, BlockerInv, Waiting
    <3>4. rpc = "late" => timed /\ ~waited
        BY <2>1, Zenon DEF IInv, BlockerInv
    <3>5. b = None
      <4>1. blocker \in Senders \cup Tokens \cup {None}
          BY Zenon DEF IInv, Types
      <4> QED
          BY <1>1, <2>1, <3>2, <3>3, <4>1, Zenon DEF Aborted
    <3>6. rpc' = "idle" /\ rres' \in {"Disconnected", "Empty"}
        BY <1>1, <2>1, <2>4, <3>1, <3>3, <3>4, Zenon DEF R
    <3> QED
        BY <1>1, <2>2, <2>4, <3>1, <3>5, <3>6, Returns, Zenon
  <2> QED
      BY <2>3, <2>4, Zenon
<1> QED
    BY <1>2, <1>3, Zenon
(* wakeup_senders and drop_port send the signals that they owe.              *)
LEMMA SignalsNext ==
    ASSUME Setting, IInv, SignalNext
    PROVE  IInv'
<1> DEFINE h == Head(pend)
<1>1. /\ rpc \in {"signal", "dropsignal"} /\ woken' = [woken EXCEPT ![h] = TRUE] /\ pend' = Tail(pend)
      /\ rpc' = IF Len(pend) > 1 THEN rpc ELSE IF rpc = "signal" THEN "idle" ELSE "gone"
      /\ UNCHANGED <<buf, start, size, channels, disconnected, cap, queue, blocker, canceled, flag>>
      /\ UNCHANGED <<spc, stok, sres, rtok, timed, rres>>
    BY Zenon DEF SignalNext, ring, state, sender
<1>2. pend # <<>> /\ pend \in Seq(Senders) /\ IsInjective(pend)
    BY <1>1, Zenon DEF IInv, Types, PendInv
<1>3. /\ h \in Senders /\ Holds(pend, h) /\ pend' \in Seq(Senders)
      /\ \A u : Holds(pend, u) => u = h \/ Holds(pend', u)
      /\ \A u : Holds(pend', u) => Holds(pend, u)
      /\ IsInjective(pend') /\ ~Holds(pend', h)
    BY <1>1, <1>2, TailQueue, Zenon
<1>4. pend' # <<>> <=> Len(pend) > 1
  <2>1. Len(pend) \in Nat /\ Len(pend) # 0 /\ Len(Tail(pend)) = Len(pend) - 1
      BY <1>2
  <2>2. Tail(pend) = <<>> <=> Len(Tail(pend)) = 0
      BY <1>1, <1>3, QueueLength, Zenon
  <2> QED
      BY <1>1, <2>1, <2>2
<1>5. spc[h] \in {"queued", "blocked"} /\ ~Holds(queue, h) /\ blocker # h /\ h \notin Tokens
    BY <1>3, Zenon DEF IInv, PendInv, Setting
<1>6. /\ \A u \in Senders \cup Tokens : woken'[u] = IF u = h THEN TRUE ELSE woken[u]
      /\ woken' \in [Senders \cup Tokens -> BOOLEAN]
    BY <1>1, <1>3, Zenon DEF IInv, Types
<1>7. /\ rpc' \in RPC /\ (rpc' \in {"signal", "dropsignal"} <=> pend' # <<>>)
      /\ rpc' \notin Waiting /\ rpc \notin Waiting /\ rpc' # "late"
      /\ rpc \in Leaving => rpc' \in Leaving
    BY <1>1, <1>4, Zenon DEF RPC, Waiting, Leaving
<1> HIDE DEF h
<1>8. Types'
    BY <1>1, <1>3, <1>6, <1>7, Zenon DEF IInv, Types
<1>9. RingInv' /\ CountInv' /\ SlotInv'
  <2>1. RingInv'
      BY <1>1, <1>7, Zenon DEF IInv, RingInv, Slots
  <2> QED
      BY <1>1, <2>1, Zenon DEF IInv, Slots, CountInv, Alive, SlotInv, Seeking
<1>10. QueueInv'
    BY <1>1, <1>3, <1>5, <1>6, Zenon DEF IInv, QueueInv
<1>11. PendInv'
    BY <1>1, <1>3, <1>6, <1>7, Zenon DEF IInv, PendInv
<1>12. BlockerInv'
  <2>1. blocker \in Senders \cup Tokens => woken'[blocker] = woken[blocker]
      BY <1>5, <1>6, Zenon
  <2> QED
      BY <1>1, <1>7, <2>1, Zenon DEF IInv, BlockerInv
<1>13. MessageInv'
    BY <1>1, <1>7, Zenon DEF IInv, MessageInv
<1> QED
    BY <1>8, <1>9, <1>10, <1>11, <1>12, <1>13, Zenon DEF IInv

(* The receiver goes: a rendezvous is called off and whoever waits is owed a *)
(* signal.                                                                   *)
LEMMA DropsPort ==
    ASSUME Setting, IInv, DropPort
    PROVE  IInv'
<1>1. rpc = "idle" /\ UNCHANGED <<start, size, channels, cap, woken, spc, stok, sres, rtok, timed>>
    BY Zenon DEF DropPort, ring, state, sender
<1>2. /\ Ring(buf, start, size, Slots) /\ pend = <<>> /\ rpc \notin Waiting
      /\ \A u \in Senders : spc[u] = "blocked" => cap = 0 /\ ~flag[u]
      /\ \A u : ~Holds(pend, u)
    BY <1>1, Receiving, Zenon DEF Waiting
<1>3. CASE disconnected
  <2>1. rpc' = "gone" /\ rres' = None /\ UNCHANGED <<buf, disconnected, queue, blocker, canceled, flag, pend>>
      BY <1>3, Zenon DEF DropPort, R, ring, state
  <2>2. blocker \notin Senders /\ ~(cap = 0 /\ size > 0)
    <3>1. blocker \notin Senders /\ rpc \notin Leaving
        BY <1>1, <1>3, Zenon DEF IInv, BlockerInv, Leaving
    <3>2. cap = 0 /\ size > 0 => buf[start] \in Senders
        BY OneSlot, Zenon DEF IInv
    <3> QED
        BY <1>2, <3>1, <3>2, Zenon DEF IInv, MessageInv
  <2>3. Types'
      BY <1>1, <2>1, Zenon DEF IInv, Types, RPC
  <2>4. RingInv' /\ CountInv' /\ SlotInv'
      BY <1>1, <1>2, <2>1, Zenon DEF IInv, RingInv, Slots, CountInv, Alive, SlotInv, Seeking
  <2>5. QueueInv' /\ PendInv'
    <3>1. QueueInv'
        BY <1>1, <1>2, <2>1, Zenon DEF IInv, QueueInv
    <3>2. PendInv'
        BY <1>1, <1>2, <2>1, Zenon DEF IInv, PendInv
    <3> QED
        BY <3>1, <3>2, Zenon
  <2>6. BlockerInv'
      BY <1>1, <1>2, <2>1, Zenon DEF IInv, BlockerInv, Waiting
  <2>7. MessageInv'
      BY <1>1, <1>2, <2>1, <2>2, Zenon DEF MessageInv
  <2> QED
      BY <2>3, <2>4, <2>5, <2>6, <2>7, Zenon DEF IInv
<1>4. CASE ~disconnected
  <2>1. blocker \in Senders \cup {None} /\ None \notin Senders /\ None \notin Tokens
        /\ (blocker \in Senders => canceled = blocker) /\ (canceled # None => blocker = canceled)
      BY <1>2, Zenon DEF IInv, Types, BlockerInv, Setting
  <2>2. /\ disconnected' = TRUE /\ queue' = <<>> /\ blocker' = None /\ canceled' = None /\ rres' = None
        /\ buf' = (IF cap # 0 THEN <<>> ELSE buf)
        /\ pend' = (IF blocker = None THEN queue ELSE Append(queue, blocker))
        /\ rpc' = (IF pend' = <<>> THEN "gone" ELSE "dropsignal")
        /\ flag' = (IF blocker = None THEN flag ELSE [flag EXCEPT ![blocker] = TRUE])
    <3>1. /\ disconnected' = TRUE /\ queue' = <<>> /\ blocker' = None
          /\ buf' = (IF cap # 0 THEN <<>> ELSE buf)
          /\ pend' = (IF blocker = None THEN queue ELSE Append(queue, blocker))
        BY <1>4, Zenon DEF DropPort
    <3>2. CASE blocker = None
      <4>1. canceled = None
          BY <2>1, <3>2, Zenon DEF IInv, Types
      <4>2. canceled' = None /\ flag' = flag /\ R(IF pend' = <<>> THEN "gone" ELSE "dropsignal", None)
          BY <1>4, <2>1, <3>2, <4>1, Zenon DEF DropPort
      <4> QED
          BY <3>1, <3>2, <4>2, Zenon DEF R
    <3>3. CASE blocker # None
      <4>1. canceled = blocker /\ blocker \notin Tokens
          BY <2>1, <3>3, Zenon DEF Setting
      <4>2. canceled' = None /\ flag' = Canceled /\ R(IF pend' = <<>> THEN "gone" ELSE "dropsignal", None)
          BY <1>4, <3>3, <4>1, Zenon DEF DropPort
      <4> QED
          BY <3>1, <3>3, <4>1, <4>2, Zenon DEF R, Canceled
    <3> QED
        BY <3>2, <3>3, Zenon
  <2>3. /\ pend' \in Seq(Senders) /\ IsInjective(pend')
        /\ \A u : Holds(pend', u) <=> Holds(queue, u) \/ (u = blocker /\ u # None)
    <3>1. queue \in Seq(Senders) /\ IsInjective(queue)
        BY Zenon DEF IInv, Types, QueueInv
    <3>2. CASE blocker = None
        BY <2>2, <3>1, <3>2, Zenon
    <3>3. CASE blocker # None
      <4>1. blocker \in Senders /\ ~Holds(queue, blocker) /\ pend' = Append(queue, blocker)
          BY <2>1, <2>2, <3>3, Zenon DEF IInv, QueueInv, BlockerInv
      <4>2. LET q == Append(queue, blocker)
            IN  q \in Seq(Senders) /\ IsInjective(q) /\ \A u : Holds(q, u) <=> Holds(queue, u) \/ u = blocker
          BY <3>1, <4>1, AppendQueue, Zenon
      <4> QED
          BY <3>3, <4>1, <4>2, Zenon
    <3> QED
        BY <3>2, <3>3, Zenon
  <2>4. /\ \A u \in Senders : flag'[u] = IF u = blocker THEN TRUE ELSE flag[u]
        /\ flag' \in [Senders -> BOOLEAN]
      BY <2>1, <2>2, Zenon DEF IInv, Types
  <2>5. rpc' \in Leaving /\ rpc' \in RPC /\ rpc' \notin Waiting /\ rpc' # "late"
      BY <2>2, Zenon DEF Leaving, RPC, Waiting
  <2>6. Types'
    <3>1. <<>> \in Seq(Senders)
        OBVIOUS
    <3> QED
        BY <1>1, <2>1, <2>2, <2>3, <2>4, <2>5, <3>1, Zenon DEF IInv, Types
  <2>7. RingInv' /\ CountInv' /\ SlotInv'
    <3>1. RingInv'
        BY <1>1, <1>2, <2>2, <2>5, Zenon DEF IInv, RingInv, Slots
    <3>2. CountInv'
        BY <1>1, Zenon DEF IInv, CountInv, Alive
    <3> QED
        BY <2>2, <3>1, <3>2, Zenon DEF SlotInv
  <2>8. QueueInv'
      BY <1>1, <1>2, <2>2, <2>3, EmptyQueue, Zenon DEF IInv, QueueInv
  <2>9. PendInv'
    <3>1. ASSUME NEW u \in Senders, Holds(pend', u)
          PROVE  spc'[u] \in {"queued", "blocked"} /\ ~woken'[u] /\ ~Holds(queue', u) /\ blocker' # u
        BY <1>1, <2>1, <2>2, <2>3, <3>1, EmptyQueue, Zenon DEF IInv, QueueInv, BlockerInv
    <3> QED
        BY <2>2, <2>3, <3>1, Zenon DEF PendInv
  <2>10. BlockerInv'
      BY <1>1, <2>1, <2>2, <2>5, Zenon DEF IInv, BlockerInv
  <2>11. MessageInv'
    <3>1. cap = 0 /\ size > 0 => blocker = buf[start] /\ blocker \in Senders
      <4>1. cap = 0 /\ size > 0 => buf[start] \in Senders
          BY OneSlot, Zenon DEF IInv
      <4> QED
          BY <1>1, <1>2, <4>1, Zenon DEF IInv, MessageInv, Leaving
    <3>2. cap = 0 /\ size > 0 => spc[buf[start]] = "blocked" /\ flag'[buf[start]]
        BY <2>4, <3>1, Zenon DEF IInv, BlockerInv
    <3>3. ASSUME NEW u \in Senders, spc[u] = "blocked", flag'[u] PROVE size > 0 /\ buf[start] = u
        BY <1>2, <2>4, <3>3, Zenon DEF IInv, BlockerInv
    <3> QED
        BY <1>1, <1>2, <2>2, <2>5, <3>2, <3>3, Zenon DEF MessageInv
  <2> QED
      BY <2>6, <2>7, <2>8, <2>9, <2>10, <2>11, Zenon DEF IInv
<1> QED
    BY <1>3, <1>4, Zenon
(* The deadline of a receiver passes, or the packet is dropped.              *)
LEMMA Rest ==
    ASSUME Setting, IInv, TimeOut \/ PacketDrop
    PROVE  IInv'
<1>1. /\ UNCHANGED <<buf, start, size, channels, disconnected, cap, queue, blocker, canceled, flag, woken>>
      /\ UNCHANGED <<spc, stok, sres, rtok, timed, pend>> /\ rres' = None
    BY Zenon DEF TimeOut, PacketDrop, R, ring, state, sender
<1>2. (rpc = "wait" /\ rpc' = "late" /\ timed) \/ (rpc = "gone" /\ rpc' = "gone")
  <2>1. CASE TimeOut
      BY <2>1, Zenon DEF TimeOut, R
  <2>2. CASE PacketDrop
    <3>1. rpc = "gone" /\ \A s \in Senders : spc[s] = "gone"
        BY <2>2, Zenon DEF PacketDrop
    <3>2. channels = 0
      <4>1. Alive = {}
          BY <3>1, Zenon DEF Alive
      <4> QED
          BY <4>1, Cards, Zenon DEF IInv, CountInv
    <3>3. queue = <<>>
        BY <3>1, TailQueue, Zenon DEF IInv, Types, QueueInv
    <3>4. canceled = None
        BY <3>1, Zenon DEF IInv, Types, BlockerInv
    <3> QED
        BY <2>2, <3>1, <3>2, <3>3, <3>4, Zenon DEF PacketDrop, R
  <2> QED
      BY <2>1, <2>2, Zenon
<1>3. /\ rpc' \in RPC /\ (rpc' \in Waiting <=> rpc \in Waiting) /\ (rpc' \in Leaving <=> rpc \in Leaving)
      /\ rpc' \in {"signal", "dropsignal"} <=> rpc \in {"signal", "dropsignal"}
      /\ rpc' = "late" => timed'
    BY <1>1, <1>2, Zenon DEF RPC, Waiting, Leaving
<1>4. Types'
    BY <1>1, <1>3, Zenon DEF IInv, Types
<1>5. RingInv' /\ CountInv' /\ SlotInv'
  <2>1. RingInv'
      BY <1>1, <1>3, Zenon DEF IInv, RingInv, Slots
  <2> QED
      BY <1>1, <2>1, Zenon DEF IInv, Slots, CountInv, Alive, SlotInv, Seeking
<1>6. QueueInv' /\ PendInv'
  <2>1. QueueInv'
    <3>1. QueueInv
        BY Zenon DEF IInv
    <3> QED
        BY <1>1, <3>1, Zenon DEF QueueInv
  <2>2. PendInv'
      BY <1>1, <1>3, Zenon DEF IInv, PendInv
  <2> QED
      BY <2>1, <2>2, Zenon
<1>7. BlockerInv'
    BY <1>1, <1>3, Zenon DEF IInv, BlockerInv
<1>8. MessageInv'
    BY <1>1, <1>3, Zenon DEF IInv, MessageInv
<1> QED
    BY <1>4, <1>5, <1>6, <1>7, <1>8, Zenon DEF IInv

(* A step in which nothing happens.                                          *)
LEMMA Stutters ==
    ASSUME IInv, UNCHANGED vars
    PROVE  IInv'
<1>1. /\ UNCHANGED <<buf, start, size, channels, disconnected, cap, queue, blocker, canceled, flag, woken>>
      /\ UNCHANGED <<spc, stok, sres, rpc, rtok, timed, pend, rres>>
    BY Zenon DEF vars, ring, state, sender, receiver
<1>2. Types' /\ RingInv'
    BY <1>1, Zenon DEF IInv, Types, RingInv, Slots
<1>3. CountInv' /\ SlotInv'
    BY <1>1, Zenon DEF IInv, Slots, CountInv, Alive, SlotInv, Seeking
<1>4. QueueInv'
  <2>1. QueueInv
      BY Zenon DEF IInv
  <2> QED
      BY <1>1, <2>1, Zenon DEF QueueInv
<1>5. PendInv' /\ BlockerInv'
    BY <1>1, Zenon DEF IInv, PendInv, BlockerInv
<1>6. MessageInv'
    BY <1>1, Zenon DEF IInv, MessageInv
<1> QED
    BY <1>2, <1>3, <1>4, <1>5, <1>6, Zenon DEF IInv

(* Packet::new makes a packet that the invariant holds of.                   *)
LEMMA Starts ==
    ASSUME Setting, Init
    PROVE  IInv
<1>1. cap \in Nat /\ First \in Senders /\ None \notin Senders /\ None \notin Tokens
    BY Zenon DEF Init, Setting
<1>2. Types
  <2>1. queue \in Seq(Senders) /\ pend \in Seq(Senders)
      BY DEF Init
  <2> QED
      BY <2>1, Zenon DEF Init, Types, SPC, RPC
<1>3. RingInv
  <2>1. Slots \in Nat \ {0} /\ buf = [i \in 0 .. Slots - 1 |-> None]
      BY <1>1 DEF Init, Slots
  <2>2. start \in 0 .. Slots - 1 /\ size \in 0 .. Slots /\ size \in Nat
        /\ \A i \in 0 .. Slots - 1 : ~(i < size) /\ (start + i) % Slots \in 0 .. Slots - 1
      BY <2>1 DEF Init
  <2> QED
      BY <1>1, <2>1, <2>2, Zenon DEF RingInv, Ring
<1>4. CountInv
  <2>1. Alive = {First}
      BY <1>1, Zenon DEF Init, Alive
  <2> QED
      BY <2>1, FS_Singleton, Zenon DEF Init, CountInv
<1>5. QueueInv /\ PendInv /\ SlotInv
    BY EmptyQueue, Zenon DEF Init, QueueInv, PendInv, SlotInv
<1>6. BlockerInv
    BY <1>1, Zenon DEF Init, BlockerInv, Waiting
<1>7. MessageInv
  <2>1. ~(size > 0)
      BY DEF Init
  <2> QED
      BY <2>1, Zenon DEF Init, MessageInv
<1> QED
    BY <1>2, <1>3, <1>4, <1>5, <1>6, <1>7, Zenon DEF IInv

(* Every step keeps the invariant.                                           *)
LEMMA StepKeeps == ASSUME Setting, IInv, [Next]_vars PROVE IInv'
<1>1. ASSUME NEW s \in Senders, Send(s) \/ TrySendFails(s) \/ TrySend(s) \/ DropSender(s)
                                \/ SenderStep(s) \/ \E t \in Senders : Clone(s, t)
      PROVE  IInv'
    BY <1>1, StepAside, HandlesChange, Disconnects, Queues, Opens, HandsOver, Closes, Signals, Zenon
       DEF SenderStep
<1>2. ASSUME NEW t \in BOOLEAN, RecvBlocks(t) PROVE IInv'
    BY <1>2, Blocks, Zenon
<1>3. CASE RecvTakes \/ TryRecv \/ TimeOut \/ DropPort \/ ReceiverStep \/ PacketDrop
    BY <1>3, Receives, SignalsNext, DropsPort, Rest, Zenon DEF ReceiverStep
<1>4. CASE UNCHANGED vars
    BY <1>4, Stutters, Zenon
<1> QED
    BY <1>1, <1>2, <1>3, <1>4, Zenon DEF Next

-----------------------------------------------------------------------------
(* No assert, panic!(), unwrap or unreachable!() of sync.rs is reached and   *)
(* the ring buffer is full exactly where start and size say, with any        *)
(* capacity, any number of handles and any interleaving of their calls.      *)
LEMMA NoPanics == ASSUME Setting, IInv PROVE TypeOK /\ NeverPanics
<1>1. channels \in 0 .. Cardinality(Senders)
  <2>1. Alive \in SUBSET Senders /\ Senders \in SUBSET Senders
      BY Zenon DEF Alive
  <2>2. Cardinality(Alive) \in Nat /\ Cardinality(Senders) \in Nat
        /\ Cardinality(Alive) <= Cardinality(Senders)
      BY <2>1, Cards, Zenon
  <2> QED
      BY <2>2 DEF IInv, CountInv
<1>2. Buffered => /\ size \in 0 .. BufLen /\ start \in DOMAIN buf
                  /\ \A i \in 0 .. BufLen - 1 :
                        (buf[(start + i) % BufLen] # None) <=> (i < size)
  <2>1. CASE Ring(buf, start, size, Slots)
    <3>1. BufLen = Slots
        BY <2>1, Length, Zenon DEF IInv, RingInv
    <3> QED
        BY <2>1, <3>1, Zenon DEF Ring
  <2>2. CASE buf = <<>>
    <3>1. DOMAIN buf = {}
        BY <2>2
    <3>2. BufLen = 0
        BY <3>1, FS_EmptySet, Zenon DEF BufLen
    <3> QED
        BY <3>2 DEF Buffered
  <2> QED
      BY <2>1, <2>2, Zenon DEF IInv, RingInv
<1>3. NeverPanics
    BY Zenon DEF IInv, Types, SPC, RPC, NeverPanics
<1> QED
    BY <1>1, <1>2, <1>3, Zenon DEF IInv, Types, QueueInv, TypeOK

(* What is in the slot of a rendezvous channel.                              *)
LEMMA OneMessage ==
    ASSUME RingInv, cap = 0
    PROVE  IF size > 0 THEN Contents = <<buf[start]>> ELSE DOMAIN Contents = {}
<1>1. Ring(buf, start, size, Slots)
    BY OneSlot, Zenon
<1>2. BufLen = 1 /\ size \in 0 .. 1 /\ start = 0
  <2>1. BufLen = Slots /\ Slots = 1
      BY <1>1, Length, Zenon DEF RingInv, Slots
  <2> QED
      BY <1>1, <2>1 DEF Ring
<1>3. CASE size = 1
  <2>1. \A i \in 1 .. 1 : (start + i - 1) % BufLen = start
      BY <1>2
  <2>2. Contents = [i \in 1 .. 1 |-> buf[start]]
      BY <1>3, <2>1, Zenon DEF Contents
  <2> QED
      BY <1>3, <2>2
<1>4. CASE size = 0
    BY <1>4 DEF Contents
<1> QED
    BY <1>2, <1>3, <1>4

(* In a rendezvous, Ok means received: the message of a send that has        *)
(* returned is in the packet only while the receive that takes it runs.      *)
LEMMA OkReceived == ASSUME Setting, IInv PROVE OkMeansReceived
<1> SUFFICES ASSUME cap = 0, NEW s \in Senders, NEW i \in DOMAIN Contents,
                    Contents[i] = s, spc[s] # "blocked"
             PROVE  rpc \in Waiting
    BY Zenon DEF OkMeansReceived, Waiting
<1>1. size > 0 /\ Contents = <<buf[start]>>
    BY OneMessage, Zenon DEF IInv
<1>2. buf[start] = s
    BY <1>1
<1> QED
    BY <1>1, <1>2, Zenon DEF IInv, MessageInv, BlockerInv

(* A sender whose rendezvous was called off by drop_port takes back its own  *)
(* message, and one whose message was received is not told to.               *)
LEMMA OwnMessage == ASSUME Setting, IInv PROVE TakesBackItsOwn
<1> SUFFICES ASSUME NEW s \in Senders, spc[s] = "blocked"
             PROVE  IF flag[s] THEN Contents = <<s>> ELSE (blocker = s) = (Contents = <<s>>)
    BY Zenon DEF TakesBackItsOwn
<1>1. cap = 0 /\ (flag[s] => size > 0 /\ buf[start] = s)
    BY Zenon DEF IInv, MessageInv
<1>2. Contents = <<s>> <=> size > 0 /\ buf[start] = s
  <2>1. IF size > 0 THEN Contents = <<buf[start]>> ELSE DOMAIN Contents = {}
      BY <1>1, OneMessage, Zenon DEF IInv
  <2>2. <<buf[start]>> = <<s>> <=> buf[start] = s
      BY Zenon
  <2>3. DOMAIN <<s>> # {}
      OBVIOUS
  <2> QED
      BY <2>1, <2>2, <2>3, Zenon
<1>3. ~flag[s] => (blocker = s <=> size > 0 /\ buf[start] = s)
    BY <1>1, Zenon DEF IInv, MessageInv, BlockerInv
<1> QED
    BY <1>1, <1>2, <1>3, Zenon

(* A sender sleeps in acquire_send_slot, with no signal on its way, only     *)
(* while every slot is taken or freed for another sender, at any capacity.   *)
LEMMA SlotsBusy == ASSUME Setting, IInv PROVE NoIdleSlot
<1> SUFFICES ASSUME NEW s \in Senders, spc[s] = "queued", s \notin Coming
             PROVE  ~disconnected /\ size + Cardinality(Coming) >= BufLen
    BY Zenon DEF NoIdleSlot
<1>1. \A u \in Senders : Holds(pend, u) <=> \E i \in DOMAIN pend : pend[i] = u
  <2>1. DOMAIN pend = 1 .. Len(pend)
      BY DEF IInv, Types
  <2> QED
      BY <2>1, Zenon DEF Holds
<1>2. Holds(queue, s)
    BY <1>1, Zenon DEF IInv, QueueInv, Coming
<1>3. queue # <<>> /\ ~disconnected
    BY <1>2, EmptyQueue, Zenon DEF IInv, QueueInv
<1>4. Seeking \in SUBSET Coming /\ Coming \in SUBSET Senders /\ Seeking \in SUBSET Senders
    BY <1>1, Zenon DEF Seeking, Coming, IInv, QueueInv
<1>5. Cardinality(Seeking) \in Nat /\ Cardinality(Coming) \in Nat
      /\ Cardinality(Seeking) <= Cardinality(Coming)
    BY <1>4, Cards, Zenon
<1>6. BufLen = Slots /\ size \in Nat /\ Slots \in Nat
    BY <1>3, Length, Zenon DEF IInv, RingInv
<1>7. size + Cardinality(Seeking) >= Slots
    BY <1>3, Zenon DEF IInv, SlotInv
<1> QED
    BY <1>3, <1>5, <1>6, <1>7
=============================================================================
