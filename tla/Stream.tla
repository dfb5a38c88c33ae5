------------------------------- MODULE Stream -------------------------------
(* mpsc::stream::Packet (std/src/sync/mpsc/stream.rs) between one Sender and *)
(* the Receiver, driven the way mpsc/mod.rs drives it.  `cnt` counts what    *)
(* has been sent less what the receiver has accounted for; `steals` is what  *)
(* it has taken without accounting for it.  push, pop and peek of the queue  *)
(* are atomic (SpscQueue).                                                   *)
EXTENDS Integers, Sequences

CONSTANTS Tokens,      \* the addresses a SignalToken can have
          MAX_STEALS,
          MaxLen,      \* bound: messages in the queue
          MaxLate,     \* bound: deadlines that pass; no receive starts after as many
          ISIZE_MAX    \* isize::MAX

VARIABLES
    queue,         \* messages: "Data" and "GoUp"
    cnt, to_wake, port_dropped,   \* ProducerAddition
    steals,                       \* ConsumerAddition
    woken,                        \* blocking::Inner.woken of each token
    spc, smsg, stok,              \* the sender: where it is, its message, a token it took
    rpc, mode, again,             \* the receiver: where it is, the call, second try_recv
    late,                         \* deadlines that have passed in it
    rmsg, rtok, amt, rres         \* its message, token, local count and result

shared == <<queue, cnt, to_wake, port_dropped, woken>>
sender == <<spc, smsg, stok>>
call == <<mode, late>>
receiver == <<steals, rpc, call, again, rmsg, rtok, amt, rres>>
vars == <<shared, sender, receiver>>

(* try_recv, recv and recv_deadline.                                         *)
Modes == {"try", "block", "timed"}

ISIZE_MIN == -ISIZE_MAX - 1
DISCONNECTED == ISIZE_MIN
Wrap(n) == ((n - ISIZE_MIN) % (-2 * ISIZE_MIN)) + ISIZE_MIN

Init ==
    /\ queue = <<>> /\ cnt = 0 /\ to_wake = "none" /\ port_dropped = FALSE /\ steals = 0
    /\ woken = [k \in Tokens |-> FALSE]
    /\ spc = "idle" /\ smsg = "Data" /\ stok = "none"
    /\ rpc = "idle" /\ mode = "try" /\ again = FALSE
    /\ rmsg = "none" /\ rtok = "none" /\ amt = 0 /\ rres = "none" /\ late = 0

S(at) == spc' = at /\ UNCHANGED <<smsg, stok>>
R(at) == rpc' = at /\ UNCHANGED <<steals, call, again, rmsg, rtok, amt, rres>>

-----------------------------------------------------------------------------
(* Where the sender goes from do_send: a packet that has been upgraded is    *)
(* let go (mod.rs:843).                                                      *)
Sent == IF smsg = "Data" THEN "idle" ELSE "drop"

(* send and upgrade look at port_dropped.                                    *)
Send(m) ==
    /\ spc = "idle" /\ Len(queue) < MaxLen
    /\ smsg' = m /\ stok' = "none"
    /\ spc' = IF ~port_dropped THEN "push" ELSE IF m = "Data" THEN "idle" ELSE "drop"
    /\ UNCHANGED <<shared, receiver>>

(* do_send: queue.push                                                       *)
Push ==
    /\ spc = "push"
    /\ queue' = Append(queue, smsg)
    /\ S("add")
    /\ UNCHANGED <<cnt, to_wake, port_dropped, woken, receiver>>

(* Deviation of AfterAdd: a receiver that sleeps two below is not expected.  *)
AfterAddStrict(n) ==
    IF n = -1 THEN "take" ELSE IF n = DISCONNECTED THEN "restore"
    ELSE IF n >= 0 THEN Sent ELSE "panicked"

(* Deviation of AfterAdd: the receiver is not woken.                         *)
AfterAddNoWake(n) ==
    IF n \in {-1, -2} THEN Sent ELSE IF n = DISCONNECTED THEN "restore"
    ELSE IF n >= 0 THEN Sent ELSE "panicked"

(* Deviation of AfterAdd: a disconnected queue is not drained.               *)
AfterAddNoDrain(n) == IF n = -1 THEN "take" ELSE Sent

(* What do_send makes of the count it found.                                 *)
AfterAdd(n) ==
    IF n = -1 THEN "take" ELSE IF n = -2 THEN Sent ELSE IF n = DISCONNECTED THEN "restore"
    ELSE IF n >= 0 THEN Sent ELSE "panicked"

(* cnt.fetch_add(1)                                                          *)
Add ==
    /\ spc = "add"
    /\ cnt' = Wrap(cnt + 1)
    /\ S(AfterAdd(cnt))
    /\ UNCHANGED <<queue, to_wake, port_dropped, woken, receiver>>

(* The port is gone: the count is put back, and the sender pops its message  *)
(* unless the port did.                                                      *)
Restore ==
    /\ spc = "restore"
    /\ cnt' = DISCONNECTED
    /\ S("drain")
    /\ UNCHANGED <<queue, to_wake, port_dropped, woken, receiver>>

Drain ==
    /\ spc = "drain"
    /\ IF queue = <<>> THEN UNCHANGED queue ELSE queue' = Tail(queue)
    /\ S("drained")
    /\ UNCHANGED <<cnt, to_wake, port_dropped, woken, receiver>>

Drained ==
    /\ spc = "drained"
    /\ S(IF queue = <<>> THEN Sent ELSE "panicked")
    /\ UNCHANGED <<shared, receiver>>

(* take_to_wake loads the token ...                                          *)
TakeLoad ==
    /\ spc \in {"take", "droptake"}
    /\ stok' = to_wake
    /\ spc' = IF spc = "take" THEN "taken" ELSE "droptaken"
    /\ UNCHANGED <<smsg, shared, receiver>>

(* ... and clears it.  After an upgrade the shared packet inherits it.       *)
TakeStore ==
    /\ spc \in {"taken", "droptaken"}
    /\ to_wake' = "none"
    /\ spc' = IF stok = "none" THEN "panicked"
              ELSE IF spc = "droptaken" THEN "dropsignal"
              ELSE IF smsg = "Data" THEN "signal" ELSE "drop"
    /\ UNCHANGED <<queue, cnt, port_dropped, woken, smsg, stok, receiver>>

(* SignalToken::signal                                                       *)
Signal ==
    /\ spc \in {"signal", "dropsignal"}
    /\ woken' = [woken EXCEPT ![stok] = TRUE]
    /\ spc' = (IF spc = "signal" THEN Sent ELSE "gone") /\ stok' = "none"
    /\ UNCHANGED <<smsg, queue, cnt, to_wake, port_dropped, receiver>>

(* Some time after the upgrade the shared packet signals the token.          *)
SignalInherited ==
    /\ spc = "gone" /\ stok # "none"
    /\ woken' = [woken EXCEPT ![stok] = TRUE] /\ stok' = "none"
    /\ UNCHANGED <<spc, smsg, queue, cnt, to_wake, port_dropped, receiver>>

(* Drop for Sender.                                                          *)
DropSender ==
    /\ spc = "idle"
    /\ S("drop")
    /\ UNCHANGED <<shared, receiver>>

(* drop_chan: cnt.swap(DISCONNECTED)                                         *)
DropChan ==
    /\ spc = "drop"
    /\ cnt' = DISCONNECTED
    /\ S(IF cnt = -1 THEN "droptake" ELSE IF cnt = DISCONNECTED \/ cnt >= 0 THEN "gone"
         ELSE "panicked")
    /\ UNCHANGED <<queue, to_wake, port_dropped, woken, receiver>>

-----------------------------------------------------------------------------
(* Receiver::recv, recv_deadline and try_recv begin with a try_recv.         *)
Receive(m) ==
    /\ rpc = "idle" /\ late < MaxLate
    /\ rpc' = "pop" /\ mode' = m /\ again' = FALSE /\ rmsg' = "none" /\ rres' = "none"
    /\ UNCHANGED <<late, steals, rtok, amt, shared, sender>>

(* A message found after blocking is not a steal.                            *)
Offset(s) == IF again THEN s - 1 ELSE s

(* try_recv has a message: an upgrade is followed, and the old port dropped. *)
Got(m, s) ==
    /\ steals' = Offset(s)
    /\ rpc' = IF m = "Data" THEN "idle" ELSE "drop"
    /\ rres' = IF m = "Data" THEN "Ok" ELSE "Upgraded"
    /\ rmsg' = "none" /\ UNCHANGED <<call, again, rtok, amt>>

(* try_recv found nothing: recv blocks, once, and recv(None) has no Empty    *)
(* the second time (mod.rs:1129).                                            *)
GotEmpty ==
    /\ rpc' = IF again /\ mode = "block" THEN "unreachable"
              ELSE IF again \/ mode = "try" THEN "idle" ELSE "token"
    /\ rres' = "Empty" /\ UNCHANGED <<steals, call, again, rmsg, rtok, amt>>

(* Deviation of TooManySteals: the steals are never accounted for.           *)
TooManyStealsNever == FALSE

(* The steals must not grow without bound.                                   *)
TooManySteals == steals > MAX_STEALS

(* try_recv: queue.pop()                                                     *)
TryPop ==
    /\ rpc = "pop"
    /\ IF queue = <<>> THEN R("load") /\ UNCHANGED queue
       ELSE /\ queue' = Tail(queue)
            /\ IF TooManySteals
               THEN rpc' = "swap" /\ rmsg' = Head(queue)
                    /\ UNCHANGED <<steals, call, again, rtok, amt, rres>>
               ELSE Got(Head(queue), steals + 1)
    /\ UNCHANGED <<cnt, to_wake, port_dropped, woken, sender>>

(* Too many steals: cnt.swap(0), and as many of them as possible are         *)
(* accounted for.                                                            *)
StealSwap ==
    /\ rpc = "swap"
    /\ cnt' = 0
    /\ IF cnt = DISCONNECTED
       THEN R("swaprestore")
       ELSE LET m == IF cnt < steals THEN cnt ELSE steals
            IN  /\ steals' = steals - m /\ amt' = cnt - m
                /\ rpc' = "bump" /\ UNCHANGED <<call, again, rmsg, rtok, rres>>
    /\ UNCHANGED <<queue, to_wake, port_dropped, woken, sender>>

(* assert!(steals >= 0), and the message counts as stolen.                   *)
Stole == IF steals >= 0 THEN Got(rmsg, steals + 1) ELSE R("panicked")

(* Deviation of Bumped: what could not be accounted for is forgotten.        *)
BumpedNothing(n) == Wrap(cnt)

(* What fetch_add leaves in cnt.                                             *)
Bumped(n) == Wrap(cnt + n)

(* bump(n - m)                                                               *)
StealBump ==
    /\ rpc = "bump"
    /\ cnt' = Bumped(amt)
    /\ IF cnt = DISCONNECTED THEN R("swaprestore") ELSE Stole
    /\ UNCHANGED <<queue, to_wake, port_dropped, woken, sender>>

StealRestore ==
    /\ rpc = "swaprestore"
    /\ cnt' = DISCONNECTED
    /\ Stole
    /\ UNCHANGED <<queue, to_wake, port_dropped, woken, sender>>

(* Nothing popped: Empty, unless the sender is gone.                         *)
TryLoad ==
    /\ rpc = "load"
    /\ IF cnt = DISCONNECTED THEN R("popagain") ELSE GotEmpty
    /\ UNCHANGED <<shared, sender>>

(* Deviation of LastLook: a message sent before the disconnection is missed. *)
LastLookSkipped == <<>>

(* What the last pop of try_recv can find.                                   *)
LastLook == queue

(* One more pop; the steals do not matter any more.                          *)
TryPopAgain ==
    /\ rpc = "popagain"
    /\ IF LastLook # <<>> THEN queue' = Tail(queue) /\ Got(Head(queue), steals)
       ELSE /\ rpc' = "idle" /\ rres' = "Disconnected"
            /\ UNCHANGED <<queue, steals, call, again, rmsg, rtok, amt>>
    /\ UNCHANGED <<cnt, to_wake, port_dropped, woken, sender>>

-----------------------------------------------------------------------------
(* recv makes a pair of tokens; decrement asserts that to_wake is 0 and      *)
(* stores the SignalToken.                                                   *)
StoreToken ==
    /\ rpc = "token"
    /\ IF to_wake # "none" THEN R("panicked") /\ UNCHANGED <<to_wake, woken>>
       ELSE \E k \in Tokens \ {stok} :
               /\ to_wake' = k /\ rtok' = k /\ woken' = [woken EXCEPT ![k] = FALSE]
               /\ rpc' = "sub" /\ again' = TRUE
               /\ UNCHANGED <<steals, call, rmsg, amt, rres>>
    /\ UNCHANGED <<queue, cnt, port_dropped, sender>>

(* decrement: the count, less the steals, shows no message.                  *)
Sleeps(n, s) == n - s <= 0

(* decrement: cnt.fetch_sub(1 + steals)                                      *)
Subtract ==
    /\ rpc = "sub"
    /\ steals' = 0
    /\ cnt' = Wrap(cnt - (1 + steals))
    /\ rpc' = IF cnt = DISCONNECTED THEN "subrestore" ELSE IF cnt < 0 THEN "panicked"
              ELSE IF Sleeps(cnt, steals) THEN "wait" ELSE "undo"
    /\ UNCHANGED <<queue, to_wake, port_dropped, woken, sender, call, again, rmsg, rtok, amt, rres>>

SubtractRestore ==
    /\ rpc = "subrestore"
    /\ cnt' = DISCONNECTED
    /\ R("undo")
    /\ UNCHANGED <<queue, to_wake, port_dropped, woken, sender>>

(* decrement did not succeed: the token is taken back.                       *)
Undo ==
    /\ rpc = "undo"
    /\ to_wake' = "none" /\ rtok' = "none" /\ rpc' = "pop"
    /\ UNCHANGED <<queue, cnt, port_dropped, woken, sender, steals, call, again, rmsg, amt, rres>>

(* WaitToken::wait, wait_max_until: after a signal recv tries again.         *)
Wake ==
    /\ rpc = "wait" /\ woken[rtok]
    /\ rpc' = "pop" /\ rtok' = "none"
    /\ UNCHANGED <<shared, sender, steals, call, again, rmsg, amt, rres>>

(* wait_max_until finds the deadline passed and no signal.                   *)
TimeOut ==
    /\ rpc = "wait" /\ mode = "timed" /\ ~woken[rtok] /\ late < MaxLate
    /\ rpc' = "abort" /\ late' = late + 1
    /\ UNCHANGED <<shared, sender, steals, mode, again, rmsg, rtok, amt, rres>>

(* abort_selection(false): bump(steals + 1) with steals = 1.                 *)
AbortBump ==
    /\ rpc = "abort"
    /\ cnt' = Wrap(cnt + 2)
    /\ amt' = cnt
    /\ rpc' = IF cnt = DISCONNECTED THEN "abortrestore" ELSE IF cnt + 2 < 0 THEN "panicked"
              ELSE IF cnt < 0 THEN "aborttake" ELSE "abortspin"
    /\ UNCHANGED <<queue, to_wake, port_dropped, woken, sender, steals, call, again, rmsg, rtok, rres>>

AbortRestore ==
    /\ rpc = "abortrestore"
    /\ cnt' = DISCONNECTED
    /\ rpc' = "abortassert"
    /\ UNCHANGED <<queue, to_wake, port_dropped, woken, sender, steals, call, again, rmsg, rtok, amt, rres>>

(* Disconnected before: to_wake must be clear.                               *)
AbortAssert ==
    /\ rpc = "abortassert"
    /\ R(IF to_wake = "none" THEN "peek" ELSE "panicked")
    /\ UNCHANGED <<shared, sender>>

(* Not yet woken: the token is taken back; steals must be 0 and becomes 1.   *)
AbortTake ==
    /\ rpc = "aborttake"
    /\ to_wake' = "none"
    /\ rpc' = IF to_wake = "none" \/ steals # 0 THEN "panicked" ELSE "pop"
    /\ steals' = 1 /\ rtok' = "none"
    /\ UNCHANGED <<queue, cnt, port_dropped, woken, sender, call, again, rmsg, amt, rres>>

(* A sender is about to wake this thread: spin until it has the token.       *)
AbortSpin ==
    /\ rpc = "abortspin" /\ to_wake = "none"
    /\ rpc' = IF steals = 0 THEN "peek" ELSE "panicked"
    /\ steals' = 1 /\ rtok' = "none"
    /\ UNCHANGED <<shared, sender, call, again, rmsg, amt, rres>>

(* With data on the queue, an upgrade is popped and returned.                *)
AbortPeek ==
    /\ rpc = "peek"
    /\ IF queue # <<>> /\ Head(queue) = "GoUp"
       THEN /\ queue' = Tail(queue)
            /\ rpc' = "drop" /\ rres' = "Upgraded" /\ UNCHANGED <<steals, call, again, rmsg, rtok, amt>>
       ELSE R("pop") /\ UNCHANGED queue
    /\ UNCHANGED <<cnt, to_wake, port_dropped, woken, sender>>

-----------------------------------------------------------------------------
(* Drop for Receiver.                                                        *)
DropReceiver ==
    /\ rpc = "idle"
    /\ R("drop")
    /\ UNCHANGED <<shared, sender>>

(* drop_port: the flag, and the local copy of steals.                        *)
DropFlag ==
    /\ rpc = "drop"
    /\ port_dropped' = TRUE
    /\ rpc' = "dropcas" /\ amt' = steals
    /\ UNCHANGED <<queue, cnt, to_wake, woken, sender, steals, call, again, rmsg, rtok, rres>>

(* Deviation of Empties: the steals are not taken into account.              *)
EmptiesAtZero == cnt = 0

(* The count equals the steals.                                              *)
Empties == cnt = amt

(* Deviation of DropExchange: disconnect first, then drain.                  *)
DropExchangeFirst ==
    /\ rpc = "dropcas"
    /\ cnt' = DISCONNECTED
    /\ R(IF cnt = DISCONNECTED THEN "gone" ELSE "dropdrain")
    /\ UNCHANGED <<queue, to_wake, port_dropped, woken, sender>>

(* compare_exchange(steals, DISCONNECTED)                                    *)
DropExchange ==
    /\ rpc = "dropcas"
    /\ cnt' = IF Empties THEN DISCONNECTED ELSE cnt
    /\ R(IF Empties \/ cnt = DISCONNECTED THEN "gone" ELSE "dropdrain")
    /\ UNCHANGED <<queue, to_wake, port_dropped, woken, sender>>

(* while queue.pop().is_some() { steals += 1 }                               *)
DropDrain ==
    /\ rpc = "dropdrain"
    /\ IF queue = <<>> THEN R("dropcas") /\ UNCHANGED queue
       ELSE /\ queue' = Tail(queue) /\ amt' = amt + 1
            /\ UNCHANGED <<steals, rpc, call, again, rmsg, rtok, rres>>
    /\ UNCHANGED <<cnt, to_wake, port_dropped, woken, sender>>

(* Drop for Packet, once both handles are gone.                              *)
PacketDrop ==
    /\ spc = "gone" /\ rpc = "gone"
    /\ spc' = IF cnt = DISCONNECTED /\ to_wake = "none" THEN "gone" ELSE "panicked"
    /\ UNCHANGED <<shared, smsg, stok, receiver>>

SenderStep ==
    Push \/ Add \/ Restore \/ Drain \/ Drained \/ TakeLoad \/ TakeStore \/ Signal \/ DropChan

ReceiverStep ==
    \/ TryPop \/ StealSwap \/ StealBump \/ StealRestore \/ TryLoad \/ TryPopAgain
    \/ StoreToken \/ Subtract \/ SubtractRestore \/ Undo \/ Wake
    \/ AbortBump \/ AbortRestore \/ AbortAssert \/ AbortTake \/ AbortSpin \/ AbortPeek
    \/ DropFlag \/ DropExchange \/ DropDrain

Next ==
    \/ (\E m \in {"Data", "GoUp"} : Send(m)) \/ DropSender \/ SenderStep \/ SignalInherited
    \/ (\E m \in Modes : Receive(m)) \/ DropReceiver \/ ReceiverStep \/ TimeOut
    \/ PacketDrop

Spec == Init /\ [][Next]_vars

-----------------------------------------------------------------------------
(* The type of every variable.                                               *)
TypeOK ==
    /\ queue \in Seq({"Data", "GoUp"}) /\ cnt \in ISIZE_MIN .. ISIZE_MAX
    /\ steals \in -1 .. MAX_STEALS + MaxLen + 2 /\ port_dropped \in BOOLEAN
    /\ woken \in [Tokens -> BOOLEAN] /\ {to_wake, stok, rtok} \subseteq Tokens \cup {"none"}
    /\ smsg \in {"Data", "GoUp"} /\ mode \in Modes /\ late \in 0 .. MaxLate /\ again \in BOOLEAN
    /\ rmsg \in {"Data", "GoUp", "none"} /\ amt \in Int
    /\ rres \in {"none", "Ok", "Empty", "Upgraded", "Disconnected"}

(* Until a deadline passes no assert of stream.rs fails, and recv never      *)
(* meets an Empty it has no case for (mod.rs:1129).                          *)
NeverPanics == late = 0 => spc # "panicked" /\ rpc \notin {"panicked", "unreachable"}

(* Until a deadline passes, and while both ends are connected, the count,    *)
(* less the steals, is the number of messages on the queue, less the one     *)
(* whose send has yet to be counted, less the one a blocking recv has        *)
(* accounted for in advance.                                                 *)
Expecting == again /\ rpc \in {"pop", "load", "swap", "bump", "wait", "undo"}

Quiet == rpc \notin {"bump", "swaprestore", "dropcas", "dropdrain", "gone", "drop"}

CountBalanced ==
    late = 0 /\ cnt >= -2 /\ Quiet /\ spc \notin {"restore", "drain", "drained", "gone"} =>
        cnt - steals = Len(queue) - (IF spc = "add" THEN 1 ELSE 0)
                       + (IF rpc = "swap" THEN 1 ELSE 0) - (IF Expecting THEN 1 ELSE 0)

(* The queue has one popper: the sender drains it only when the receiver has *)
(* left it for good, as SpscQueue requires.                                  *)
OnePopper ==
    spc \in {"restore", "drain", "drained"} => rpc = "gone"

(* The receiver hears of a disconnection or an upgrade only when the queue   *)
(* holds nothing more and nothing can come.                                  *)
DrainedBeforeLeaving ==
    /\ rres = "Disconnected" => queue = <<>> /\ spc \in {"gone", "droptake", "droptaken", "dropsignal"}
    /\ rres = "Upgraded" => queue = <<>> /\ spc # "idle"

(* With the receiver gone and the sender still there, no message is left in  *)
(* the queue: drop_port, or the send it raced with, has dropped every one.   *)
NothingLeftBehind == rpc = "gone" /\ spc = "idle" => queue = <<>>

(* The receiver sleeps, but there is a message or the sender is gone.  A     *)
(* message that is an upgrade hands the sleeper on to the shared packet.     *)
MustWake == rpc = "wait" /\ smsg = "Data" /\ (queue # <<>> \/ spc = "drop")

(* recv(None) never returns Empty: Receiver::recv has unreachable!() for it  *)
(* (mod.rs:1129).                                                            *)
RecvNeverEmpty == rpc # "unreachable"
=============================================================================
