------------------------------- MODULE Shared -------------------------------
(* mpsc::shared::Packet (std/src/sync/mpsc/shared.rs): the channel of a      *)
(* cloned Sender.  The first clone creates it, publishes its port through    *)
(* the packet it replaces, and lets it inherit the receiver if that is       *)
(* asleep there (Clone for Sender, mpsc/mod.rs).  A push makes its message   *)
(* part of the queue first and reachable afterwards (MpscQueue): an entry is *)
(* the sender that still has to link it, or "linked".                        *)
EXTENDS Integers, Sequences, FiniteSets

CONSTANTS Senders,     \* the Sender handles, each used by one thread
          Creator, Clone1,   \* the two handles there are at first
          Tokens,      \* the addresses a SignalToken can have
          MAX_STEALS, FUDGE,
          MaxLen,      \* bound: messages in the queue
          MaxLate,     \* bound: deadlines that pass; no receive starts after as many
          ISIZE_MAX,   \* isize::MAX
          MAX_REFCOUNT \* isize::MAX too, of the count of handles

VARIABLES
    queue, cnt, to_wake, channels, port_dropped, sender_drain,
    lock,                     \* select_lock is held (by the creator)
    woken,                    \* blocking::Inner.woken of each token
    spc, stok,                \* each sender: where it is, a token it holds
    steals, rpc, mode, again, rtok, amt, rres,   \* the receiver
    late                      \* deadlines that have passed

packet == <<queue, cnt, to_wake, channels, port_dropped, sender_drain, lock, woken>>
sender == <<spc, stok>>
call == <<mode, late>>
receiver == <<steals, rpc, call, again, rtok, amt, rres>>
vars == <<packet, sender, receiver>>

(* try_recv, recv and recv_deadline.                                         *)
Modes == {"try", "block", "timed"}

ISIZE_MIN == -ISIZE_MAX - 1
DISCONNECTED == ISIZE_MIN
Wrap(n) == ((n - ISIZE_MIN) % (-2 * ISIZE_MIN)) + ISIZE_MIN

(* Packet::new, and the lock taken; the port is in the old packet, where the *)
(* receiver runs, or sleeps on a token that the creator has just taken.      *)
Init ==
    /\ queue = <<>> /\ cnt = 0 /\ to_wake = "none" /\ channels = 2
    /\ port_dropped = FALSE /\ sender_drain = 0 /\ lock = TRUE
    /\ woken = [k \in Tokens |-> FALSE]
    /\ \E sleeper \in {CHOOSE k \in Tokens : TRUE, "none"} :
          /\ stok = [s \in Senders |-> IF s = Creator THEN sleeper ELSE "none"]
          /\ rtok = sleeper
          /\ rpc = IF sleeper = "none" THEN "old" ELSE "oldwait"
    /\ mode \in Modes /\ (rpc = "oldwait" => mode # "try")
    /\ spc = [s \in Senders |-> CASE s = Creator -> "inherit" [] s = Clone1 -> "unborn" [] OTHER -> "gone"]
    /\ steals = 0 /\ again = FALSE /\ amt = 0 /\ rres = "none" /\ late = 0

S(s, at) == spc' = [spc EXCEPT ![s] = at] /\ UNCHANGED stok
R(at) == rpc' = at /\ UNCHANGED <<steals, call, again, rtok, amt, rres>>

-----------------------------------------------------------------------------
(* inherit_blocker asserts that nobody has used the packet, ...              *)
InheritAssert ==
    /\ spc[Creator] = "inherit"
    /\ S(Creator, IF stok[Creator] = "none" THEN "unlock"
                  ELSE IF cnt = 0 /\ to_wake = "none" THEN "inherittoken" ELSE "panicked")
    /\ UNCHANGED <<packet, receiver>>

(* ... puts the sleeper's token in to_wake, ...                              *)
InheritToken ==
    /\ spc[Creator] = "inherittoken"
    /\ to_wake' = stok[Creator]
    /\ spc' = [spc EXCEPT ![Creator] = "inheritcnt"] /\ stok' = [stok EXCEPT ![Creator] = "none"]
    /\ UNCHANGED <<queue, cnt, channels, port_dropped, sender_drain, lock, woken, receiver>>

(* Deviation of InheritedSteals: the sleeper's first message is a steal.     *)
InheritedStealsNone == 0

(* The sleeper's first message must not count as a steal.                    *)
InheritedSteals == -1

(* ... makes the count that of a sleeping receiver, ...                      *)
InheritCount ==
    /\ spc[Creator] = "inheritcnt"
    /\ cnt' = -1
    /\ S(Creator, "inheritsteals")
    /\ UNCHANGED <<queue, to_wake, channels, port_dropped, sender_drain, lock, woken, receiver>>

InheritSteals ==
    /\ spc[Creator] = "inheritsteals"
    /\ steals' = InheritedSteals
    /\ S(Creator, "unlock")
    /\ UNCHANGED <<packet, rpc, call, again, rtok, amt, rres>>

(* ... and drops the guard.  The clone returns, with a second handle.        *)
InheritUnlock ==
    /\ spc[Creator] = "unlock"
    /\ lock' = FALSE
    /\ spc' = [spc EXCEPT ![Creator] = "idle", ![Clone1] = "idle"]
    /\ UNCHANGED <<queue, cnt, to_wake, channels, port_dropped, sender_drain, woken, stok, receiver>>

(* clone_chan; the new handle takes the name of one that is gone.  With too  *)
(* many handles, forgotten ones among them, it aborts: the behaviour ends.   *)
Clone(s, t) ==
    /\ spc[s] = "idle" /\ spc[t] = "gone" /\ channels <= MAX_REFCOUNT
    /\ channels' = channels + 1
    /\ S(t, "idle")
    /\ UNCHANGED <<queue, cnt, to_wake, port_dropped, sender_drain, lock, woken, receiver>>

(* send looks at port_dropped ...                                            *)
Send(s) ==
    /\ spc[s] = "idle" /\ Len(queue) < MaxLen
    /\ S(s, IF port_dropped THEN "idle" ELSE "preflight")
    /\ UNCHANGED <<packet, receiver>>

(* ... and at the count, which is near the minimum when the port is gone.    *)
Preflight(s) ==
    /\ spc[s] = "preflight"
    /\ S(s, IF cnt < DISCONNECTED + FUDGE THEN "idle" ELSE "push")
    /\ UNCHANGED <<packet, receiver>>

(* queue.push: the swap of head, then the link.                              *)
Push(s) ==
    /\ spc[s] = "push"
    /\ queue' = Append(queue, s)
    /\ S(s, "link")
    /\ UNCHANGED <<cnt, to_wake, channels, port_dropped, sender_drain, lock, woken, receiver>>

Link(s) ==
    /\ spc[s] = "link"
    /\ queue' = [i \in DOMAIN queue |-> IF queue[i] = s THEN "linked" ELSE queue[i]]
    /\ S(s, "add")
    /\ UNCHANGED <<cnt, to_wake, channels, port_dropped, sender_drain, lock, woken, receiver>>

(* Deviation of AfterAdd: the receiver is not woken.                         *)
AfterAddNoWake(n) == IF n < DISCONNECTED + FUDGE THEN "restore" ELSE "idle"

(* What send makes of the count it found.                                    *)
AfterAdd(n) ==
    IF n = -1 THEN "take" ELSE IF n < DISCONNECTED + FUDGE THEN "restore" ELSE "idle"

(* cnt.fetch_add(1)                                                          *)
Add(s) ==
    /\ spc[s] = "add"
    /\ cnt' = Wrap(cnt + 1)
    /\ S(s, AfterAdd(cnt))
    /\ UNCHANGED <<queue, to_wake, channels, port_dropped, sender_drain, lock, woken, receiver>>

(* The port is gone: the count is put back.                                  *)
Restore(s) ==
    /\ spc[s] = "restore"
    /\ cnt' = DISCONNECTED
    /\ S(s, "enter")
    /\ UNCHANGED <<queue, to_wake, channels, port_dropped, sender_drain, lock, woken, receiver>>

(* Deviation of Drains: every sender that finds the port gone drains.        *)
DrainsAlways(n) == TRUE

(* Only the first of the senders that come here drains the queue.            *)
Drains(n) == n = 0

(* sender_drain.fetch_add(1)                                                 *)
Enter(s) ==
    /\ spc[s] = "enter"
    /\ sender_drain' = sender_drain + 1
    /\ S(s, IF Drains(sender_drain) THEN "drain" ELSE "idle")
    /\ UNCHANGED <<queue, cnt, to_wake, channels, port_dropped, lock, woken, receiver>>

(* The inner loop: pop until Empty; wait for a push that is not linked yet.  *)
Drain(s) ==
    /\ spc[s] = "drain"
    /\ \/ queue = <<>> /\ S(s, "leave") /\ UNCHANGED queue
       \/ queue # <<>> /\ Head(queue) = "linked" /\ queue' = Tail(queue) /\ UNCHANGED sender
    /\ UNCHANGED <<cnt, to_wake, channels, port_dropped, sender_drain, lock, woken, receiver>>

(* Deviation of DrainEnds: one pass over the queue is enough.                *)
DrainEndsAtOnce(n) == TRUE

(* The drain ends when no other sender has come since.                       *)
DrainEnds(n) == n = 1

(* sender_drain.fetch_sub(1)                                                 *)
Leave(s) ==
    /\ spc[s] = "leave"
    /\ sender_drain' = sender_drain - 1
    /\ S(s, IF DrainEnds(sender_drain) THEN "idle" ELSE "drain")
    /\ UNCHANGED <<queue, cnt, to_wake, channels, port_dropped, lock, woken, receiver>>

(* take_to_wake loads the token, then clears to_wake, then it is signalled.  *)
TakeLoad(s) ==
    /\ spc[s] \in {"take", "droptake"}
    /\ stok' = [stok EXCEPT ![s] = to_wake]
    /\ spc' = [spc EXCEPT ![s] = IF @ = "take" THEN "taken" ELSE "droptaken"]
    /\ UNCHANGED <<packet, receiver>>

TakeStore(s) ==
    /\ spc[s] \in {"taken", "droptaken"}
    /\ to_wake' = "none"
    /\ S(s, IF stok[s] = "none" THEN "panicked"
            ELSE IF spc[s] = "taken" THEN "signal" ELSE "dropsignal")
    /\ UNCHANGED <<queue, cnt, channels, port_dropped, sender_drain, lock, woken, receiver>>

Signal(s) ==
    /\ spc[s] \in {"signal", "dropsignal"}
    /\ woken' = [woken EXCEPT ![stok[s]] = TRUE]
    /\ spc' = [spc EXCEPT ![s] = IF @ = "signal" THEN "idle" ELSE "gone"]
    /\ stok' = [stok EXCEPT ![s] = "none"]
    /\ UNCHANGED <<queue, cnt, to_wake, channels, port_dropped, sender_drain, lock, receiver>>

(* Drop for Sender: channels.fetch_sub(1)                                    *)
DropSender(s) ==
    /\ spc[s] = "idle"
    /\ channels' = channels - 1
    /\ S(s, IF channels = 1 THEN "disconnect" ELSE IF channels > 1 THEN "gone" ELSE "panicked")
    /\ UNCHANGED <<queue, cnt, to_wake, port_dropped, sender_drain, lock, woken, receiver>>

(* The last one: cnt.swap(DISCONNECTED)                                      *)
Disconnect(s) ==
    /\ spc[s] = "disconnect"
    /\ cnt' = DISCONNECTED
    /\ S(s, IF cnt = -1 THEN "droptake" ELSE IF cnt = DISCONNECTED \/ cnt >= 0 THEN "gone"
            ELSE "panicked")
    /\ UNCHANGED <<queue, to_wake, channels, port_dropped, sender_drain, lock, woken, receiver>>

-----------------------------------------------------------------------------
(* The receiver, awake in the old packet, finds the port there and moves on. *)
Arrive ==
    /\ rpc = "old"
    /\ R("idle")
    /\ UNCHANGED <<packet, sender>>

(* The receiver, asleep in the old packet, is woken and calls recv here.     *)
ArriveWoken ==
    /\ rpc = "oldwait" /\ woken[rtok]
    /\ rpc' = "pop" /\ rtok' = "none"
    /\ UNCHANGED <<packet, sender, steals, call, again, amt, rres>>

(* The deadline passes while the receiver is in the old packet: it finds the *)
(* port there, signalled or not, moves on, and recv_deadline returns Timeout *)
(* (mod.rs:1335).                                                            *)
ArriveLate ==
    /\ rpc = "oldwait" /\ mode = "timed" /\ late < MaxLate
    /\ rpc' = "idle" /\ rtok' = "none" /\ rres' = "Empty" /\ late' = late + 1
    /\ UNCHANGED <<packet, sender, steals, mode, again, amt>>

(* Receiver::recv, recv_deadline and try_recv begin with a try_recv.         *)
Receive(m) ==
    /\ rpc = "idle" /\ late < MaxLate
    /\ rpc' = "pop" /\ mode' = m /\ again' = FALSE /\ rres' = "none"
    /\ UNCHANGED <<late, steals, rtok, amt, packet, sender>>

(* A message found after blocking is not a steal.                            *)
Got(s) ==
    /\ steals' = IF again THEN s - 1 ELSE s
    /\ rpc' = "idle" /\ rres' = "Ok" /\ UNCHANGED <<call, again, rtok, amt>>

(* try_recv found nothing: recv blocks, once, and recv(None) has no Empty    *)
(* the second time (mod.rs:1134).                                            *)
GotEmpty ==
    /\ rpc' = IF again /\ mode = "block" THEN "unreachable"
              ELSE IF again \/ mode = "try" THEN "idle" ELSE "token"
    /\ rres' = "Empty" /\ UNCHANGED <<steals, call, again, rtok, amt>>

(* try_recv: queue.pop(), again and again while it is Inconsistent.          *)
TryPop ==
    /\ rpc \in {"pop", "spin"}
    /\ IF queue = <<>>
       THEN R(IF rpc = "pop" THEN "load" ELSE "panicked") /\ UNCHANGED queue
       ELSE IF Head(queue) # "linked" THEN rpc = "pop" /\ R("spin") /\ UNCHANGED queue
       ELSE /\ queue' = Tail(queue)
            /\ IF steals > MAX_STEALS THEN R("swap") ELSE Got(steals + 1)
    /\ UNCHANGED <<cnt, to_wake, channels, port_dropped, sender_drain, lock, woken, sender>>

(* Too many steals: cnt.swap(0), and as many of them as possible are         *)
(* accounted for.                                                            *)
StealSwap ==
    /\ rpc = "swap"
    /\ cnt' = 0
    /\ IF cnt = DISCONNECTED THEN R("swaprestore")
       ELSE LET m == IF cnt < steals THEN cnt ELSE steals
            IN  /\ steals' = steals - m /\ amt' = cnt - m
                /\ rpc' = "bump" /\ UNCHANGED <<call, again, rtok, rres>>
    /\ UNCHANGED <<queue, to_wake, channels, port_dropped, sender_drain, lock, woken, sender>>

(* assert!(steals >= 0), and the message counts as stolen.                   *)
Stole == IF steals >= 0 THEN Got(steals + 1) ELSE R("panicked")

(* Deviation of Bumped: what could not be accounted for is forgotten.        *)
BumpedNothing(n) == cnt

(* What fetch_add leaves in cnt.                                             *)
Bumped(n) == Wrap(cnt + n)

StealBump ==
    /\ rpc = "bump"
    /\ cnt' = Bumped(amt)
    /\ IF cnt = DISCONNECTED THEN R("swaprestore") ELSE Stole
    /\ UNCHANGED <<queue, to_wake, channels, port_dropped, sender_drain, lock, woken, sender>>

StealRestore ==
    /\ rpc = "swaprestore"
    /\ cnt' = DISCONNECTED
    /\ Stole
    /\ UNCHANGED <<queue, to_wake, channels, port_dropped, sender_drain, lock, woken, sender>>

(* Nothing popped: Empty, unless all senders are gone.                       *)
TryLoad ==
    /\ rpc = "load"
    /\ IF cnt = DISCONNECTED THEN R("popagain") ELSE GotEmpty
    /\ UNCHANGED <<packet, sender>>

(* One more pop; with no senders an Inconsistent is impossible.              *)
TryPopAgain ==
    /\ rpc = "popagain"
    /\ IF queue = <<>>
       THEN rpc' = "idle" /\ rres' = "Disconnected"
            /\ UNCHANGED <<queue, steals, call, again, rtok, amt>>
       ELSE IF Head(queue) # "linked" THEN R("panicked") /\ UNCHANGED queue
       ELSE queue' = Tail(queue) /\ Got(steals)
    /\ UNCHANGED <<cnt, to_wake, channels, port_dropped, sender_drain, lock, woken, sender>>

-----------------------------------------------------------------------------
(* An address for a new token: which one makes no difference.                *)
FreeToken == CHOOSE k \in Tokens : \A s \in Senders : stok[s] # k

(* recv makes a pair of tokens; decrement asserts that to_wake is 0 and      *)
(* stores the SignalToken.                                                   *)
StoreToken ==
    /\ rpc = "token"
    /\ IF to_wake # "none" THEN R("toldasleep") /\ UNCHANGED <<to_wake, woken>>
       ELSE LET k == FreeToken IN
               /\ to_wake' = k /\ rtok' = k /\ woken' = [woken EXCEPT ![k] = FALSE]
               /\ rpc' = "sub" /\ again' = TRUE /\ UNCHANGED <<steals, call, amt, rres>>
    /\ UNCHANGED <<queue, cnt, channels, port_dropped, sender_drain, lock, sender>>

(* decrement: cnt.fetch_sub(1 + steals); it sleeps if the count, less the    *)
(* steals, shows no message.                                                 *)
Subtract ==
    /\ rpc = "sub"
    /\ steals' = 0
    /\ cnt' = Wrap(cnt - (1 + steals))
    /\ rpc' = IF cnt = DISCONNECTED THEN "subrestore" ELSE IF cnt < 0 THEN "panicked"
              ELSE IF cnt - steals <= 0 THEN "wait" ELSE "undo"
    /\ UNCHANGED <<queue, to_wake, channels, port_dropped, sender_drain, lock, woken, sender,
                   call, again, rtok, amt, rres>>

SubtractRestore ==
    /\ rpc = "subrestore"
    /\ cnt' = DISCONNECTED
    /\ R("undo")
    /\ UNCHANGED <<queue, to_wake, channels, port_dropped, sender_drain, lock, woken, sender>>

(* decrement did not succeed: the token is taken back.                       *)
Undo ==
    /\ rpc = "undo"
    /\ to_wake' = "none" /\ rtok' = "none" /\ rpc' = "pop"
    /\ UNCHANGED <<queue, cnt, channels, port_dropped, sender_drain, lock, woken, sender,
                   steals, call, again, amt, rres>>

(* WaitToken::wait, wait_max_until: after a signal recv tries again.         *)
Wake ==
    /\ rpc = "wait" /\ woken[rtok]
    /\ rpc' = "pop" /\ rtok' = "none"
    /\ UNCHANGED <<packet, sender, steals, call, again, amt, rres>>

(* wait_max_until finds the deadline passed and no signal.                   *)
TimeOut ==
    /\ rpc = "wait" /\ mode = "timed" /\ ~woken[rtok] /\ late < MaxLate
    /\ rpc' = "abort" /\ late' = late + 1
    /\ UNCHANGED <<packet, sender, steals, mode, again, rtok, amt, rres>>

(* abort_selection bounces on the lock, and looks how negative the count is. *)
AbortLoad ==
    /\ rpc = "abort" /\ ~lock
    /\ amt' = IF cnt < 0 /\ cnt # DISCONNECTED THEN -cnt ELSE 0
    /\ rpc' = "abortbump"
    /\ UNCHANGED <<packet, sender, steals, call, again, rtok, rres>>

(* bump(steals + 1)                                                          *)
AbortBump ==
    /\ rpc = "abortbump"
    /\ cnt' = Wrap(cnt + amt + 1)
    /\ R(IF cnt = DISCONNECTED THEN "abortrestore" ELSE IF cnt + amt + 1 < 0 THEN "panicked"
         ELSE IF cnt < 0 THEN "aborttake" ELSE "abortspin")
    /\ UNCHANGED <<queue, to_wake, channels, port_dropped, sender_drain, lock, woken, sender>>

AbortRestore ==
    /\ rpc = "abortrestore"
    /\ cnt' = DISCONNECTED
    /\ R("abortassert")
    /\ UNCHANGED <<queue, to_wake, channels, port_dropped, sender_drain, lock, woken, sender>>

(* Disconnected before: to_wake must be clear.                               *)
AbortAssert ==
    /\ rpc = "abortassert"
    /\ R(IF to_wake = "none" THEN "pop" ELSE "panicked")
    /\ UNCHANGED <<packet, sender>>

(* The token is taken back, or a sender that will wake this thread waited    *)
(* for; steals must be 0 or -1 and becomes what was added.                   *)
AbortTake ==
    /\ rpc \in {"aborttake", "abortspin"} /\ (rpc = "abortspin" => to_wake = "none")
    /\ to_wake' = "none"
    /\ rpc' = IF (rpc = "aborttake" /\ to_wake = "none") \/ steals \notin {0, -1}
              THEN "panicked" ELSE "pop"
    /\ steals' = amt /\ rtok' = "none"
    /\ UNCHANGED <<queue, cnt, channels, port_dropped, sender_drain, lock, woken, sender,
                   call, again, amt, rres>>

-----------------------------------------------------------------------------
(* Drop for Receiver.                                                        *)
DropReceiver ==
    /\ rpc = "idle"
    /\ R("drop")
    /\ UNCHANGED <<packet, sender>>

(* drop_port: the flag, and the local copy of steals.                        *)
DropFlag ==
    /\ rpc = "drop"
    /\ port_dropped' = TRUE
    /\ rpc' = "dropcas" /\ amt' = steals
    /\ UNCHANGED <<queue, cnt, to_wake, channels, sender_drain, lock, woken, sender,
                   steals, call, again, rtok, rres>>

(* The count equals the steals.                                              *)
Empties == cnt = amt

(* compare_exchange(steals, DISCONNECTED)                                    *)
DropExchange ==
    /\ rpc = "dropcas"
    /\ cnt' = IF Empties THEN DISCONNECTED ELSE cnt
    /\ R(IF Empties \/ cnt = DISCONNECTED THEN "gone" ELSE "dropdrain")
    /\ UNCHANGED <<queue, to_wake, channels, port_dropped, sender_drain, lock, woken, sender>>

(* Pop, counting, until Empty or Inconsistent.                               *)
DropDrain ==
    /\ rpc = "dropdrain"
    /\ IF queue = <<>> \/ Head(queue) # "linked"
       THEN R("dropcas") /\ UNCHANGED queue
       ELSE /\ queue' = Tail(queue) /\ amt' = amt + 1
            /\ UNCHANGED <<steals, rpc, call, again, rtok, rres>>
    /\ UNCHANGED <<cnt, to_wake, channels, port_dropped, sender_drain, lock, woken, sender>>

(* Drop for Packet, once every handle is gone.                               *)
PacketDrop ==
    /\ rpc = "gone" /\ \A s \in Senders : spc[s] = "gone"
    /\ R(IF cnt = DISCONNECTED /\ to_wake = "none" /\ channels = 0 THEN "gone" ELSE "panicked")
    /\ UNCHANGED <<packet, sender>>

CreatorStep == InheritAssert \/ InheritToken \/ InheritCount \/ InheritSteals \/ InheritUnlock

SenderStep(s) ==
    \/ Preflight(s) \/ Push(s) \/ Link(s) \/ Add(s) \/ Restore(s) \/ Enter(s) \/ Drain(s)
    \/ Leave(s) \/ TakeLoad(s) \/ TakeStore(s) \/ Signal(s) \/ Disconnect(s)

ReceiverStep ==
    \/ ArriveWoken \/ TryPop \/ StealSwap \/ StealBump \/ StealRestore \/ TryLoad \/ TryPopAgain
    \/ StoreToken \/ Subtract \/ SubtractRestore \/ Undo \/ Wake
    \/ AbortLoad \/ AbortBump \/ AbortRestore \/ AbortAssert \/ AbortTake
    \/ DropFlag \/ DropExchange \/ DropDrain

Next ==
    \/ CreatorStep
    \/ \E s \in Senders : \/ Send(s) \/ DropSender(s) \/ SenderStep(s)
                          \/ \E t \in Senders : Clone(s, t)
    \/ Arrive \/ ArriveLate \/ (\E m \in Modes : Receive(m)) \/ DropReceiver \/ ReceiverStep
    \/ TimeOut \/ PacketDrop

Spec == Init /\ [][Next]_vars

-----------------------------------------------------------------------------
(* The type of every variable.                                               *)
TypeOK ==
    /\ queue \in Seq(Senders \cup {"linked"}) /\ cnt \in ISIZE_MIN .. ISIZE_MAX
    /\ steals \in Int /\ (late = 0 => steals \in -1 .. MAX_STEALS + MaxLen + 2 * Cardinality(Senders))
    /\ {to_wake, rtok} \subseteq Tokens \cup {"none"}
    /\ channels \in 0 .. Cardinality(Senders) /\ sender_drain \in 0 .. Cardinality(Senders)
    /\ port_dropped \in BOOLEAN /\ lock \in BOOLEAN /\ again \in BOOLEAN
    /\ woken \in [Tokens -> BOOLEAN] /\ stok \in [Senders -> Tokens \cup {"none"}]
    /\ mode \in Modes /\ late \in 0 .. MaxLate /\ amt \in Int
    /\ rres \in {"none", "Ok", "Empty", "Disconnected"}

(* Until a deadline passes no assert, panic!() or unreachable!() of          *)
(* shared.rs is reached, and recv never meets an Empty it has no case for    *)
(* (mod.rs:1134); every variable has its type.                               *)
NeverPanics == TypeOK /\ (late = 0 =>
    /\ \A s \in Senders : spc[s] # "panicked"
    /\ rpc \notin {"panicked", "unreachable", "toldasleep"})

(* Until a deadline passes, and while both sides are connected, the count,   *)
(* less the steals, is the number of messages on the queue, less those whose *)
(* send has yet to be counted, less the one a blocking recv has accounted    *)
(* for in advance.                                                           *)
Expecting == again /\ rpc \in {"pop", "spin", "load", "swap", "bump", "wait", "undo"}

Steady ==
    /\ late = 0 /\ cnt >= DISCONNECTED + FUDGE
    /\ rpc \notin {"bump", "swaprestore", "subrestore", "drop", "dropcas", "dropdrain", "gone"}
    /\ spc[Creator] # "inheritsteals"

CountBalanced ==
    Steady => cnt - steals = Len(queue) - Cardinality({s \in Senders : spc[s] \in {"link", "add"}})
                             + (IF rpc = "swap" THEN 1 ELSE 0) - (IF Expecting THEN 1 ELSE 0)

(* The queue has one popper: a sender drains it only when the receiver has   *)
(* left it for good, and no two senders drain it.                            *)
OnePopper ==
    \A s \in Senders : spc[s] \in {"drain", "leave"} =>
        rpc = "gone" /\ \A t \in Senders \ {s} : spc[t] \notin {"drain", "leave"}

(* With the receiver gone, a sender left and no send in progress, the queue  *)
(* holds no message, if no deadline passed: drop_port, or the sends it raced *)
(* with, dropped every one.                                                  *)
NothingLeftBehind ==
    late = 0 /\ rpc = "gone" /\ (\E s \in Senders : spc[s] = "idle")
        /\ (\A s \in Senders : spc[s] \in {"idle", "gone"}) => queue = <<>>

(* The receiver sleeps, here or still in the old packet, but there is a      *)
(* message or the last sender is going.                                      *)
MustWake ==
    /\ late = 0 /\ rpc \in {"wait", "oldwait"}
    /\ queue # <<>> \/ \E s \in Senders : spc[s] = "disconnect"

(* decrement's assert_eq!(to_wake, 0): whoever goes to sleep on the packet   *)
(* is not taken to be asleep already (shared.rs:251).                        *)
NotAsleepAlready == rpc # "toldasleep"
=============================================================================
