-------------------------------- MODULE Sync --------------------------------
(* mpsc::sync::Packet (std/src/sync/mpsc/sync.rs): the channel with a bound, *)
(* a rendezvous when the bound is 0.  Everything but the signalling of a     *)
(* token happens under the packet's mutex, so that an action is a critical   *)
(* section.  A sender's token is named by the sender, which always waits for *)
(* its signal; a receiver that gives up leaves tokens that may be signalled  *)
(* late, so its tokens have names of their own.  A message is named by its   *)
(* sender.                                                                   *)
EXTENDS Integers, Sequences, FiniteSets, Functions

CONSTANTS Senders, First,   \* the SyncSender handles, and the one there is at first
          Tokens,           \* the receiver's tokens
          Caps,             \* the capacities to look at
          MAX_REFCOUNT      \* isize::MAX: more handles than that abort the process

VARIABLES
    channels, disconnected, cap, buf, start, size,  \* Packet, State, Buffer
    queue,          \* senders that wait for a slot
    blocker,        \* NoneBlocked, or the sender or token blocked
    canceled,       \* whose cancellation flag State.canceled points to
    flag,           \* each sender's cancellation flag
    woken,          \* blocking::Inner.woken of each token
    spc, stok, sres,         \* each sender: where it is, token to signal, result
    rpc, rtok, timed, pend, rres    \* the receiver; the tokens it has to signal

ring == <<buf, start, size>>
state == <<channels, disconnected, cap, queue, blocker, canceled, flag>>
sender == <<spc, stok, sres>>
receiver == <<rpc, rtok, timed, pend, rres>>
vars == <<ring, state, woken, sender, receiver>>

None == "None"

(* Packet::new: a rendezvous channel has one slot, to pass the message.      *)
Init ==
    /\ cap \in Caps
    /\ buf = [i \in 0 .. (IF cap = 0 THEN 0 ELSE cap - 1) |-> None]
    /\ start = 0 /\ size = 0 /\ channels = 1 /\ disconnected = FALSE
    /\ queue = <<>> /\ blocker = None /\ canceled = None
    /\ flag = [s \in Senders |-> FALSE]
    /\ woken = [k \in Senders \cup Tokens |-> FALSE]
    /\ spc = [s \in Senders |-> IF s = First THEN "idle" ELSE "gone"]
    /\ stok = [s \in Senders |-> None] /\ sres = [s \in Senders |-> None]
    /\ rpc = "idle" /\ rtok = None /\ timed = FALSE /\ pend = <<>> /\ rres = None

BufLen == Cardinality(DOMAIN buf)

(* Buffer::enqueue, whose assert Overwrites states, ...                      *)
Slot == (start + size) % BufLen

Overwrites == buf[Slot] # None

Enqueue(m) == buf' = [buf EXCEPT ![Slot] = m] /\ size' = size + 1 /\ UNCHANGED start

(* Deviation of Dequeue: the message is copied out of its slot.              *)
DequeueCopy == size' = size - 1 /\ start' = (start + 1) % BufLen /\ UNCHANGED buf

(* ... and Buffer::dequeue, which takes the message out of its slot.         *)
Dequeue ==
    /\ size' = size - 1 /\ start' = (start + 1) % BufLen
    /\ buf' = [buf EXCEPT ![start] = None]

S(s, at, r) == spc' = [spc EXCEPT ![s] = at] /\ sres' = [sres EXCEPT ![s] = r]

-----------------------------------------------------------------------------
(* SyncSender::send                                                          *)
Send(s) ==
    /\ spc[s] = "idle"
    /\ S(s, "lock", None) /\ UNCHANGED stok
    /\ UNCHANGED <<ring, state, woken, receiver>>

(* acquire_send_slot: there is room.                                         *)
HasRoom == size < BufLen

(* acquire_send_slot waits in the queue for a slot, ...                      *)
WaitForSlot(s) ==
    /\ spc[s] = "lock" /\ ~disconnected /\ ~HasRoom
    /\ queue' = Append(queue, s)
    /\ woken' = [woken EXCEPT ![s] = FALSE]
    /\ S(s, "queued", None)
    /\ UNCHANGED <<ring, channels, disconnected, cap, blocker, canceled, flag, stok, receiver>>

SlotFreed(s) ==
    /\ spc[s] = "queued" /\ woken[s]
    /\ S(s, "lock", None)
    /\ UNCHANGED <<ring, state, woken, stok, receiver>>

(* ... or finds the port gone, ...                                           *)
SendFails(s) ==
    /\ spc[s] = "lock" /\ disconnected
    /\ S(s, "idle", "Err")
    /\ UNCHANGED <<ring, state, woken, stok, receiver>>

(* ... or send enqueues the message, and a rendezvous with no receiver       *)
(* blocks until one has come.                                                *)
Rendezvous(s) ==
    /\ spc[s] = "lock" /\ ~disconnected /\ HasRoom /\ blocker = None /\ cap = 0
    /\ IF Overwrites \/ canceled # None THEN S(s, "panicked", None) /\ UNCHANGED <<ring, state, woken>>
       ELSE /\ Enqueue(s)
            /\ canceled' = s /\ blocker' = s
            /\ flag' = [flag EXCEPT ![s] = FALSE] /\ woken' = [woken EXCEPT ![s] = FALSE]
            /\ S(s, "blocked", None)
            /\ UNCHANGED <<channels, disconnected, cap, queue>>
    /\ UNCHANGED <<stok, receiver>>

(* send, and try_send where it has room, hand the message over: a receiver   *)
(* blocked on the channel is woken outside the lock.                         *)
HandOver(s) ==
    /\ IF Overwrites \/ blocker \in Senders
       THEN S(s, "panicked", None) /\ UNCHANGED <<ring, blocker, stok>>
       ELSE /\ Enqueue(s)
            /\ blocker' = None
            /\ stok' = [stok EXCEPT ![s] = blocker]
            /\ S(s, IF blocker = None THEN "idle" ELSE "signal", "Ok")
    /\ UNCHANGED <<channels, disconnected, cap, queue, canceled, flag, woken, receiver>>

SendEnqueues(s) ==
    /\ spc[s] = "lock" /\ ~disconnected /\ HasRoom /\ ~(blocker = None /\ cap = 0)
    /\ HandOver(s)

(* A rendezvous is over: its message was received, or is taken back.         *)
RendezvousEnds(s) ==
    /\ spc[s] = "blocked" /\ woken[s]
    /\ IF ~flag[s] THEN S(s, "idle", "Ok") /\ UNCHANGED ring
       ELSE IF buf[start] = None THEN S(s, "panicked", None) /\ UNCHANGED ring
       ELSE S(s, "idle", "Err") /\ Dequeue
    /\ UNCHANGED <<state, woken, stok, receiver>>

(* try_send: no room, or a rendezvous without a receiver ...                 *)
TryFull == size = BufLen \/ (cap = 0 /\ blocker = None)

TrySendFails(s) ==
    /\ spc[s] = "idle" /\ (disconnected \/ TryFull)
    /\ S(s, "idle", IF disconnected THEN "Err" ELSE "Full")
    /\ UNCHANGED <<ring, state, woken, stok, receiver>>

(* ... or the message is handed over.                                        *)
TrySend(s) ==
    /\ spc[s] = "idle" /\ ~disconnected /\ ~TryFull
    /\ HandOver(s)

(* token.signal(), outside the lock.                                         *)
Signal(s) ==
    /\ spc[s] \in {"signal", "dropsignal"}
    /\ woken' = [woken EXCEPT ![stok[s]] = TRUE]
    /\ stok' = [stok EXCEPT ![s] = None]
    /\ spc' = [spc EXCEPT ![s] = IF @ = "signal" THEN "idle" ELSE "gone"]
    /\ UNCHANGED <<ring, state, sres, receiver>>

(* clone_chan; the new handle takes the name of one that is gone.  With too  *)
(* many handles, forgotten ones among them, it aborts: the behaviour ends.   *)
Clone(s, t) ==
    /\ spc[s] = "idle" /\ spc[t] = "gone" /\ channels <= MAX_REFCOUNT
    /\ channels' = channels + 1
    /\ S(t, "idle", None)
    /\ UNCHANGED <<ring, disconnected, cap, queue, blocker, canceled, flag, woken, stok, receiver>>

(* drop_chan: only the last one disconnects.                                 *)
DropSender(s) ==
    /\ spc[s] = "idle"
    /\ channels' = channels - 1
    /\ S(s, IF channels = 1 THEN "dropchan" ELSE "gone", None)
    /\ UNCHANGED <<ring, disconnected, cap, queue, blocker, canceled, flag, woken, stok, receiver>>

(* Deviation of ToWake: the receiver is left blocked.                        *)
ToWakeNobody == None

(* Whom the last sender wakes.                                               *)
ToWake == blocker

DropChan(s) ==
    /\ spc[s] = "dropchan"
    /\ IF disconnected THEN S(s, "gone", None) /\ UNCHANGED <<disconnected, blocker, stok>>
       ELSE /\ disconnected' = TRUE /\ blocker' = None
            /\ stok' = [stok EXCEPT ![s] = ToWake]
            /\ S(s, IF ToWake = None THEN "gone"
                    ELSE IF ToWake \in Senders THEN "panicked" ELSE "dropsignal", None)
    /\ UNCHANGED <<ring, channels, cap, queue, canceled, flag, woken, receiver>>

-----------------------------------------------------------------------------
R(at, r) == rpc' = at /\ rres' = r

(* recv waits for the buffer to have something in it, ...                    *)
RecvBlocks(t) ==
    /\ rpc = "idle" /\ ~disconnected /\ size = 0
    /\ timed' = t
    /\ IF blocker # None THEN R("panicked", None) /\ UNCHANGED <<blocker, rtok, woken>>
       ELSE \E k \in Tokens \ {stok[s] : s \in Senders} :
               /\ blocker' = k /\ rtok' = k /\ woken' = [woken EXCEPT ![k] = FALSE]
               /\ R("wait", None)
    /\ UNCHANGED <<ring, channels, disconnected, cap, queue, canceled, flag, sender, pend>>

(* wakeup_senders acknowledges a rendezvous, unless the receiver waited for  *)
(* the message.                                                              *)
Acks(waited) == cap = 0 /\ ~waited

(* Deviation of SlotGoesTo: a freed slot is not announced.                   *)
SlotGoesToNobody == <<>>

(* wakeup_senders wakes the first of the senders that wait for a slot.       *)
SlotGoesTo == IF queue = <<>> THEN <<>> ELSE <<Head(queue)>>

(* recv and try_recv dequeue, and wakeup_senders leaves the tokens to signal *)
(* once the lock is released; a blocker b is what the caller left.           *)
Take(waited, b) ==
    /\ Dequeue
    /\ queue' = IF queue = <<>> THEN queue ELSE Tail(queue)
    /\ IF Acks(waited) /\ b # None
       THEN blocker' = None /\ canceled' = None /\ pend' = Append(SlotGoesTo, b)
       ELSE blocker' = b /\ pend' = SlotGoesTo /\ UNCHANGED canceled
    /\ IF buf[start] = None \/ (Acks(waited) /\ b \in Tokens) THEN R("panicked", None)
       ELSE R(IF pend' = <<>> THEN "idle" ELSE "signal", "Ok")
    /\ UNCHANGED <<channels, disconnected, cap, flag>>

(* The rest of recv, with the lock held (again).                             *)
Finish(waited, b) ==
    /\ IF size > 0 THEN Take(waited, b)
       ELSE /\ blocker' = b
            /\ IF disconnected THEN R("idle", "Disconnected")
               ELSE IF timed /\ ~waited THEN R("idle", "Empty") ELSE R("panicked", None)
            /\ UNCHANGED <<ring, channels, disconnected, cap, queue, canceled, flag, pend>>
    /\ rtok' = None
    /\ UNCHANGED <<woken, sender, timed>>

(* ... finds it there, or the senders gone, ...                              *)
RecvTakes ==
    /\ rpc = "idle" /\ (disconnected \/ size > 0)
    /\ Finish(FALSE, blocker)

(* ... is woken, ...                                                         *)
Wake ==
    /\ rpc = "wait" /\ woken[rtok]
    /\ Finish(TRUE, blocker)

(* ... or its deadline passes, ...                                           *)
TimeOut ==
    /\ rpc = "wait" /\ timed /\ ~woken[rtok]
    /\ R("late", None)
    /\ UNCHANGED <<ring, state, woken, sender, rtok, timed, pend>>

(* Deviation of Aborted: the receiver stays the blocker.                     *)
AbortedNothing == blocker

(* abort_selection: what it leaves as the blocker.                           *)
Aborted == IF blocker \in Tokens THEN None ELSE blocker

(* ... and under the lock the wait is called off.                            *)
GiveUp ==
    /\ rpc = "late"
    /\ Finish(FALSE, Aborted)

(* try_recv                                                                  *)
TryRecv ==
    /\ rpc = "idle"
    /\ IF size > 0 THEN Take(FALSE, blocker)
       ELSE /\ R("idle", IF disconnected THEN "Disconnected" ELSE "Empty")
            /\ UNCHANGED <<ring, state, pend>>
    /\ UNCHANGED <<woken, sender, rtok, timed>>

(* wakeup_senders and drop_port signal outside the lock.                     *)
SignalNext ==
    /\ rpc \in {"signal", "dropsignal"}
    /\ woken' = [woken EXCEPT ![Head(pend)] = TRUE]
    /\ pend' = Tail(pend)
    /\ rpc' = IF Len(pend) > 1 THEN rpc ELSE IF rpc = "signal" THEN "idle" ELSE "gone"
    /\ UNCHANGED <<ring, state, sender, rtok, timed, rres>>

(* Deviation of Canceled: the blocked sender is not told.                    *)
CanceledNobody == flag

(* drop_port tells a blocked sender, through its flag, to take its message   *)
(* back.                                                                     *)
Canceled == [flag EXCEPT ![canceled] = TRUE]

(* drop_port: buffered messages are dropped, a rendezvous is called off.     *)
DropPort ==
    /\ rpc = "idle"
    /\ IF disconnected THEN R("gone", None) /\ UNCHANGED <<ring, state, pend>>
       ELSE /\ disconnected' = TRUE /\ queue' = <<>> /\ blocker' = None
            /\ buf' = IF cap # 0 THEN <<>> ELSE buf
            /\ pend' = IF blocker = None THEN queue ELSE Append(queue, blocker)
            /\ IF blocker # None /\ canceled # None
               THEN flag' = Canceled /\ canceled' = None ELSE UNCHANGED <<flag, canceled>>
            /\ R(IF blocker \in Tokens \/ (blocker # None /\ canceled = None) THEN "panicked"
                 ELSE IF pend' = <<>> THEN "gone" ELSE "dropsignal", None)
            /\ UNCHANGED <<start, size, channels, cap>>
    /\ UNCHANGED <<woken, sender, rtok, timed>>

(* Drop for Packet, once every handle is gone, and the end.                  *)
PacketDrop ==
    /\ rpc = "gone" /\ \A s \in Senders : spc[s] = "gone"
    /\ R(IF channels = 0 /\ queue = <<>> /\ canceled = None THEN "gone" ELSE "panicked", None)
    /\ UNCHANGED <<ring, state, woken, sender, rtok, timed, pend>>

SenderStep(s) ==
    \/ WaitForSlot(s) \/ SlotFreed(s) \/ SendFails(s) \/ Rendezvous(s) \/ SendEnqueues(s)
    \/ RendezvousEnds(s) \/ Signal(s) \/ DropChan(s)

ReceiverStep == Wake \/ GiveUp \/ SignalNext

Next ==
    \/ \E s \in Senders : \/ Send(s) \/ TrySendFails(s) \/ TrySend(s) \/ DropSender(s) \/ SenderStep(s)
                          \/ \E t \in Senders : Clone(s, t)
    \/ (\E t \in BOOLEAN : RecvBlocks(t)) \/ RecvTakes \/ TryRecv \/ TimeOut \/ DropPort
    \/ ReceiverStep \/ PacketDrop

Spec == Init /\ [][Next]_vars

-----------------------------------------------------------------------------
(* The messages, first come first.                                           *)
Contents == [i \in 1 .. size |-> buf[(start + i - 1) % BufLen]]

Buffered == BufLen > 0

(* The type of every variable; the ring buffer is full exactly where start   *)
(* and size say, and holds no more than its slots.                           *)
TypeOK ==
    /\ channels \in 0 .. Cardinality(Senders) /\ disconnected \in BOOLEAN /\ timed \in BOOLEAN
    /\ queue \in Seq(Senders) /\ IsInjective(queue)
    /\ blocker \in Senders \cup Tokens \cup {None} /\ canceled \in Senders \cup {None}
    /\ flag \in [Senders -> BOOLEAN] /\ woken \in [Senders \cup Tokens -> BOOLEAN]
    /\ stok \in [Senders -> Tokens \cup {None}] /\ rtok \in Tokens \cup {None}
    /\ pend \in Seq(Senders) /\ sres \in [Senders -> {None, "Ok", "Err", "Full"}]
    /\ rres \in {None, "Ok", "Empty", "Disconnected"}
    /\ Buffered => /\ size \in 0 .. BufLen /\ start \in DOMAIN buf
                   /\ \A i \in 0 .. BufLen - 1 :
                         (buf[(start + i) % BufLen] # None) <=> (i < size)

(* No assert, panic!(), unwrap or unreachable!() of sync.rs is reached.      *)
NeverPanics == rpc # "panicked" /\ \A s \in Senders : spc[s] # "panicked"

(* In a rendezvous Ok means received: the message of a send that has         *)
(* returned is in the channel only while a receive that will take it runs.   *)
OkMeansReceived ==
    cap = 0 => \A s \in Senders :
        (\E i \in DOMAIN Contents : Contents[i] = s) /\ spc[s] # "blocked" => rpc \in {"wait", "late"}

(* A sender whose rendezvous was called off takes back its own message, and  *)
(* one whose message was received is not told to.                            *)
TakesBackItsOwn ==
    \A s \in Senders : spc[s] = "blocked" =>
        IF flag[s] THEN Contents = <<s>> ELSE (blocker = s) = (Contents = <<s>>)

(* The senders that have been, or are about to be, told of a slot, and those *)
(* that are looking for one.                                                 *)
Coming == {s \in Senders : \/ spc[s] = "lock" \/ (spc[s] = "queued" /\ woken[s])
                           \/ \E i \in DOMAIN pend : pend[i] = s}

(* A sender sleeps in acquire_send_slot, with no signal on its way, only     *)
(* while every slot is taken or freed for another sender.                    *)
NoIdleSlot ==
    \A s \in Senders : spc[s] = "queued" /\ s \notin Coming =>
        ~disconnected /\ size + Cardinality(Coming) >= BufLen

(* The receiver sleeps, but there is a message or no sender.                 *)
MustWake == rpc = "wait" /\ (size > 0 \/ disconnected)

(* The receiver is leaving, but the sender s still waits.                    *)
MustReturn(s) == rpc = "dropsignal" /\ spc[s] \in {"queued", "blocked"}
=============================================================================
