------------------------------ MODULE Channels ------------------------------
(* A channel of std::sync::mpsc works through one packet at a time: oneshot, *)
(* stream or shared for an unbounded channel, sync for a bounded one.  Each  *)
(* behaviour is that of one packet, from its first state; a variable that    *)
(* the packet does not have is None throughout.                              *)
EXTENDS Integers, Sequences, FiniteSets

CONSTANTS Senders,           \* the handles of the senders
          First, Second,     \* those of a packet when it is new; a bounded one has First
          Tokens,            \* the addresses a SignalToken can have, unbounded
          BoundedTokens,     \* ... and bounded
          Caps,              \* the capacities of a bounded channel
          MAX_STEALS, FUDGE,
          ISIZE_MAX,         \* isize::MAX
          MAX_REFCOUNT,      \* isize::MAX too, of a count of handles
          MaxLen,            \* bound: messages in the queue of stream and shared
          MaxLate            \* bound: deadlines that pass in them

VARIABLES packet, state, data, upgrade, woken, spc, stok, sres, rpc, rtok, mode, rres,
          queue, cnt, to_wake, port_dropped, steals, smsg, again, rmsg, amt, late,
          channels, sender_drain, lock, disconnected, cap, buf, start, size, blocker,
          canceled, flag, timed, pend

both == <<woken, spc, stok, rpc, rtok, rres>>
oneshot == <<state, data, upgrade>>
asynchronous == <<cnt, to_wake, steals, again, amt, late>>
stream == <<smsg, rmsg>>
shared == <<sender_drain, lock>>
bounded == <<disconnected, cap, buf, start, size, blocker, canceled, flag, timed, pend>>
vars == <<packet, both, oneshot, sres, mode, queue, port_dropped, asynchronous, stream, channels, shared, bounded>>

O == INSTANCE Oneshot
St == INSTANCE Stream
Sh == INSTANCE Shared WITH Creator <- First, Clone1 <- Second
Sy == INSTANCE Sync WITH Tokens <- BoundedTokens

(* A token's address is none of the flags of the oneshot packet, which are   *)
(* 0, 1 and 2.                                                               *)
ASSUME OneshotAssumption == Tokens \cap (O!Flags \cup {"none", "NothingSent", "SendUsed", "GoUp"}) = {}

(* A bounded channel has finitely many senders, whose tokens are not the     *)
(* receiver's, and its capacity is a usize.                                  *)
ASSUME SyncAssumption ==
    /\ IsFiniteSet(Senders) /\ First \in Senders /\ Caps \subseteq Nat
    /\ Senders \cap BoundedTokens = {} /\ Sy!None \notin Senders \cup BoundedTokens

(* What each packet leaves alone.                                            *)
NotOneshot == <<queue, asynchronous, stream, channels, shared, bounded>>
NotStream == <<oneshot, sres, channels, shared, bounded>>
NotShared == <<oneshot, sres, stream, bounded>>
NotSync == <<oneshot, mode, port_dropped, asynchronous, stream, shared>>

NoOneshot == state = "None" /\ data = "None" /\ upgrade = "None"
NoStream == smsg = "None" /\ rmsg = "None"
NoShared == sender_drain = "None" /\ lock = "None"
NoAsynchronous ==
    /\ cnt = "None" /\ to_wake = "None" /\ steals = "None" /\ again = "None" /\ amt = "None" /\ late = "None"
NoBounded ==
    /\ disconnected = "None" /\ cap = "None" /\ buf = "None" /\ start = "None" /\ size = "None"
    /\ blocker = "None" /\ canceled = "None" /\ flag = "None" /\ timed = "None" /\ pend = "None"

Init ==
    \/ /\ packet = "oneshot" /\ O!Init /\ queue = "None" /\ channels = "None"
       /\ NoAsynchronous /\ NoStream /\ NoShared /\ NoBounded
    \/ /\ packet = "stream" /\ St!Init /\ sres = "None" /\ channels = "None"
       /\ NoOneshot /\ NoShared /\ NoBounded
    \/ packet = "shared" /\ Sh!Init /\ sres = "None" /\ NoOneshot /\ NoStream /\ NoBounded
    \/ /\ packet = "sync" /\ Sy!Init /\ mode = "None" /\ port_dropped = "None"
       /\ NoOneshot /\ NoAsynchronous /\ NoStream /\ NoShared

Oneshot(A) == packet = "oneshot" /\ A /\ UNCHANGED <<packet, NotOneshot>>
Stream(A) == packet = "stream" /\ A /\ UNCHANGED <<packet, NotStream>>
Shared(A) == packet = "shared" /\ A /\ UNCHANGED <<packet, NotShared>>
Sync(A) == packet = "sync" /\ A /\ UNCHANGED <<packet, NotSync>>

Next == Oneshot(O!Next) \/ Stream(St!Next) \/ Shared(Sh!Next) \/ Sync(Sy!Next)

SenderStep(s) ==
    \/ Oneshot(O!SenderStep) \/ Stream(St!SenderStep) \/ Shared(Sh!SenderStep(s)) \/ Sync(Sy!SenderStep(s))

ReceiverStep ==
    \/ Oneshot(O!ReceiverStep) \/ Stream(St!ReceiverStep) \/ Shared(Sh!ReceiverStep) \/ Sync(Sy!ReceiverStep)

Spec == Init /\ [][Next]_vars

(* A thread inside an operation of the packet keeps running.                 *)
FairSpec ==
    /\ Spec /\ WF_vars(ReceiverStep) /\ \A s \in Senders : WF_vars(SenderStep(s))
    /\ WF_vars(Shared(Sh!CreatorStep))

-----------------------------------------------------------------------------
(* No assert, panic!(), unwrap or unreachable!() of the packets, or of the   *)
(* recv that calls them, is reached (until a deadline passes, for stream and *)
(* shared), and every variable has its type.                                 *)
NeverPanics ==
    /\ packet = "oneshot" => O!NeverPanics
    /\ packet = "stream" => St!TypeOK /\ St!NeverPanics
    /\ packet = "shared" => Sh!NeverPanics
    /\ packet = "sync" => Sy!TypeOK /\ Sy!NeverPanics

(* The oneshot's unsynchronised cells are race free.                         *)
NoDataRace == packet = "oneshot" => O!NoDataRace

(* In stream and shared the count, less the steals, is the number of         *)
(* messages there are, whatever sends and receives are in progress.          *)
CountBalanced == (packet = "stream" => St!CountBalanced) /\ (packet = "shared" => Sh!CountBalanced)

(* The queues of stream and shared have one popper at a time.                *)
OnePopper == (packet = "stream" => St!OnePopper) /\ (packet = "shared" => Sh!OnePopper)

(* A receiver hears of a disconnection or an upgrade only when nothing that  *)
(* was sent before is left in the packet.                                    *)
DrainedBeforeLeaving ==
    (packet = "oneshot" => O!DrainedBeforeLeaving) /\ (packet = "stream" => St!DrainedBeforeLeaving)

(* Once the receiver is gone and the sends it raced with are over, no        *)
(* message is left in the queue of stream or shared.                         *)
NothingLeftBehind ==
    (packet = "stream" => St!NothingLeftBehind) /\ (packet = "shared" => Sh!NothingLeftBehind)

(* In a rendezvous Ok means received.                                        *)
OkMeansReceived == packet = "sync" => Sy!OkMeansReceived

(* A sender whose rendezvous was called off takes back its own message.      *)
TakesBackItsOwn == packet = "sync" => Sy!TakesBackItsOwn

(* A sender sleeps for a slot of the bounded channel only while none is      *)
(* free.                                                                     *)
NoIdleSlot == packet = "sync" => Sy!NoIdleSlot

(* No thread waits forever for what has happened already.  A receiver that   *)
(* sleeps is released once there is a message or the senders are gone; the   *)
(* senders that wait in the bounded channel are when the receiver leaves;    *)
(* and drop_port of the stream packet ends: "eventually we're guaranteed to  *)
(* break out of this loop (because there is a bounded number of senders)"    *)
(* (stream.rs:321).  In shared, and for drop_port, no deadline has passed.   *)
Stuck ==
    \/ packet = "oneshot" /\ O!MustWake
    \/ packet = "stream" /\ (St!MustWake \/ (rpc = "drop" /\ late = 0))
    \/ packet = "shared" /\ Sh!MustWake
    \/ packet = "sync" /\ (Sy!MustWake \/ \E s \in Senders : Sy!MustReturn(s))

MovedOn ==
    \/ packet = "shared" /\ late > 0
    \/ /\ rpc \notin {"wait", "oldwait", "drop", "dropcas", "dropdrain"}
       /\ packet = "sync" /\ rpc \in {"dropsignal", "gone"} =>
             \A s \in Senders : spc[s] \notin {"queued", "blocked"}

NobodyStranded == Stuck ~> MovedOn
=============================================================================
