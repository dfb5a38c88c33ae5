------------------------------ MODULE Oneshot -------------------------------
(* mpsc::oneshot::Packet (std/src/sync/mpsc/oneshot.rs) between its one      *)
(* Sender and its Receiver, driven the way mpsc/mod.rs drives it: the sender *)
(* sends once, then upgrades or is dropped; the receiver receives with       *)
(* recv, recv_deadline or try_recv, follows an upgrade, or is dropped.  Of   *)
(* the packet that is upgraded to, only whether its port is there matters.   *)
(* `data` and `upgrade` are plain cells, so reading or writing one is a step *)
(* of its own, apart from the atomic operations on `state` around it.        *)
CONSTANT Tokens   \* the addresses a SignalToken can have

VARIABLES
    state,    \* EMPTY, DATA, DISCONNECTED or the token of a blocked receiver
    data,     \* Option<T>: the cell holds the value
    upgrade,  \* NothingSent, SendUsed, GoUp
    woken,    \* blocking::Inner.woken of each token
    spc, stok, sres,        \* the sender: where it is, a token it took, its result
    rpc, rtok, mode, rres,  \* the receiver: where it is, its token, the call, its result
    port_dropped            \* that of the packet upgraded to

cells == <<data, upgrade>>
sender == <<spc, stok, sres>>
receiver == <<rpc, rtok, mode, rres, port_dropped>>
vars == <<state, cells, woken, sender, receiver>>

SPC == {"idle", "write", "swap", "undo", "take", "sendsignal", "upwrite", "upswap",
        "uprestore", "upsend", "upsignal", "drop", "dropsignal", "gone", "panicked"}
RPC == {"idle", "load", "install", "wait", "abort", "abortcas", "abortdisc", "try",
        "takecas", "take", "disc", "drop", "droptake", "gone", "panicked"}
Flags == {"EMPTY", "DATA", "DISCONNECTED"}

Init ==
    /\ state = "EMPTY" /\ data = FALSE /\ upgrade = "NothingSent"
    /\ woken = [k \in Tokens |-> FALSE]
    /\ spc = "idle" /\ stok = "none" /\ sres = "none"
    /\ rpc = "idle" /\ rtok = "none" /\ mode = "try" /\ rres = "none" /\ port_dropped = FALSE

(* spc, stok and sres of the sender; rpc and rres of the receiver.           *)
S(at, tok, res) == spc' = at /\ stok' = tok /\ sres' = res
R(at, res) == rpc' = at /\ rres' = res /\ UNCHANGED <<rtok, mode, port_dropped>>

-----------------------------------------------------------------------------
(* Sender::send on a fresh packet: on to Packet::send.                       *)
Send ==
    /\ spc = "idle" /\ upgrade = "NothingSent"
    /\ S("write", "none", "none")
    /\ UNCHANGED <<state, cells, woken, receiver>>

(* A second send: on to Packet::upgrade.                                     *)
Upgrade ==
    /\ spc = "idle" /\ upgrade # "NothingSent"
    /\ S("upwrite", "none", "none")
    /\ UNCHANGED <<state, cells, woken, receiver>>

(* Sender::clone: on to Packet::upgrade.                                     *)
Clone ==
    /\ spc = "idle"
    /\ S("upwrite", "none", "Cloning")
    /\ UNCHANGED <<state, cells, woken, receiver>>

(* Drop for Sender.                                                          *)
DropSender ==
    /\ spc = "idle"
    /\ S("drop", "none", sres)
    /\ UNCHANGED <<state, cells, woken, receiver>>

(* The asserts of send, then the writes of both cells.                       *)
SendWrite ==
    /\ spc = "write"
    /\ IF upgrade = "NothingSent" /\ ~data
       THEN S("swap", "none", "none") /\ data' = TRUE /\ upgrade' = "SendUsed"
       ELSE S("panicked", "none", "none") /\ UNCHANGED cells
    /\ UNCHANGED <<state, woken, receiver>>

(* Deviation of SendOutcome: a blocked receiver is not woken.                *)
SendOutcomeNoSignal(old) ==
    IF old = "DISCONNECTED" THEN S("undo", "none", "none")
    ELSE IF old = "DATA" THEN S("panicked", "none", "none")
    ELSE S("idle", "none", "Ok")

(* What send does next with the state that its swap found.                   *)
SendOutcome(old) ==
    IF old = "EMPTY" THEN S("idle", "none", "Ok")
    ELSE IF old = "DISCONNECTED" THEN S("undo", "none", "none")
    ELSE IF old = "DATA" THEN S("panicked", "none", "none")
    ELSE S("sendsignal", old, "Ok")

(* state.swap(DATA)                                                          *)
SendSwap ==
    /\ spc = "swap"
    /\ SendOutcome(state)
    /\ state' = "DATA"
    /\ UNCHANGED <<cells, woken, receiver>>

(* The receiver is gone: the sender puts DISCONNECTED back ...               *)
SendUndo ==
    /\ spc = "undo"
    /\ state' = "DISCONNECTED"
    /\ S("take", "none", "none")
    /\ UNCHANGED <<cells, woken, receiver>>

(* ... and takes its value back out of the cell.                             *)
SendTake ==
    /\ spc = "take"
    /\ IF data THEN S("idle", "none", "Err") ELSE S("panicked", "none", "none")
    /\ upgrade' = "NothingSent" /\ data' = FALSE
    /\ UNCHANGED <<state, woken, receiver>>

(* What upgrade puts back when it finds the receiver gone.                   *)
Prev == upgrade

(* Packet::upgrade remembers `prev` (it is put back by UpgradeRestore) and   *)
(* writes GoUp.                                                              *)
UpgradeWrite ==
    /\ spc = "upwrite"
    /\ IF upgrade = "GoUp"
       THEN S("panicked", "none", sres) /\ UNCHANGED upgrade
       ELSE S("upswap", Prev, sres) /\ upgrade' = "GoUp"
    /\ UNCHANGED <<state, data, woken, receiver>>

(* state.swap(DISCONNECTED): UpSuccess, UpDisconnected, or UpWoke with the   *)
(* token of the receiver.  `stok` holds `prev` until the swap.  A clone is   *)
(* through with the packet then; the shared packet inherits the sleeper.     *)
UpgradeSwap ==
    /\ spc = "upswap"
    /\ state' = "DISCONNECTED"
    /\ IF state = "DISCONNECTED" THEN S("uprestore", stok, sres)
       ELSE S(IF sres = "Cloning" THEN "drop" ELSE "upsend", IF state \in Tokens THEN state ELSE "none", sres)
    /\ UNCHANGED <<cells, woken, receiver>>

UpgradeRestore ==
    /\ spc = "uprestore"
    /\ upgrade' = stok
    /\ S("drop", "none", IF sres = "Cloning" THEN sres ELSE "Err")
    /\ UNCHANGED <<state, data, woken, receiver>>

(* What becomes of a.send(t), which fails when the new packet's port has     *)
(* been dropped: after UpSuccess its result is returned, after UpWoke it is  *)
(* unwrapped, and a panic leaves the Sender as it is.                        *)
SendUpgraded ==
    IF stok = "none" THEN S("drop", "none", IF port_dropped THEN "Err" ELSE "Ok")
    ELSE IF port_dropped THEN S("idle", "none", "Panicked") ELSE S("upsignal", stok, "Ok")

UpgradeSend ==
    /\ spc = "upsend"
    /\ SendUpgraded
    /\ UNCHANGED <<state, cells, woken, receiver>>

(* drop_chan, for a dropped Sender or the packet an upgraded Sender lets go. *)
DropChan ==
    /\ spc = "drop"
    /\ state' = "DISCONNECTED"
    /\ IF state \in Flags THEN S("gone", stok, sres) ELSE S("dropsignal", state, sres)
    /\ UNCHANGED <<cells, woken, receiver>>

(* SignalToken::signal: by send, by drop_chan or, after UpWoke, by the send  *)
(* into the packet that was upgraded to.                                     *)
Signal ==
    /\ \E hop \in {<<"sendsignal", "idle">>, <<"upsignal", "drop">>, <<"dropsignal", "gone">>} :
          spc = hop[1] /\ S(hop[2], "none", sres)
    /\ woken' = [woken EXCEPT ![stok] = TRUE]
    /\ UNCHANGED <<state, cells, receiver>>

(* Some time after a clone the shared packet signals the token.              *)
SignalInherited ==
    /\ spc = "gone" /\ stok # "none"
    /\ woken' = [woken EXCEPT ![stok] = TRUE]
    /\ S("gone", "none", sres)
    /\ UNCHANGED <<state, cells, receiver>>

-----------------------------------------------------------------------------
(* Receiver::try_recv, recv and recv_deadline enter the packet.              *)
Receive(m) ==
    /\ rpc = "idle"
    /\ rpc' = (IF m = "try" THEN "try" ELSE "load")
    /\ mode' = m /\ rres' = "none"
    /\ UNCHANGED <<state, cells, woken, sender, rtok, port_dropped>>

(* Drop for Receiver.                                                        *)
DropReceiver ==
    /\ rpc = "idle"
    /\ R("drop", rres)
    /\ UNCHANGED <<state, cells, woken, sender>>

(* recv looks at the state: EMPTY means that it prepares to block, with a    *)
(* new pair of tokens at an address that nobody else holds.                  *)
RecvLoad ==
    /\ rpc = "load"
    /\ IF state = "EMPTY"
       THEN \E k \in Tokens \ {stok} : /\ rtok' = k
                                       /\ woken' = [woken EXCEPT ![k] = FALSE]
                                       /\ rpc' = "install"
       ELSE rpc' = "try" /\ UNCHANGED <<rtok, woken>>
    /\ UNCHANGED <<state, cells, sender, mode, rres, port_dropped>>

(* compare_exchange(EMPTY, ptr); when it fails the token is dropped.         *)
RecvInstall ==
    /\ rpc = "install"
    /\ IF state = "EMPTY"
       THEN state' = rtok /\ rpc' = "wait" /\ UNCHANGED rtok
       ELSE rpc' = "try" /\ rtok' = "none" /\ UNCHANGED state
    /\ UNCHANGED <<cells, woken, sender, mode, rres, port_dropped>>

(* WaitToken::wait or wait_max_until returns after a signal; recv(None) has  *)
(* a debug_assert that the state is not EMPTY.                               *)
RecvWoken ==
    /\ rpc = "wait" /\ woken[rtok]
    /\ rpc' = (IF mode = "block" /\ state = "EMPTY" THEN "panicked" ELSE "try")
    /\ rtok' = "none"
    /\ UNCHANGED <<state, cells, woken, sender, mode, rres, port_dropped>>

(* wait_max_until finds the deadline passed and no signal.                   *)
RecvTimesOut ==
    /\ rpc = "wait" /\ mode = "timed" /\ ~woken[rtok]
    /\ R("abort", rres)
    /\ UNCHANGED <<state, cells, woken, sender>>

(* The match of abort_selection on the state it ends up with.                *)
AbortOutcome(s) ==
    rpc' = IF s = "EMPTY" THEN "panicked" ELSE IF s = "DISCONNECTED" THEN "abortdisc" ELSE "try"

(* abort_selection loads the state ...                                       *)
AbortLoad ==
    /\ rpc = "abort"
    /\ IF state \in Flags
       THEN AbortOutcome(state) /\ rtok' = "none"
       ELSE rpc' = "abortcas" /\ UNCHANGED rtok
    /\ UNCHANGED <<state, cells, woken, sender, mode, rres, port_dropped>>

(* Deviation of AbortedState: the token is left behind.                      *)
AbortedStateKept == state

(* compare_exchange(ptr, EMPTY)                                              *)
AbortedState == IF state = rtok THEN "EMPTY" ELSE state

(* ... and takes its token out of it, unless the sender was faster.          *)
AbortExchange ==
    /\ rpc = "abortcas"
    /\ AbortOutcome(state)
    /\ state' = AbortedState
    /\ rtok' = "none"
    /\ UNCHANGED <<cells, woken, sender, mode, rres, port_dropped>>

(* abort_selection on a disconnected packet: with data, or without an        *)
(* upgrade, recv goes on to try_recv; otherwise it returns Upgraded.         *)
AbortDisconnected ==
    /\ rpc = "abortdisc"
    /\ IF data
       THEN R("try", rres) /\ UNCHANGED upgrade
       ELSE /\ upgrade' = "SendUsed"
            /\ IF upgrade = "GoUp" THEN R("drop", "Upgraded") ELSE R("try", rres)
    /\ UNCHANGED <<state, data, woken, sender>>

(* Deviation of TryOutcome: an empty packet is searched for data, too.       *)
TryOutcomeEager ==
    IF state \in {"EMPTY", "DATA"} THEN R("takecas", rres)
    ELSE IF state = "DISCONNECTED" THEN R("disc", rres) ELSE R("panicked", rres)

(* try_recv looks at the state.  recv(None) has no Empty (mod.rs:1123).      *)
TryOutcome ==
    IF state = "EMPTY" /\ mode # "block" THEN R("idle", "Empty")
    ELSE IF state = "DATA" THEN R("takecas", rres)
    ELSE IF state = "DISCONNECTED" THEN R("disc", rres) ELSE R("panicked", rres)

TryLoad ==
    /\ rpc = "try"
    /\ TryOutcome
    /\ UNCHANGED <<state, cells, woken, sender>>

(* compare_exchange(DATA, EMPTY), whose result is ignored.                   *)
TryExchange ==
    /\ rpc = "takecas"
    /\ state' = IF state = "DATA" THEN "EMPTY" ELSE state
    /\ R("take", rres)
    /\ UNCHANGED <<cells, woken, sender>>

(* The value is taken out of the cell.                                       *)
TryTake ==
    /\ rpc = "take"
    /\ IF data THEN R("idle", "Ok") ELSE R("panicked", rres)
    /\ data' = FALSE
    /\ UNCHANGED <<state, upgrade, woken, sender>>

(* Deviation of TakesData: an upgrade is followed before the data.           *)
TakesDataUnlessUpgraded == data /\ upgrade # "GoUp"

(* A disconnected packet is searched for data first, ...                     *)
TakesData == data

(* ... and then for an upgrade.                                              *)
TryDisconnected ==
    /\ rpc = "disc"
    /\ IF TakesData
       THEN R("idle", "Ok") /\ data' = FALSE /\ UNCHANGED upgrade
       ELSE /\ IF upgrade = "GoUp" THEN R("drop", "Upgraded") ELSE R("idle", "Disconnected")
            /\ upgrade' = "SendUsed" /\ UNCHANGED data
    /\ UNCHANGED <<state, woken, sender>>

(* drop_port, for a dropped Receiver or the packet an upgrade leaves behind. *)
DropPort ==
    /\ rpc = "drop"
    /\ state' = "DISCONNECTED"
    /\ IF state \in {"DISCONNECTED", "EMPTY"} THEN R("gone", rres)
       ELSE IF state = "DATA" THEN R("droptake", rres) ELSE R("panicked", rres)
    /\ UNCHANGED <<cells, woken, sender>>

DropTake ==
    /\ rpc = "droptake"
    /\ IF data THEN R("gone", rres) ELSE R("panicked", rres)
    /\ data' = FALSE
    /\ UNCHANGED <<state, upgrade, woken, sender>>

(* The Receiver, now that of the packet upgraded to, is dropped after        *)
(* try_recv found nothing there or recv_deadline's deadline has passed;      *)
(* recv would stay for the message.                                          *)
LeaveUpgraded ==
    /\ rpc = "gone" /\ rres = "Upgraded" /\ mode # "block" /\ ~port_dropped
    /\ port_dropped' = TRUE
    /\ UNCHANGED <<state, cells, woken, sender, rpc, rtok, mode, rres>>

(* Drop for Packet, once both handles are gone.                              *)
PacketDrop ==
    /\ spc = "gone" /\ rpc = "gone"
    /\ spc' = IF state = "DISCONNECTED" THEN "gone" ELSE "panicked"
    /\ UNCHANGED <<state, cells, woken, stok, sres, receiver>>

SenderStep ==
    \/ SendWrite \/ SendSwap \/ SendUndo \/ SendTake \/ UpgradeWrite \/ UpgradeSwap
    \/ UpgradeRestore \/ UpgradeSend \/ DropChan \/ Signal

ReceiverStep ==
    \/ RecvLoad \/ RecvInstall \/ RecvWoken \/ AbortLoad \/ AbortExchange
    \/ AbortDisconnected \/ TryLoad \/ TryExchange \/ TryTake \/ TryDisconnected
    \/ DropPort \/ DropTake

Next ==
    \/ Send \/ Upgrade \/ Clone \/ DropSender \/ SenderStep \/ SignalInherited
    \/ (\E m \in {"try", "block", "timed"} : Receive(m)) \/ DropReceiver \/ ReceiverStep
    \/ RecvTimesOut \/ LeaveUpgraded \/ PacketDrop

Spec == Init /\ [][Next]_vars

-----------------------------------------------------------------------------
(* The type of every variable.                                               *)
TypeOK ==
    /\ state \in Flags \cup Tokens /\ data \in BOOLEAN
    /\ upgrade \in {"NothingSent", "SendUsed", "GoUp"}
    /\ woken \in [Tokens -> BOOLEAN]
    /\ spc \in SPC /\ sres \in {"none", "Ok", "Err", "Cloning", "Panicked"}
    /\ stok \in Tokens \cup {"none", "NothingSent", "SendUsed"}
    /\ rpc \in RPC /\ rres \in {"none", "Ok", "Empty", "Disconnected", "Upgraded"}
    /\ rtok \in Tokens \cup {"none"} /\ mode \in {"try", "block", "timed"}
    /\ port_dropped \in BOOLEAN

(* No unreachable!(), panic!, unwrap or assert of oneshot.rs fires, nor the  *)
(* unreachable!() of Receiver::recv for an empty oneshot (mod.rs:1123): in   *)
(* every interleaving of the two handles the cells hold what the state says, *)
(* and every variable has its type.  The unwrap of Sender::send (mod.rs:786) *)
(* fires only if a recv_timeout saw its deadline pass, followed the upgrade  *)
(* and returned, and the Receiver was dropped, all before the send.          *)
NeverPanics ==
    /\ TypeOK /\ spc # "panicked" /\ rpc # "panicked"
    /\ sres = "Panicked" => mode = "timed" /\ rres = "Upgraded" /\ port_dropped

(* mod.rs:783: "This send cannot panic because the thread is asleep (we're   *)
(* looking at it), so the receiver can't go away."                           *)
UpgradeSendSucceeds == sres # "Panicked"

(* The sender and the receiver are never both about to access `data`, or     *)
(* both about to access `upgrade`: the unsynchronised cells are race free.   *)
(* An idle sender may call sent(), which reads `upgrade`.                    *)
NoDataRace ==
    /\ ~(spc \in {"write", "take"} /\ rpc \in {"take", "disc", "abortdisc", "droptake"})
    /\ ~(spc \in {"idle", "write", "take", "upwrite", "uprestore"}
         /\ rpc \in {"disc", "abortdisc"})

(* The receiver hears of a disconnection or an upgrade only when the sender  *)
(* is through with the packet and the value has been taken out of it, so     *)
(* nothing sent before is lost or overtaken; a sender that panicked may come *)
(* back to it when the receiver is gone for good.                            *)
DrainedBeforeLeaving ==
    rres \in {"Disconnected", "Upgraded"} =>
        ~data /\ (spc \in {"upsend", "upsignal", "drop", "dropsignal", "gone"} \/ port_dropped)

(* The receiver sleeps, but the value is there or the sender has gone.  A    *)
(* clone hands the sleeper on to the shared packet.                          *)
MustWake == rpc = "wait" /\ sres # "Cloning" /\ (data \/ spc \in {"drop", "gone"})
=============================================================================
