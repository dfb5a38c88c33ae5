--------------------------- MODULE GenericParker ----------------------------
(* The Parker made of a Mutex and a Condvar                                  *)
(* (std/src/sys_common/thread_parker/generic.rs).  Condvar::wait releases    *)
(* the mutex and begins to wait in one step, and takes the mutex again       *)
(* before it returns; it may return for no reason.                           *)
CONSTANT Unparkers   \* the threads that call unpark

VARIABLES state,  \* EMPTY, PARKED, NOTIFIED
          lock,   \* who holds `lock`: "free", "owner" or an unparker
          opc,    \* where the owner is
          timed,  \* the owner is in park_timeout
          upc     \* where each unparker is

vars == <<state, lock, opc, timed, upc>>

OPC == {"running", "lock", "cas", "swap", "wait", "waiting", "relock", "recheck", "panicked"}

Init ==
    /\ state = "EMPTY" /\ lock = "free" /\ opc = "running" /\ timed = FALSE
    /\ upc = [u \in Unparkers |-> "idle"]

(* park and park_timeout: consume a token that is there.                     *)
Park(t) ==
    /\ opc = "running"
    /\ IF state = "NOTIFIED"
       THEN state' = "EMPTY" /\ UNCHANGED <<opc, timed>>
       ELSE opc' = "lock" /\ timed' = t /\ UNCHANGED state
    /\ UNCHANGED <<lock, upc>>

(* self.lock.lock(), first and inside Condvar::wait.                         *)
Lock ==
    /\ opc \in {"lock", "relock"} /\ lock = "free"
    /\ lock' = "owner"
    /\ opc' = IF opc = "lock" THEN "cas" ELSE "recheck"
    /\ UNCHANGED <<state, timed, upc>>

(* compare_exchange(EMPTY, PARKED)                                           *)
SetParked ==
    /\ opc = "cas"
    /\ IF state = "EMPTY" THEN state' = "PARKED" ELSE UNCHANGED state
    /\ opc' = IF state = "EMPTY" THEN "wait" ELSE IF state = "NOTIFIED" THEN "swap" ELSE "panicked"
    /\ UNCHANGED <<lock, timed, upc>>

(* park returns, and its guard releases the mutex.                           *)
Leave == opc' = "running" /\ timed' = FALSE /\ lock' = "free"

(* Err(NOTIFIED): swap(EMPTY) must find NOTIFIED; return.                    *)
TakeLate ==
    /\ opc = "swap"
    /\ state' = "EMPTY"
    /\ IF state = "NOTIFIED" THEN Leave ELSE opc' = "panicked" /\ UNCHANGED <<timed, lock>>
    /\ UNCHANGED upc

(* cvar.wait(m) or wait_timeout(m, dur) begins.                              *)
Wait ==
    /\ opc = "wait"
    /\ opc' = "waiting" /\ lock' = "free"
    /\ UNCHANGED <<state, timed, upc>>

(* The wait ends by itself: the timeout, or for no reason.                   *)
WaitEnds ==
    /\ opc = "waiting"
    /\ opc' = "relock"
    /\ UNCHANGED <<state, lock, timed, upc>>

(* Deviation of TokenTaken: any wakeup ends park.                            *)
TokenTakenUnseen == TRUE

(* park: compare_exchange(NOTIFIED, EMPTY) succeeds.                         *)
TokenTaken == state = "NOTIFIED"

(* park: return with the token, or wait again.                               *)
ParkRechecks ==
    /\ opc = "recheck" /\ ~timed
    /\ IF TokenTaken
       THEN state' = "EMPTY" /\ Leave
       ELSE opc' = "wait" /\ UNCHANGED <<state, timed, lock>>
    /\ UNCHANGED upc

(* Deviation of TimedOut: a thread that timed out stays flagged as parked.   *)
TimedOutParked == IF state = "NOTIFIED" THEN "EMPTY" ELSE state

(* park_timeout: swap(EMPTY), consuming a token or un-flagging the thread.   *)
TimedOut == "EMPTY"

ParkTimeoutRechecks ==
    /\ opc = "recheck" /\ timed
    /\ state' = TimedOut
    /\ IF state \in {"NOTIFIED", "PARKED"}
       THEN Leave ELSE opc' = "panicked" /\ UNCHANGED <<timed, lock>>
    /\ UNCHANGED upc

(* Deviation of BeforeNotify: the condvar is notified without the mutex.     *)
BeforeNotifyUnlocked == "notify"

(* What unpark does first when it has found PARKED: lock and unlock.         *)
BeforeNotify == "lock"

(* unpark: state.swap(NOTIFIED)                                              *)
Unpark(u) ==
    /\ upc[u] = "idle"
    /\ state' = "NOTIFIED"
    /\ upc' = [upc EXCEPT ![u] = IF state = "PARKED" THEN BeforeNotify ELSE "idle"]
    /\ UNCHANGED <<lock, opc, timed>>

(* drop(self.lock.lock().unwrap()): acquire ...                              *)
UnparkLock(u) ==
    /\ upc[u] = "lock" /\ lock = "free"
    /\ lock' = u /\ upc' = [upc EXCEPT ![u] = "unlock"]
    /\ UNCHANGED <<state, opc, timed>>

(* ... and release.                                                          *)
UnparkUnlock(u) ==
    /\ upc[u] = "unlock"
    /\ lock' = "free" /\ upc' = [upc EXCEPT ![u] = "notify"]
    /\ UNCHANGED <<state, opc, timed>>

(* cvar.notify_one()                                                         *)
NotifyOne(u) ==
    /\ upc[u] = "notify"
    /\ upc' = [upc EXCEPT ![u] = "idle"]
    /\ opc' = IF opc = "waiting" THEN "relock" ELSE opc
    /\ UNCHANGED <<state, lock, timed>>

OwnerStep == Lock \/ SetParked \/ TakeLate \/ Wait \/ ParkRechecks \/ ParkTimeoutRechecks
UnparkerStep(u) == UnparkLock(u) \/ UnparkUnlock(u) \/ NotifyOne(u)

Next ==
    \/ (\E t \in BOOLEAN : Park(t)) \/ OwnerStep \/ WaitEnds
    \/ \E u \in Unparkers : Unpark(u) \/ UnparkerStep(u)

Spec == Init /\ [][Next]_vars

-----------------------------------------------------------------------------
(* The type of every variable, and who holds the mutex where.                *)
TypeOK ==
    /\ (lock = "owner") <=> (opc \in {"cas", "swap", "wait", "recheck"})
    /\ \A u \in Unparkers : (lock = u) <=> (upc[u] = "unlock")
    /\ state \in {"EMPTY", "PARKED", "NOTIFIED"}
    /\ lock \in Unparkers \cup {"free", "owner"}
    /\ opc \in OPC /\ timed \in BOOLEAN
    /\ upc \in [Unparkers -> {"idle", "lock", "unlock", "notify"}]
=============================================================================
