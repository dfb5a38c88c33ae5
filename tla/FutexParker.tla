---------------------------- MODULE FutexParker -----------------------------
(* The futex Parker (std/src/sys_common/thread_parker/futex.rs): one thread  *)
(* owns it and parks, the others unpark it.  futex_wait and futex_wake are   *)
(* the kernel's: futex_wait sleeps only if the word still has the expected   *)
(* value, and may return for no reason.                                      *)
EXTENDS Integers

CONSTANT Unparkers   \* the threads that call unpark

VARIABLES state,  \* the AtomicI32
          opc,    \* where the owner is: running, wait, asleep, woken
          timed,  \* the owner is in park_timeout
          upc     \* where each unparker is: idle, wake

vars == <<state, opc, timed, upc>>

PARKED == -1
EMPTY == 0
NOTIFIED == 1

Init ==
    /\ state = EMPTY /\ opc = "running" /\ timed = FALSE
    /\ upc = [u \in Unparkers |-> "idle"]

(* park and park_timeout: state.fetch_sub(1); with the token it returns.     *)
Park(t) ==
    /\ opc = "running"
    /\ state' = state - 1
    /\ opc' = IF state = NOTIFIED THEN "running" ELSE "wait"
    /\ timed' = (t /\ state # NOTIFIED)
    /\ UNCHANGED upc

(* futex_wait(&state, PARKED): sleep, unless the word has changed.           *)
FutexWait ==
    /\ opc = "wait"
    /\ opc' = IF state = PARKED THEN "asleep" ELSE "woken"
    /\ UNCHANGED <<state, timed, upc>>

(* futex_wait returns by itself: the timeout of park_timeout, or nothing.    *)
FutexReturns ==
    /\ opc = "asleep"
    /\ opc' = "woken"
    /\ UNCHANGED <<state, timed, upc>>

(* Deviation of TokenTaken: any wakeup ends park.                            *)
TokenTakenUnseen == TRUE

(* park: compare_exchange(NOTIFIED, EMPTY) succeeds.                         *)
TokenTaken == state = NOTIFIED

(* park returns with the token, or waits again.                              *)
ParkWakes ==
    /\ opc = "woken" /\ ~timed
    /\ IF TokenTaken
       THEN state' = EMPTY /\ opc' = "running"
       ELSE opc' = "wait" /\ UNCHANGED state
    /\ UNCHANGED <<timed, upc>>

(* Deviation of TimedOut: only a token is taken back.                        *)
TimedOutParked == IF state = NOTIFIED THEN EMPTY ELSE state

(* park_timeout: state.swap(EMPTY), whatever the reason it woke up for.      *)
TimedOut == EMPTY

ParkTimeoutWakes ==
    /\ opc = "woken" /\ timed
    /\ state' = TimedOut /\ opc' = "running" /\ timed' = FALSE
    /\ UNCHANGED upc

(* Deviation of NeedsWake: only a word that was EMPTY is followed by a wake. *)
NeedsWakeIfEmpty(old) == old = EMPTY

(* Whether unpark has to wake the owner.                                     *)
NeedsWake(old) == old = PARKED

(* unpark: state.swap(NOTIFIED)                                              *)
Unpark(u) ==
    /\ upc[u] = "idle"
    /\ state' = NOTIFIED
    /\ upc' = [upc EXCEPT ![u] = IF NeedsWake(state) THEN "wake" ELSE "idle"]
    /\ UNCHANGED <<opc, timed>>

(* futex_wake(&state)                                                        *)
FutexWake(u) ==
    /\ upc[u] = "wake"
    /\ upc' = [upc EXCEPT ![u] = "idle"]
    /\ opc' = IF opc = "asleep" THEN "woken" ELSE opc
    /\ UNCHANGED <<state, timed>>

OwnerStep == FutexWait \/ ParkWakes \/ ParkTimeoutWakes

Next ==
    \/ (\E t \in BOOLEAN : Park(t)) \/ OwnerStep \/ FutexReturns
    \/ \E u \in Unparkers : Unpark(u) \/ FutexWake(u)

Spec == Init /\ [][Next]_vars

-----------------------------------------------------------------------------
(* The type of every variable.  The word never leaves -1..1: park's          *)
(* fetch_sub never finds PARKED, as the comment on park assumes.             *)
TypeOK ==
    /\ state \in {PARKED, EMPTY, NOTIFIED}
    /\ opc \in {"running", "wait", "asleep", "woken"}
    /\ timed \in BOOLEAN
    /\ upc \in [Unparkers -> {"idle", "wake"}]
=============================================================================
