----------------------------- MODULE WasmMutex ------------------------------
(* sys::wasm::Mutex and sys::wasm::Condvar (sys/wasm/mutex_atomics.rs,       *)
(* condvar_atomics.rs) over WebAssembly's wait and notify, one action per    *)
(* access to a word.  pc says where each thread is: "locked" is where lock   *)
(* has returned, and the module that uses the mutex goes on from there.      *)
EXTENDS Integers, FiniteSets

CONSTANT Threads

VARIABLES
    locked,   \* the mutex's word, 0 or 1
    cnt,      \* the condvar's counter
    ticket,   \* the counter that each thread has read in wait
    pc

mutexVars == <<locked, cnt, ticket, pc>>

MutexInit ==
    /\ locked = 0 /\ cnt = 0
    /\ ticket = [t \in Threads |-> 0] /\ pc = [t \in Threads |-> "idle"]

MutexPCs == {"try", "wait", "asleep", "locked", "ticket", "cunlock", "cnotify", "cwait", "casleep",
             "unlock", "notify", "bump", "wakeall"}

Move(t, at) == pc' = [pc EXCEPT ![t] = at]

(* memory_atomic_notify: t goes on, and the threads of W wake up.            *)
Wake(t, W, at) == pc' = [x \in Threads |-> IF x \in W THEN "try" ELSE IF x = t THEN at ELSE pc[x]]
Asleep(at) == {t \in Threads : pc[t] = at}
WakeOne(t, from, at) ==
    \/ Asleep(from) = {} /\ Move(t, at)
    \/ \E w \in Asleep(from) : Wake(t, {w}, at)

-----------------------------------------------------------------------------
(* Mutex::lock: try_lock's compare_exchange, ...                             *)
TryLock(t) ==
    /\ pc[t] = "try"
    /\ IF locked = 0 THEN locked' = 1 /\ Move(t, "locked")
       ELSE Move(t, "wait") /\ UNCHANGED locked
    /\ UNCHANGED <<cnt, ticket>>

(* ... and memory_atomic_wait32, which sleeps only if the word is still 1.   *)
LockWait(t) ==
    /\ pc[t] = "wait"
    /\ Move(t, IF locked = 1 THEN "asleep" ELSE "try")
    /\ UNCHANGED <<locked, cnt, ticket>>

(* Mutex::unlock: swap in 0, ...                                             *)
Unlock(t, from, at) ==
    /\ pc[t] = from
    /\ locked' = 0 /\ Move(t, at)
    /\ UNCHANGED <<cnt, ticket>>

(* Deviation of Notify: unlock wakes nobody.                                 *)
NotifyNobody(t, from, at) == pc[t] = from /\ Move(t, at) /\ UNCHANGED <<locked, cnt, ticket>>

(* ... and wake one waiter, if any.                                          *)
Notify(t, from, at) ==
    /\ pc[t] = from
    /\ WakeOne(t, "asleep", at)
    /\ UNCHANGED <<locked, cnt, ticket>>

(* Condvar::wait: read the counter, unlock, and sleep only if the counter is *)
(* still the same; then lock again.                                          *)
LoadTicket(t) ==
    /\ pc[t] = "ticket"
    /\ ticket' = [ticket EXCEPT ![t] = cnt] /\ Move(t, "cunlock")
    /\ UNCHANGED <<locked, cnt>>

(* Deviation of SameTicket: a notification since the unlock is not noticed.  *)
SameTicketAssumed(t) == TRUE

SameTicket(t) == cnt = ticket[t]

CondWait(t) ==
    /\ pc[t] = "cwait"
    /\ Move(t, IF SameTicket(t) THEN "casleep" ELSE "try") /\ ticket' = [ticket EXCEPT ![t] = 0]
    /\ UNCHANGED <<locked, cnt>>

(* Condvar::notify_all: add one, and wake every waiter.                      *)
Bump(t) ==
    /\ pc[t] = "bump"
    /\ cnt' = cnt + 1 /\ Move(t, "wakeall")
    /\ UNCHANGED <<locked, ticket>>

WakeAll(t, at) ==
    /\ pc[t] = "wakeall"
    /\ Wake(t, Asleep("casleep"), at)
    /\ UNCHANGED <<locked, cnt, ticket>>

(* The steps that are the same whoever uses the mutex and the condvar.       *)
MutexStep(t) ==
    \/ TryLock(t) \/ LockWait(t)
    \/ LoadTicket(t) \/ Unlock(t, "cunlock", "cnotify") \/ Notify(t, "cnotify", "cwait") \/ CondWait(t)
    \/ Bump(t)

(* The threads that have the mutex.                                          *)
Inside == {t \in Threads : pc[t] \in {"locked", "ticket", "cunlock", "unlock"}}
=============================================================================
