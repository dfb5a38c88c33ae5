------------------------------- MODULE RwLock -------------------------------
(* sync::RwLock (sync/rwlock.rs, sys_common/poison.rs) over the RWLock of    *)
(* sys/wasm/rwlock_atomics.rs, a state behind a mutex and a condvar.  A call *)
(* goes through the mutex once more for every time it has to wait.           *)
EXTENDS WasmMutex

CONSTANTS MaxCalls,    \* bound: how often a guard is asked for
          MaxPanics    \* bound: how many threads panic

VARIABLES
    state, readers,    \* State::Unlocked, Reading(readers), Writing
    op,                \* the call that each thread is in
    hold,              \* what it has: read, write or none
    notify,            \* dec_readers or dec_writers said to notify
    failed,            \* poison::Flag
    sawPoison,         \* what Flag::borrow told it
    panicking,         \* thread::panicking()
    guardPanicking,    \* poison::Guard
    struck,            \* "now" while a panic that began under its guard goes on
    torn,              \* a writer has left its data unwinding from such a panic
    calls, panics

rawVars == <<state, readers, op, hold, notify>>
poisonVars == <<failed, sawPoison, panicking, guardPanicking, struck, torn>>
rwVars == <<mutexVars, rawVars, poisonVars, calls, panics>>

RwInit ==
    /\ MutexInit
    /\ state = "Unlocked" /\ readers = 0 /\ failed = FALSE /\ torn = FALSE /\ calls = 0 /\ panics = 0
    /\ op = [t \in Threads |-> "none"] /\ hold = [t \in Threads |-> "none"]
    /\ notify = [t \in Threads |-> FALSE] /\ sawPoison = [t \in Threads |-> FALSE]
    /\ panicking = [t \in Threads |-> FALSE] /\ guardPanicking = [t \in Threads |-> FALSE]
    /\ struck = [t \in Threads |-> "no"]

Acquire == {"read", "write", "try_read", "try_write"}
Mode(o) == IF o \in {"read", "try_read"} THEN "read" ELSE "write"

-----------------------------------------------------------------------------
(* read, write, try_read and try_write.                                      *)
Call(t, o) ==
    /\ pc[t] = "idle" /\ hold[t] = "none" /\ calls < MaxCalls
    /\ op' = [op EXCEPT ![t] = o] /\ Move(t, "try") /\ calls' = calls + 1
    /\ UNCHANGED <<locked, cnt, ticket, state, readers, hold, notify, poisonVars, panics>>

(* The thread panics with a guard (a panic without one is, for the lock,     *)
(* that of a reader who has dropped its guard).                              *)
Panic(t) ==
    /\ pc[t] = "idle" /\ hold[t] # "none" /\ ~panicking[t] /\ panics < MaxPanics
    /\ panicking' = [panicking EXCEPT ![t] = TRUE] /\ panics' = panics + 1
    /\ struck' = [struck EXCEPT ![t] = "now"]
    /\ UNCHANGED <<mutexVars, rawVars, failed, sawPoison, guardPanicking, torn, calls>>

(* Unwinding is over, and the panic was caught; a guard that the thread has  *)
(* then, from outside of catch_unwind or kept by a destructor, lives on.     *)
Caught(t) ==
    /\ pc[t] = "idle" /\ panicking[t]
    /\ panicking' = [panicking EXCEPT ![t] = FALSE]
    /\ struck' = [struck EXCEPT ![t] = "no"]
    /\ UNCHANGED <<mutexVars, rawVars, failed, sawPoison, guardPanicking, torn, calls, panics>>

(* Deviation of Poisons: a guard from before the panic is the one let off.   *)
PoisonsOthers(t) == guardPanicking[t] /\ panicking[t]

(* Flag::done                                                                *)
Poisons(t) == ~guardPanicking[t] /\ panicking[t]

(* A writer leaves its data half done: unwinding from a panic that began     *)
(* under its guard, the guard not one taken during an earlier panic.         *)
Tears(t) == hold[t] = "write" /\ struck[t] = "now" /\ ~guardPanicking[t]

(* A guard is dropped; a write guard first says whether it was in a panic.   *)
DropGuard(t) ==
    /\ pc[t] = "idle" /\ hold[t] # "none"
    /\ failed' = (failed \/ (hold[t] = "write" /\ Poisons(t)))
    /\ op' = [op EXCEPT ![t] = IF hold[t] = "read" THEN "read_unlock" ELSE "write_unlock"] /\ Move(t, "try")
    /\ sawPoison' = [sawPoison EXCEPT ![t] = FALSE] /\ guardPanicking' = [guardPanicking EXCEPT ![t] = FALSE]
    /\ torn' = (torn \/ Tears(t)) /\ struck' = [struck EXCEPT ![t] = "no"]
    /\ UNCHANGED <<locked, cnt, ticket, state, readers, hold, notify, panicking, calls, panics>>

-----------------------------------------------------------------------------
(* inc_readers and inc_writers, for a call that has the mutex.               *)
Free(o) == state = "Unlocked" \/ (state = "Reading" /\ Mode(o) = "read")

Take(t) ==
    /\ pc[t] = "locked" /\ op[t] \in Acquire
    /\ \/ /\ Free(op[t]) /\ Move(t, "unlock")
          /\ IF Mode(op[t]) = "read" THEN state' = "Reading" /\ readers' = readers + 1
             ELSE state' = "Writing" /\ UNCHANGED readers
          /\ hold' = [hold EXCEPT ![t] = Mode(op[t])]
       \/ /\ ~Free(op[t])
          /\ Move(t, IF op[t] \in {"read", "write"} THEN "ticket" ELSE "unlock")
          /\ UNCHANGED <<state, readers, hold>>
    /\ UNCHANGED <<locked, cnt, ticket, op, notify, poisonVars, calls, panics>>

(* Deviation of LastReader: the count before the decrement is looked at.     *)
LastReaderBefore == readers = 0

LastReader == readers = 1

(* dec_readers                                                               *)
DecReaders(t) ==
    /\ pc[t] = "locked" /\ op[t] = "read_unlock"
    /\ IF state # "Reading" THEN Move(t, "panicked") /\ UNCHANGED <<state, readers, notify, hold>>
       ELSE /\ readers' = readers - 1 /\ state' = (IF LastReader THEN "Unlocked" ELSE state)
            /\ notify' = [notify EXCEPT ![t] = LastReader]
            /\ hold' = [hold EXCEPT ![t] = "none"] /\ Move(t, "unlock")
    /\ UNCHANGED <<locked, cnt, ticket, op, poisonVars, calls, panics>>

(* dec_writers                                                               *)
DecWriters(t) ==
    /\ pc[t] = "locked" /\ op[t] = "write_unlock"
    /\ IF state # "Writing" THEN Move(t, "panicked") /\ UNCHANGED <<state, notify, hold>>
       ELSE /\ state' = "Unlocked" /\ notify' = [notify EXCEPT ![t] = TRUE]
            /\ hold' = [hold EXCEPT ![t] = "none"] /\ Move(t, "unlock")
    /\ UNCHANGED <<locked, cnt, ticket, readers, op, poisonVars, calls, panics>>

Release(t) == Unlock(t, "unlock", "notify") /\ UNCHANGED <<rawVars, poisonVars, calls, panics>>

(* After unlock's notify a release goes on to notify_all, an acquisition to  *)
(* Flag::borrow, and a try that failed is over.                              *)
AfterUnlock(t) ==
    IF notify[t] THEN "bump" ELSE IF op[t] \in Acquire /\ hold[t] # "none" THEN "borrow" ELSE "idle"

Released(t) ==
    /\ Notify(t, "notify", AfterUnlock(t))
    /\ op' = [op EXCEPT ![t] = IF AfterUnlock(t) = "idle" THEN "none" ELSE @]
    /\ UNCHANGED <<state, readers, hold, notify, poisonVars, calls, panics>>

NotifyAll(t) ==
    /\ WakeAll(t, "idle")
    /\ op' = [op EXCEPT ![t] = "none"] /\ notify' = [notify EXCEPT ![t] = FALSE]
    /\ UNCHANGED <<state, readers, hold, poisonVars, calls, panics>>

(* Flag::borrow                                                              *)
Borrow(t) ==
    /\ pc[t] = "borrow"
    /\ guardPanicking' = [guardPanicking EXCEPT ![t] = panicking[t]]
    /\ sawPoison' = [sawPoison EXCEPT ![t] = failed]
    /\ op' = [op EXCEPT ![t] = "none"] /\ Move(t, "idle")
    /\ UNCHANGED <<locked, cnt, ticket, state, readers, hold, notify, failed, panicking, struck, torn, calls, panics>>

-----------------------------------------------------------------------------
(* The steps a thread takes once it is in a call.                            *)
RwStep(t) ==
    \/ MutexStep(t) /\ UNCHANGED <<rawVars, poisonVars, calls, panics>>
    \/ Take(t) \/ DecReaders(t) \/ DecWriters(t) \/ Release(t) \/ Released(t) \/ NotifyAll(t) \/ Borrow(t)

RwNext ==
    \E t \in Threads : RwStep(t) \/ DropGuard(t) \/ Panic(t) \/ Caught(t) \/ \E o \in Acquire : Call(t, o)

-----------------------------------------------------------------------------
Holders(m) == {t \in Threads : hold[t] = m}

RwTypeOK ==
    /\ locked \in {0, 1} /\ cnt \in Nat /\ ticket \in [Threads -> Nat]
    /\ pc \in [Threads -> MutexPCs \cup {"idle", "borrow", "panicked"}]
    /\ state \in {"Unlocked", "Reading", "Writing"} /\ readers \in Nat
    /\ op \in [Threads -> Acquire \cup {"none", "read_unlock", "write_unlock"}]
    /\ hold \in [Threads -> {"none", "read", "write"}] /\ notify \in [Threads -> BOOLEAN]
    /\ failed \in BOOLEAN /\ torn \in BOOLEAN /\ struck \in [Threads -> {"no", "now"}]
    /\ sawPoison \in [Threads -> BOOLEAN] /\ panicking \in [Threads -> BOOLEAN]
    /\ guardPanicking \in [Threads -> BOOLEAN] /\ calls \in Nat /\ panics \in Nat
=============================================================================
