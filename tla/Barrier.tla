------------------------------ MODULE Barrier -------------------------------
(* sync::Barrier (sync/barrier.rs) over the mutex and the condvar of         *)
(* WebAssembly.  Nobody panics with the lock, so its poison flag is left     *)
(* out.                                                                      *)
EXTENDS WasmMutex

CONSTANTS MaxWaits,    \* bound: how often each thread calls wait
          MaxSpurious  \* bound: how many wakeups are spurious

VARIABLES
    num_threads,      \* what Barrier::new was given
    count, generation,
    local_gen,        \* the generation each thread has waited in
    leads,            \* whether it found itself the leader
    waits,            \* the calls it has made
    spurious,         \* the wakeups that nobody had asked for
    gone              \* the calls that have returned, by generation: leaders and others

barrierVars == <<num_threads, count, generation, local_gen, leads, waits, spurious, gone>>

NotYet == -1          \* the thread has not read the generation in this call

Generations == 0 .. MaxWaits * Cardinality(Threads)

BarrierInit(Sizes) ==
    /\ MutexInit
    /\ num_threads \in Sizes /\ count = 0 /\ generation = 0
    /\ local_gen = [t \in Threads |-> 0] /\ leads = [t \in Threads |-> FALSE]
    /\ waits = [t \in Threads |-> 0] /\ spurious = 0
    /\ gone = [g \in Generations |-> [leaders |-> 0, others |-> 0]]

(* wait: lock, ...                                                           *)
Wait(t) ==
    /\ pc[t] = "idle" /\ waits[t] < MaxWaits
    /\ Move(t, "try") /\ waits' = [waits EXCEPT ![t] = @ + 1]
    /\ local_gen' = [local_gen EXCEPT ![t] = NotYet]
    /\ UNCHANGED <<locked, cnt, ticket, num_threads, count, generation, leads, spurious, gone>>

(* ... count oneself, and lead if one is the last; the leader notifies with  *)
(* the lock held.                                                            *)
Arrive(t) ==
    /\ pc[t] = "locked" /\ local_gen[t] = NotYet
    /\ local_gen' = [local_gen EXCEPT ![t] = generation]
    /\ IF count + 1 < num_threads
       THEN count' = count + 1 /\ leads' = [leads EXCEPT ![t] = FALSE] /\ Move(t, "ticket")
            /\ UNCHANGED generation
       ELSE count' = 0 /\ leads' = [leads EXCEPT ![t] = TRUE] /\ Move(t, "bump")
            /\ generation' = generation + 1
    /\ UNCHANGED <<locked, cnt, ticket, num_threads, waits, spurious, gone>>

(* Deviation of MustWait: a thread that wakes up does not look again.        *)
MustWaitNot(t) == FALSE

MustWait(t) == local_gen[t] = generation /\ count < num_threads

(* Back from the condvar: wait again, or leave.                              *)
Recheck(t) ==
    /\ pc[t] = "locked" /\ local_gen[t] # NotYet
    /\ Move(t, IF MustWait(t) THEN "ticket" ELSE "unlock")
    /\ UNCHANGED <<locked, cnt, ticket, barrierVars>>

(* std's Condvar may wake a thread that nobody has notified.                 *)
Spurious(t) ==
    /\ pc[t] = "casleep" /\ spurious < MaxSpurious
    /\ Move(t, "try") /\ spurious' = spurious + 1
    /\ UNCHANGED <<locked, cnt, ticket, num_threads, count, generation, local_gen, leads, waits, gone>>

LeaderNotifies(t) == WakeAll(t, "unlock") /\ UNCHANGED barrierVars

Leave(t) == Unlock(t, "unlock", "notify") /\ UNCHANGED barrierVars

Left(t) ==
    /\ Notify(t, "notify", "idle")
    /\ gone' = IF leads[t] THEN [gone EXCEPT ![local_gen[t]].leaders = @ + 1]
               ELSE [gone EXCEPT ![local_gen[t]].others = @ + 1]
    /\ UNCHANGED <<num_threads, count, generation, local_gen, leads, waits, spurious>>

BarrierStep(t) ==
    \/ MutexStep(t) /\ UNCHANGED barrierVars
    \/ Arrive(t) \/ Recheck(t) \/ LeaderNotifies(t) \/ Leave(t) \/ Left(t)

BarrierNext == \E t \in Threads : BarrierStep(t) \/ Spurious(t) \/ Wait(t)

-----------------------------------------------------------------------------
(* The calls of a generation that has come together, and those that still    *)
(* wait for theirs.                                                          *)
Arrived(g) == {t \in Threads : pc[t] # "idle" /\ local_gen[t] = g}
Crowd(g) == gone[g].leaders + gone[g].others + Cardinality(Arrived(g))
=============================================================================
