--------------------------- MODULE ReentrantMutex ---------------------------
(* ReentrantMutex of sys/wasm/mutex_atomics.rs: the owner's word, and a      *)
(* count of recursions that only the owner may touch.                        *)
EXTENDS Integers, FiniteSets

CONSTANTS Threads, Nobody,   \* Nobody: the owner's word is 0
          MaxDepth,          \* bound: how deep a thread locks
          MaxLocks           \* bound: how often lock and try_lock are called

VARIABLES
    owner, recursions,
    depth,                   \* the guards that each thread has
    seen,                    \* the owner that it saw
    pc, locks

reVars == <<owner, recursions, depth, seen, pc, locks>>

ReInit ==
    /\ owner = Nobody /\ recursions = 0 /\ locks = 0
    /\ depth = [t \in Threads |-> 0] /\ seen = [t \in Threads |-> Nobody]
    /\ pc = [t \in Threads |-> "idle"]

Step(t, at) == pc' = [pc EXCEPT ![t] = at]

Lock(t, how) ==
    /\ pc[t] = "idle" /\ depth[t] < MaxDepth /\ locks < MaxLocks
    /\ Step(t, how) /\ locks' = locks + 1
    /\ UNCHANGED <<owner, recursions, depth, seen>>

(* _try_lock: compare_exchange; the owner adds a recursion.  lock goes on    *)
(* to wait for the owner that it saw.                                        *)
TryOwn(t) ==
    /\ pc[t] \in {"lock", "try_lock"}
    /\ \/ /\ owner = Nobody
          /\ owner' = t /\ depth' = [depth EXCEPT ![t] = @ + 1]
          /\ Step(t, IF recursions = 0 THEN "idle" ELSE "panicked")
          /\ UNCHANGED <<recursions, seen>>
       \/ /\ owner = t
          /\ recursions' = recursions + 1 /\ depth' = [depth EXCEPT ![t] = @ + 1] /\ Step(t, "idle")
          /\ UNCHANGED <<owner, seen>>
       \/ /\ owner \notin {Nobody, t}
          /\ seen' = [seen EXCEPT ![t] = owner]
          /\ Step(t, IF pc[t] = "lock" THEN "wait" ELSE "idle")
          /\ UNCHANGED <<owner, recursions, depth>>
    /\ UNCHANGED locks

(* memory_atomic_wait32 for that owner.                                      *)
OwnWait(t) ==
    /\ pc[t] = "wait"
    /\ Step(t, IF owner = seen[t] THEN "asleep" ELSE "lock")
    /\ UNCHANGED <<owner, recursions, depth, seen, locks>>

(* Deviation of Outermost: the last recursion releases the lock.             *)
OutermostOff == recursions <= 1

Outermost == recursions = 0

(* unlock                                                                    *)
Disown(t) ==
    /\ pc[t] = "idle" /\ depth[t] > 0
    /\ depth' = [depth EXCEPT ![t] = @ - 1]
    /\ IF Outermost THEN owner' = Nobody /\ Step(t, "notify") /\ UNCHANGED recursions
       ELSE recursions' = recursions - 1 /\ UNCHANGED <<owner, pc>>
    /\ UNCHANGED <<seen, locks>>

NotifyOwner(t) ==
    /\ pc[t] = "notify"
    /\ \/ (\A w \in Threads : pc[w] # "asleep") /\ Step(t, "idle")
       \/ \E w \in Threads : pc[w] = "asleep" /\ pc' = [pc EXCEPT ![w] = "lock", ![t] = "idle"]
    /\ UNCHANGED <<owner, recursions, depth, seen, locks>>

ReStep(t) == TryOwn(t) \/ OwnWait(t) \/ NotifyOwner(t)

ReNext == \E t \in Threads : ReStep(t) \/ Disown(t) \/ \E how \in {"lock", "try_lock"} : Lock(t, how)
=============================================================================
