------------------------------- MODULE Locks --------------------------------
(* The locks that std builds itself, one of which is chosen to begin with:   *)
(* RwLock and Barrier over WebAssembly's mutex and condvar, the reentrant    *)
(* mutex, and the locks of BPF.                                              *)
EXTENDS RwLock, Barrier

CONSTANTS Nobody, Sizes,   \* Sizes: what Barrier::new may be given
          MaxDepth, MaxLocks, ISIZE_MAX, MaxTurns

ASSUME LocksAssumption == IsFiniteSet(Threads) /\ Nobody \notin Threads /\ ISIZE_MAX \in Nat /\ Sizes \subseteq Nat

VARIABLES
    lock,                                     \* which lock this is
    owner, recursions, depth, seen, locks,    \* ReentrantMutex
    flag, mode, guards, aborted, turns        \* BpfLocks

Re == INSTANCE ReentrantMutex
Bpf == INSTANCE BpfLocks

rwOnly == <<rawVars, poisonVars, calls, panics>>
reOnly == <<owner, recursions, depth, seen, locks>>
bpfOnly == <<flag, mode, guards, aborted, turns>>
mutex == <<locked, cnt, ticket>>
vars == <<lock, mutex, pc, rwOnly, barrierVars, reOnly, bpfOnly>>

Init ==
    /\ lock \in {"RwLock", "Barrier", "ReentrantMutex", "bpf"}
    /\ RwInit /\ Re!ReInit /\ Bpf!BpfInit
    /\ BarrierInit(IF lock = "Barrier" THEN Sizes ELSE {0})

OfRwLock(A) == lock = "RwLock" /\ A /\ UNCHANGED <<lock, barrierVars, reOnly, bpfOnly>>
OfBarrier(A) == lock = "Barrier" /\ A /\ UNCHANGED <<lock, rwOnly, reOnly, bpfOnly>>
OfReentrant(A) == lock = "ReentrantMutex" /\ A /\ UNCHANGED <<lock, mutex, rwOnly, barrierVars, bpfOnly>>
OfBpf(A) == lock = "bpf" /\ A /\ UNCHANGED <<lock, mutex, pc, rwOnly, barrierVars, reOnly>>

Next == OfRwLock(RwNext) \/ OfBarrier(BarrierNext) \/ OfReentrant(Re!ReNext) \/ OfBpf(Bpf!BpfNext)

Spec == Init /\ [][Next]_vars

(* A thread inside a call goes on, and whoever has a guard drops it at last. *)
Goes(t) ==
    \/ OfRwLock(RwStep(t) \/ DropGuard(t))
    \/ OfBarrier(BarrierStep(t))
    \/ OfReentrant(Re!ReStep(t) \/ Re!Disown(t))

FairSpec == Spec /\ \A t \in Threads : WF_vars(Goes(t))

-----------------------------------------------------------------------------
(* No thread finds its lock inconsistent: invalid() of the RWLock, the       *)
(* assertion of the reentrant mutex.                                         *)
NeverPanics == \A t \in Threads : pc[t] # "panicked"

(* The threads inside the mutex; a Barrier's leader notifies from there.     *)
InMutex == Inside \cup (IF lock = "Barrier" THEN {t \in Threads : pc[t] \in {"bump", "wakeall"}} ELSE {})

(* Each lock has the holders its own state says: the mutex at most one, the  *)
(* RWLock its readers or one writer, the reentrant mutex its owner as often  *)
(* as it has locked it, the RWLock of BPF no reader beside a writer even     *)
(* when its count wraps around.                                              *)
HoldersMatch ==
    /\ lock \in {"RwLock", "Barrier"} => locked = Cardinality(InMutex)
    /\ lock = "RwLock" =>
          /\ readers = Cardinality(Holders("read"))
          /\ state = (IF readers > 0 THEN "Reading" ELSE IF Holders("write") # {} THEN "Writing" ELSE "Unlocked")
          /\ Cardinality(Holders("write")) <= 1 /\ (readers > 0 => Holders("write") = {})
    /\ lock = "ReentrantMutex" =>
          \A t \in Threads : depth[t] = IF owner = t THEN recursions + 1 ELSE 0
    /\ lock = "bpf" =>
          /\ guards.write > 0 => guards.write = 1 /\ guards.read = 0
          /\ guards.mutex = IF flag THEN 1 ELSE 0

(* Whoever has a guard was told that the lock is poisoned just when a writer *)
(* before it dropped its guard unwinding from a panic that began under it    *)
(* (Flag::borrow, Flag::done).  A panic that was caught while the guard      *)
(* lived on, and any panic under a guard that was taken during another, are  *)
(* not reported: rwlock.rs:240, "An RwLock is poisoned whenever a writer     *)
(* panics while holding an exclusive lock", says more than the code does.    *)
PoisonSeen ==
    lock = "RwLock" =>
        \A t \in Threads : hold[t] # "none" /\ pc[t] = "idle" => (sawPoison[t] <=> torn)

(* Nobody leaves the barrier before the whole crowd has come, and one of the *)
(* crowd leads.                                                              *)
LeaveTogether ==
    lock = "Barrier" =>
        \A g \in Generations :
            IF g < generation
            THEN /\ Crowd(g) = IF num_threads = 0 THEN 1 ELSE num_threads
                 /\ gone[g].leaders + Cardinality({t \in Arrived(g) : leads[t]}) = 1
            ELSE gone[g].leaders + gone[g].others = 0

(* A call that nobody keeps from returning: every holder lets go, and the    *)
(* crowd of a barrier has come.                                              *)
Due(t) == pc[t] # "idle" /\ (lock = "Barrier" => local_gen[t] \in 0 .. generation - 1)

(* Every such call returns, whatever notifications cross it on its way to    *)
(* sleep: there are as many calls as their bounds allow, so at last there    *)
(* are none that have yet to return.                                         *)
EveryCallReturns == <>[](\A t \in Threads : ~Due(t))
=============================================================================
