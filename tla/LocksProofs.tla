----------------------------- MODULE LocksProofs ----------------------------
(* Theorems about the locks, for any finite set of threads, any number of    *)
(* calls and any width of isize.                                             *)
EXTENDS Locks, TLAPS

(* What the lemmas use of the sizes of sets of threads.  It is true because  *)
(* the threads are finitely many (CountingHolds).             *)
Counting ==
    /\ Cardinality({}) = 0
    /\ \A t \in Threads : Cardinality({t}) = 1
    /\ \A S \in SUBSET Threads :
         /\ Cardinality(S) \in Nat
         /\ Cardinality(S) = 0 => S = {}
         /\ \A t \in Threads \ S : Cardinality(S \cup {t}) = Cardinality(S) + 1
         /\ \A t \in S : Cardinality(S \ {t}) = Cardinality(S) - 1

(* The mutex's word is 1 exactly while a thread is inside, and only one is.  *)
MutexInv ==
    /\ \A t \in InMutex : locked = 1
    /\ \A t, u \in InMutex : t = u
    /\ locked = 1 => \E t \in Threads : t \in InMutex

(* A thread on its way into the mutex, and one that waits on the condvar.    *)
Entering == {"try", "wait", "asleep", "locked"}
Waiting == {"ticket", "cunlock", "cnotify", "cwait", "casleep"}

RwPCs == MutexPCs \cup {"idle", "borrow", "panicked"}
RwOps == Acquire \cup {"none", "read_unlock", "write_unlock"}

(* What a thread is about at each place of the RWLock's calls.               *)
RwPlace(t) ==
    /\ pc[t] # "panicked"
    /\ pc[t] = "idle" => ~notify[t]
    /\ pc[t] \in Entering =>
          /\ op[t] # "none" /\ ~notify[t]
          /\ op[t] \in Acquire => hold[t] = "none"
          /\ op[t] = "read_unlock" => hold[t] = "read"
          /\ op[t] = "write_unlock" => hold[t] = "write"
    /\ pc[t] \in Waiting =>
          op[t] \in Acquire /\ hold[t] = "none" /\ ~notify[t]
    /\ pc[t] \in {"unlock", "notify"} =>
          /\ op[t] # "none"
          /\ op[t] \notin Acquire => hold[t] = "none"
          /\ notify[t] => op[t] \notin Acquire
    /\ pc[t] \in {"bump", "wakeall"} => hold[t] = "none"
    /\ pc[t] = "borrow" => hold[t] # "none" /\ ~notify[t]

Readers(f) == {x \in Threads : f[x] = "read"}

(* The RWLock's state is that of its holders.                                *)
StateInv ==
    /\ readers = Cardinality(Readers(hold))
    /\ state = "Reading" <=> readers > 0
    /\ state = "Writing" <=> \E t \in Threads : hold[t] = "write"
    /\ \A t, u \in Threads : hold[t] = "write" /\ hold[u] = "write" => t = u

(* The lock is poisoned when a writer has unwound with it, a guard was told  *)
(* what is still so, and unless it was taken during a panic, its thread is   *)
(* panicking just when a panic struck under it and has not been caught.      *)
TornInv == failed <=> torn

GuardInv(t) ==
    /\ hold[t] # "none" /\ pc[t] = "idle" =>
          /\ sawPoison[t] <=> failed
          /\ guardPanicking[t] \/ (panicking[t] <=> struck[t] = "now")
    /\ hold[t] = "none" \/ pc[t] # "idle" => struck[t] = "no"

RwInv ==
    /\ RwTypeOK /\ MutexInv /\ StateInv /\ TornInv
    /\ \A t \in Threads : RwPlace(t) /\ GuardInv(t)

(* The calls of the barrier's present generation are those it has counted,   *)
(* and none of them leads or leaves; each earlier one came together, with    *)
(* one leader.                                                               *)
Leaving == {"bump", "wakeall", "unlock", "notify"}
Leaders(g) == {t \in Arrived(g) : leads[t]}

CrowdTypes ==
    /\ num_threads \in Nat /\ count \in Nat /\ generation \in Nat
    /\ local_gen \in [Threads -> Nat \cup {NotYet}] /\ leads \in [Threads -> BOOLEAN]
    /\ gone \in [Generations -> [leaders : Nat, others : Nat]]

PresentInv ==
    /\ count = 0 \/ count < num_threads
    /\ count = Cardinality(Arrived(generation))
    /\ \A t \in Threads : pc[t] # "idle" => local_gen[t] <= generation
    /\ \A t \in Arrived(generation) : ~leads[t]
    /\ \A t \in Threads : pc[t] \in Leaving => local_gen[t] \in 0 .. generation - 1

TogetherAt(g) ==
    IF g < generation
    THEN /\ Crowd(g) = IF num_threads = 0 THEN 1 ELSE num_threads
         /\ gone[g].leaders + Cardinality(Leaders(g)) = 1
    ELSE gone[g].leaders = 0 /\ gone[g].others = 0

CrowdInv == CrowdTypes /\ PresentInv /\ \A g \in Generations : TogetherAt(g)

BarrierPCs == MutexPCs \cup {"idle"}
MutexTypes ==
    /\ locked \in {0, 1} /\ cnt \in Nat /\ ticket \in [Threads -> Nat]
    /\ pc \in [Threads -> BarrierPCs]
BarrierInv == MutexTypes /\ MutexInv /\ CrowdInv

(* The reentrant mutex has no recursions without an owner.                   *)
ReInv ==
    /\ owner \in Threads \cup {Nobody} /\ recursions \in Nat
    /\ pc \in [Threads -> {"idle", "lock", "try_lock", "wait", "asleep", "notify"}]
    /\ depth \in [Threads -> Nat]
    /\ owner = Nobody => recursions = 0
    /\ \A t \in Threads : depth[t] = IF owner = t THEN recursions + 1 ELSE 0

(* BPF's mode is the number of readers, until that wraps around to a         *)
(* negative number and no more readers are let in.                           *)
BpfInv ==
    /\ pc = [t \in Threads |-> "idle"]
    /\ guards \in [mutex : Nat, read : Nat, write : Nat]
    /\ flag \in BOOLEAN /\ guards.mutex = (IF flag THEN 1 ELSE 0)
    /\ \/ guards.write = 0 /\ guards.read \in 0 .. ISIZE_MAX /\ mode = guards.read
       \/ guards.write = 0 /\ guards.read = ISIZE_MAX + 1 /\ mode = -ISIZE_MAX - 1
       \/ guards.write = 1 /\ guards.read = 0 /\ mode = -1

IInv ==
    /\ lock \in {"RwLock", "Barrier", "ReentrantMutex", "bpf"}
    /\ lock = "RwLock" => RwInv
    /\ lock = "Barrier" => BarrierInv
    /\ lock = "ReentrantMutex" => ReInv
    /\ lock = "bpf" => BpfInv

-----------------------------------------------------------------------------
(* What Counting says of one set.                                            *)
LEMMA CountOf ==
    ASSUME Counting, NEW S \in SUBSET Threads
    PROVE  Cardinality(S) \in Nat /\ (Cardinality(S) = 0 <=> S = {})
BY Zenon DEF Counting

(* One thread more.                                                          *)
LEMMA CountJoins ==
    ASSUME Counting, NEW S \in SUBSET Threads, NEW t \in Threads, t \notin S
    PROVE  Cardinality(S \cup {t}) = Cardinality(S) + 1
BY Zenon DEF Counting

(* One thread fewer.                                                         *)
LEMMA CountLeaves ==
    ASSUME Counting, NEW S \in SUBSET Threads, NEW t \in Threads, t \in S
    PROVE  Cardinality(S \ {t}) = Cardinality(S) - 1
BY Zenon DEF Counting

(* Wrapping leaves an isize alone and takes one step beyond it to the other  *)
(* end.                                                                      *)
LEMMA WrapFacts ==
    /\ \A n \in -ISIZE_MAX - 1 .. ISIZE_MAX : Bpf!Wrap(n) = n
    /\ Bpf!Wrap(ISIZE_MAX + 1) = -ISIZE_MAX - 1
    /\ Bpf!Wrap(-ISIZE_MAX - 2) = ISIZE_MAX
BY LocksAssumption DEF Bpf!Wrap

(* Every step of BPF's locks keeps their invariant.                          *)
LEMMA BpfStep == lock = "bpf" /\ BpfInv /\ Bpf!BpfNext /\ UNCHANGED pc => BpfInv'
<1> SUFFICES ASSUME lock = "bpf", BpfInv, Bpf!BpfNext, UNCHANGED pc PROVE BpfInv'
    BY Zenon
<1> USE LocksAssumption, WrapFacts DEF BpfInv, Bpf!Turn, Bpf!Have, Bpf!Drop, Bpf!Refuse
<1>1. ASSUME NEW try \in BOOLEAN, Bpf!MutexLock(try) PROVE BpfInv'
  <2>1. CASE ~flag /\ flag' = TRUE /\ Bpf!Have("mutex") /\ UNCHANGED <<mode, aborted>>
    <3>1. flag = FALSE /\ flag' = TRUE
        BY <2>1, Zenon
    <3> QED
        BY <2>1, <3>1
  <2>2. CASE flag /\ Bpf!Refuse(try)
      BY <2>2, Zenon
  <2> QED
      BY <1>1, <2>1, <2>2, Zenon DEF Bpf!MutexLock
<1>2. ASSUME NEW try \in BOOLEAN, Bpf!Read(try) PROVE BpfInv'
    BY <1>2 DEF Bpf!Read, Bpf!Readable
<1>3. ASSUME NEW try \in BOOLEAN, Bpf!Write(try) PROVE BpfInv'
    BY <1>3 DEF Bpf!Write
<1>4. CASE Bpf!MutexUnlock
  <2>1. flag = TRUE /\ guards.mutex = 1
      BY <1>4 DEF Bpf!MutexUnlock
  <2>2. flag' = FALSE
      BY <1>4, Zenon DEF Bpf!MutexUnlock
  <2>3. guards["mutex"] - 1 = 0
      BY <2>1
  <2>4. guards' = [guards EXCEPT !["mutex"] = 0]
      BY <1>4, <2>3, Zenon DEF Bpf!MutexUnlock
  <2> QED
      BY <1>4, <2>1, <2>2, <2>4, Zenon DEF Bpf!MutexUnlock
<1>5. CASE Bpf!ReadUnlock
    BY <1>5 DEF Bpf!ReadUnlock
<1>6. CASE Bpf!WriteUnlock
    BY <1>6 DEF Bpf!WriteUnlock
<1> QED
    BY <1>1, <1>2, <1>3, <1>4, <1>5, <1>6, Zenon DEF Bpf!BpfNext

(* Every step of the reentrant mutex keeps its invariant.                    *)
LEMMA ReentrantStep == ReInv /\ Re!ReNext => ReInv'
<1> SUFFICES ASSUME ReInv, NEW t \in Threads,
                    Re!ReStep(t) \/ Re!Disown(t) \/ \E how \in {"lock", "try_lock"} : Re!Lock(t, how)
             PROVE ReInv'
    BY Zenon DEF Re!ReNext
<1> USE LocksAssumption DEF ReInv, Re!Step
<1>1. ASSUME NEW how \in {"lock", "try_lock"}, Re!Lock(t, how) PROVE ReInv'
    BY <1>1, Zenon DEF Re!Lock
<1>2. CASE Re!TryOwn(t)
    BY <1>2 DEF Re!TryOwn
<1>3. CASE Re!OwnWait(t)
    BY <1>3, Zenon DEF Re!OwnWait
<1>4. CASE Re!Disown(t)
    BY <1>4 DEF Re!Disown, Re!Outermost
<1>5. CASE Re!NotifyOwner(t)
    BY <1>5, Zenon DEF Re!NotifyOwner
<1> QED
    BY <1>1, <1>2, <1>3, <1>4, <1>5, Zenon DEF Re!ReStep

-----------------------------------------------------------------------------
(* What a thread may do to the places of the others: wake those that sleep.  *)
Moves(t) ==
    \A u \in Threads \ {t} : pc'[u] = pc[u] \/ (pc[u] \in {"asleep", "casleep"} /\ pc'[u] = "try")

(* How it may change the mutex's word: as it comes in or leaves.             *)
Passes(t) ==
    \/ locked' = locked /\ (t \in InMutex <=> t \in InMutex')
    \/ locked = 0 /\ locked' = 1 /\ t \in InMutex'
    \/ t \in InMutex /\ locked' = 0 /\ t \notin InMutex'

(* Such a step leaves the word with whoever is inside.                       *)
LEMMA MutexKept ==
    ASSUME MutexInv, lock' = lock, NEW t \in Threads, Moves(t), Passes(t)
    PROVE  MutexInv'
<1>1. \A u \in Threads \ {t} : u \in InMutex <=> u \in InMutex'
    BY Zenon DEF Moves, InMutex, Inside
<1>2. InMutex \subseteq Threads /\ InMutex' \subseteq Threads
    BY Zenon DEF InMutex, Inside
<1>3. CASE locked' = locked /\ (t \in InMutex <=> t \in InMutex')
    BY <1>1, <1>2, <1>3, Zenon DEF MutexInv
<1>4. CASE locked = 0 /\ locked' = 1 /\ t \in InMutex'
    BY <1>1, <1>2, <1>4 DEF MutexInv
<1>5. CASE t \in InMutex /\ locked' = 0 /\ t \notin InMutex'
  <2>1. InMutex' = {}
      BY <1>1, <1>2, <1>5, Zenon DEF MutexInv
  <2> QED
      BY <1>5, <2>1 DEF MutexInv
<1> QED
    BY <1>3, <1>4, <1>5, Zenon DEF Passes

(* The steps of the mutex and the condvar are of this kind: a thread that is *)
(* on its way in stays so, one that waits comes back to the way in.          *)
LEMMA MutexMoves ==
    ASSUME NEW PCs, pc \in [Threads -> PCs], MutexPCs \subseteq PCs,
           locked \in {0, 1}, cnt \in Nat, ticket \in [Threads -> Nat], lock' = lock,
           NEW t \in Threads, MutexStep(t)
    PROVE  /\ pc' \in [Threads -> PCs]
           /\ locked' \in {0, 1} /\ cnt' \in Nat /\ ticket' \in [Threads -> Nat]
           /\ Moves(t) /\ Passes(t)
           /\ \/ pc[t] \in Entering /\ pc'[t] \in Entering
              \/ pc[t] \in Waiting /\ pc'[t] \in Waiting \cup {"try"}
              \/ pc[t] = "bump" /\ pc'[t] = "wakeall"
<1> USE DEF Move, MutexPCs, Moves, Passes, InMutex, Inside, Entering, Waiting
<1>1. CASE TryLock(t)
    BY <1>1, Zenon DEF TryLock
<1>2. CASE LockWait(t)
    BY <1>2, Zenon DEF LockWait
<1>3. CASE LoadTicket(t)
    BY <1>3, Zenon DEF LoadTicket
<1>4. CASE Unlock(t, "cunlock", "cnotify")
    BY <1>4, Zenon DEF Unlock
<1>5. CASE Notify(t, "cnotify", "cwait")
    BY <1>5, Zenon DEF Notify, WakeOne, Wake, Asleep
<1>6. CASE CondWait(t)
    BY <1>6, Zenon DEF CondWait
<1>7. CASE Bump(t)
    BY <1>7 DEF Bump
<1> QED
    BY <1>1, <1>2, <1>3, <1>4, <1>5, <1>6, <1>7, Zenon DEF MutexStep

(* A step that lets nobody come or go leaves the crowd as it is.             *)
LEMMA CrowdKept ==
    ASSUME CrowdInv, NEW t \in Threads, Moves(t), pc[t] # "idle", pc'[t] # "idle",
           UNCHANGED <<num_threads, count, generation, local_gen, leads, gone>>,
           pc'[t] \in Leaving => local_gen[t] \in 0 .. generation - 1
    PROVE  CrowdInv'
<1>1. \A u \in Threads : pc'[u] = "idle" <=> pc[u] = "idle"
    BY Zenon DEF Moves
<1>2. \A g : Arrived(g)' = Arrived(g) /\ Leaders(g)' = Leaders(g)
    BY <1>1, Zenon DEF Arrived, Leaders
<1>3. CrowdTypes'
    BY Zenon DEF CrowdInv, CrowdTypes, Generations
<1>4. PresentInv'
  <2>1. \A u \in Threads : pc'[u] \in Leaving => u = t \/ pc[u] \in Leaving
      BY Zenon DEF Moves, Leaving
  <2>2. \A u \in Threads : pc'[u] \in Leaving => local_gen'[u] \in 0 .. generation' - 1
      BY <2>1, Zenon DEF CrowdInv, PresentInv
  <2>3. Arrived(generation)' = Arrived(generation)
      BY <1>1, Zenon DEF Arrived
  <2> QED
      BY <1>1, <2>2, <2>3, Zenon DEF CrowdInv, PresentInv
<1>5. ASSUME NEW g \in Generations PROVE TogetherAt(g)'
    BY <1>2, Zenon DEF CrowdInv, TogetherAt, Crowd
<1> QED
    BY <1>3, <1>4, <1>5, Zenon DEF CrowdInv, Generations

(* A call that begins is of no generation yet.                               *)
LEMMA CrowdCalls ==
    ASSUME CrowdInv, NEW t \in Threads, pc[t] = "idle", \A u \in Threads \ {t} : pc'[u] = pc[u],
           pc'[t] = "try", local_gen' = [local_gen EXCEPT ![t] = NotYet],
           UNCHANGED <<num_threads, count, generation, leads, gone>>
    PROVE  CrowdInv'
<1>1. CrowdTypes'
    BY Zenon DEF CrowdInv, CrowdTypes, Generations
<1>2. \A g \in Nat : Arrived(g)' = Arrived(g) /\ Leaders(g)' = Leaders(g)
    BY DEF CrowdInv, CrowdTypes, Arrived, Leaders, NotYet
<1>3. generation \in Nat /\ \A g \in Generations : g \in Nat
    BY DEF CrowdInv, CrowdTypes, Generations
<1>4. PresentInv'
  <2>1. Arrived(generation)' = Arrived(generation)
      BY <1>3 DEF CrowdInv, CrowdTypes, Arrived, NotYet
  <2> QED
      BY <1>3, <2>1 DEF CrowdInv, CrowdTypes, PresentInv, Leaving, NotYet
<1>5. ASSUME NEW g \in Generations PROVE TogetherAt(g)'
    BY <1>2, <1>3, Zenon DEF CrowdInv, TogetherAt, Crowd
<1> QED
    BY <1>1, <1>4, <1>5, Zenon DEF CrowdInv, Generations

(* A call that is counted joins the present generation, and brings the next  *)
(* if it is the last.                                                        *)
LEMMA CrowdArrives ==
    ASSUME Counting, CrowdInv, NEW t \in Threads, pc \in [Threads -> BarrierPCs], Arrive(t)
    PROVE  CrowdInv'
<1> USE DEF Move
<1>1. /\ CrowdTypes /\ PresentInv /\ \A g \in Generations : TogetherAt(g)
    BY Zenon DEF CrowdInv
<1>2. /\ pc[t] = "locked" /\ local_gen[t] = NotYet
      /\ local_gen' = [local_gen EXCEPT ![t] = generation] /\ UNCHANGED <<num_threads, gone>>
    BY Zenon DEF Arrive
<1>3. /\ pc'[t] # "idle" /\ \A u \in Threads \ {t} : pc'[u] = pc[u]
      /\ \A u \in Threads \ {t} : leads'[u] = leads[u]
    BY <1>1, Zenon DEF Arrive, CrowdTypes
<1>4. generation \in Nat /\ \A g \in Generations : g \in Nat
    BY <1>1 DEF CrowdTypes, Generations
<1>5. ASSUME NEW g \in Nat, g # generation
      PROVE  Arrived(g)' = Arrived(g) /\ Leaders(g)' = Leaders(g)
    BY <1>1, <1>2, <1>3, <1>5 DEF CrowdTypes, Arrived, Leaders, NotYet
<1> DEFINE now == {u \in Threads : pc'[u] # "idle" /\ local_gen'[u] = generation}
           lead == {u \in now : leads'[u]}
<1>6. /\ Arrived(generation) \in SUBSET Threads /\ t \notin Arrived(generation)
      /\ now = Arrived(generation) \cup {t}
    BY <1>1, <1>2, <1>3, <1>4 DEF CrowdTypes, Arrived, NotYet
<1>7. Cardinality(now) = count + 1
  <2>1. Cardinality(now) = Cardinality(Arrived(generation)) + 1
      BY <1>6, CountJoins, Zenon
  <2> QED
      BY <1>1, <2>1, Zenon DEF PresentInv
<1>8. lead = IF leads'[t] THEN {t} ELSE {}
    BY <1>1, <1>3, <1>6, Zenon DEF PresentInv, Arrived
<1> HIDE DEF now, lead
<1>9. CASE count + 1 < num_threads
  <2>1. /\ count' = count + 1 /\ leads' = [leads EXCEPT ![t] = FALSE] /\ generation' = generation
        /\ pc'[t] = "ticket"
      BY <1>9, Zenon DEF Arrive
  <2>2. CrowdTypes'
      BY <1>1, <1>2, <1>4, <2>1 DEF CrowdTypes, Generations
  <2>3. Arrived(generation)' = now
      BY <2>1, Zenon DEF Arrived, now
  <2>4. PresentInv'
    <3>1. \A u \in Threads : pc'[u] # "idle" => local_gen'[u] <= generation'
        BY <1>1, <1>2, <1>3, <1>4, <2>1 DEF CrowdTypes, PresentInv, NotYet
    <3>2. \A u \in Threads : pc'[u] \in Leaving => local_gen'[u] \in 0 .. generation' - 1
        BY <1>1, <1>2, <1>3, <1>4, <2>1, Zenon DEF CrowdTypes, PresentInv, Leaving
    <3>3. \A u \in now : ~leads'[u]
        BY <1>1, <1>3, <1>6, <2>1, Zenon DEF CrowdTypes, PresentInv, Arrived
    <3> QED
        BY <1>2, <1>7, <1>9, <2>1, <2>3, <3>1, <3>2, <3>3, Zenon DEF PresentInv
  <2>5. ASSUME NEW g \in Generations PROVE TogetherAt(g)'
      BY <1>1, <1>2, <1>4, <1>5, <2>1, <2>5 DEF TogetherAt, Crowd
  <2> QED
      BY <2>2, <2>4, <2>5, Zenon DEF CrowdInv, Generations
<1>10. CASE ~(count + 1 < num_threads)
  <2>1. /\ count' = 0 /\ leads' = [leads EXCEPT ![t] = TRUE] /\ generation' = generation + 1
        /\ pc'[t] = "bump"
      BY <1>10, Zenon DEF Arrive
  <2>2. CrowdTypes'
      BY <1>1, <1>2, <1>4, <2>1 DEF CrowdTypes, Generations
  <2>3. Arrived(generation)' = {}
      BY <1>1, <1>2, <1>3, <1>4, <2>1 DEF CrowdTypes, PresentInv, Arrived, NotYet
  <2>4. PresentInv'
    <3>1. count' = Cardinality(Arrived(generation)')
        BY <2>1, <2>3, Zenon DEF Counting
    <3>2. \A u \in Threads : pc'[u] # "idle" => local_gen'[u] <= generation'
        BY <1>1, <1>2, <1>3, <1>4, <2>1 DEF CrowdTypes, PresentInv, NotYet
    <3>3. \A u \in Threads : pc'[u] \in Leaving => local_gen'[u] \in 0 .. generation' - 1
        BY <1>1, <1>2, <1>3, <1>4, <2>1 DEF CrowdTypes, PresentInv
    <3> QED
        BY <2>1, <2>3, <3>1, <3>2, <3>3, Zenon DEF PresentInv
  <2>5. ASSUME NEW g \in Generations PROVE TogetherAt(g)'
    <3>1. CASE g = generation
      <4>1. gone[g].leaders = 0 /\ gone[g].others = 0
          BY <1>1, <1>4, <3>1 DEF TogetherAt
      <4>2. Arrived(g)' = now /\ Leaders(g)' = lead /\ leads'[t] = TRUE
          BY <1>1, <2>1, <3>1, Zenon DEF Arrived, Leaders, CrowdTypes, now, lead
      <4>3. Cardinality(Leaders(g)') = 1
          BY <1>8, <4>2, Zenon DEF Counting
      <4>4. count + 1 = IF num_threads = 0 THEN 1 ELSE num_threads
          BY <1>1, <1>10 DEF CrowdTypes, PresentInv
      <4>5. Crowd(g)' = count + 1
        <5>1. Crowd(g)' = gone[g].leaders + gone[g].others + Cardinality(now)
            BY <1>2, <4>2, Zenon DEF Crowd
        <5> QED
            BY <1>1, <1>7, <4>1, <5>1 DEF CrowdTypes
      <4> QED
          BY <1>1, <1>2, <1>4, <2>1, <3>1, <4>1, <4>3, <4>4, <4>5 DEF TogetherAt
    <3>2. CASE g # generation
        BY <1>1, <1>2, <1>4, <1>5, <2>1, <2>5, <3>2 DEF TogetherAt, Crowd
    <3> QED
        BY <3>1, <3>2, Zenon
  <2> QED
      BY <2>2, <2>4, <2>5, Zenon DEF CrowdInv, Generations
<1> QED
    BY <1>9, <1>10, Zenon

(* A call that returns is counted as gone from its generation.               *)
LEMMA CrowdLeaves ==
    ASSUME Counting, CrowdInv, NEW t \in Threads, Moves(t), pc[t] = "notify", pc'[t] = "idle",
           gone' = IF leads[t] THEN [gone EXCEPT ![local_gen[t]].leaders = @ + 1]
                   ELSE [gone EXCEPT ![local_gen[t]].others = @ + 1],
           UNCHANGED <<num_threads, count, generation, local_gen, leads>>
    PROVE  CrowdInv'
<1>1. /\ CrowdTypes /\ PresentInv /\ \A g \in Generations : TogetherAt(g)
    BY Zenon DEF CrowdInv
<1>2. \A u \in Threads \ {t} : pc'[u] = "idle" <=> pc[u] = "idle"
    BY Zenon DEF Moves
<1> DEFINE mine == local_gen[t]
           counted == [leaders |-> IF leads[t] THEN gone[mine].leaders + 1 ELSE gone[mine].leaders,
                       others |-> IF leads[t] THEN gone[mine].others ELSE gone[mine].others + 1]
<1>3. mine \in Nat /\ mine < generation /\ generation \in Nat
    BY <1>1 DEF CrowdTypes, PresentInv, Leaving
<1>4. ASSUME NEW g, g # mine
      PROVE  Arrived(g)' = Arrived(g) /\ Leaders(g)' = Leaders(g)
    BY <1>2, <1>4, Zenon DEF Arrived, Leaders
<1>9. ASSUME mine \in Generations
      PROVE  /\ gone[mine].leaders \in Nat /\ gone[mine].others \in Nat
             /\ counted \in [leaders : Nat, others : Nat] /\ gone'[mine] = counted
  <2>1. gone[mine] \in [leaders : Nat, others : Nat]
      BY <1>1, <1>9, Zenon DEF CrowdTypes
  <2>2. CASE leads[t]
      BY <1>1, <1>9, <2>1, <2>2 DEF CrowdTypes
  <2>3. CASE ~leads[t]
      BY <1>1, <1>9, <2>1, <2>3 DEF CrowdTypes
  <2> QED
      BY <2>2, <2>3, Zenon
<1>10. /\ DOMAIN gone' = Generations /\ gone' = [g \in Generations |-> gone'[g]]
       /\ \A g \in Generations : g # mine => gone'[g] = gone[g]
  <2>1. CASE leads[t]
      BY <1>1, <2>1, Zenon DEF CrowdTypes
  <2>2. CASE ~leads[t]
      BY <1>1, <2>2, Zenon DEF CrowdTypes
  <2> QED
      BY <2>1, <2>2, Zenon
<1>5. CrowdTypes'
  <2>1. ASSUME NEW g \in Generations PROVE gone'[g] \in [leaders : Nat, others : Nat]
    <3>1. CASE g = mine
        BY <1>9, <3>1, Zenon
    <3>2. CASE g # mine
      <4>1. gone'[g] = gone[g]
          BY <1>10, <2>1, <3>2, Zenon
      <4> QED
          BY <1>1, <2>1, <4>1, Zenon DEF CrowdTypes
    <3> QED
        BY <3>1, <3>2, Zenon
  <2>2. gone' \in [Generations -> [leaders : Nat, others : Nat]]
      BY <1>10, <2>1, Zenon
  <2> QED
      BY <1>1, <2>2, Zenon DEF CrowdTypes, Generations
<1>6. PresentInv'
  <2>1. Arrived(generation)' = Arrived(generation)
      BY <1>2, <1>3 DEF Arrived
  <2>2. \A u \in Threads : pc'[u] \in Leaving => pc[u] \in Leaving
      BY Zenon DEF Moves, Leaving
  <2> QED
      BY <1>1, <1>2, <2>1, <2>2, Zenon DEF PresentInv
<1>7. ASSUME NEW g \in Generations, g # mine PROVE TogetherAt(g)'
  <2>1. gone'[g] = gone[g]
      BY <1>7, <1>10, Zenon
  <2> QED
      BY <1>1, <1>4, <1>7, <2>1 DEF TogetherAt, Crowd
<1>8. ASSUME mine \in Generations PROVE TogetherAt(mine)'
  <2>1. /\ Arrived(mine) \in SUBSET Threads /\ t \in Arrived(mine)
        /\ Arrived(mine)' = Arrived(mine) \ {t}
      BY <1>2, Zenon DEF Arrived
  <2>2. Cardinality(Arrived(mine)') = Cardinality(Arrived(mine)) - 1
      BY <2>1, CountLeaves, Zenon
  <2>3. /\ Leaders(mine) \in SUBSET Threads
        /\ Leaders(mine)' = Leaders(mine) \ {t} /\ (t \in Leaders(mine) <=> leads[t])
      BY <2>1, Zenon DEF Leaders
  <2>4. Cardinality(Leaders(mine)') = IF leads[t] THEN Cardinality(Leaders(mine)) - 1 ELSE Cardinality(Leaders(mine))
    <3>1. CASE leads[t]
        BY <2>3, <3>1, CountLeaves, Zenon
    <3>2. CASE ~leads[t]
      <4>1. Leaders(mine)' = Leaders(mine)
          BY <2>3, <3>2, Zenon
      <4> QED
          BY <3>2, <4>1, Zenon
    <3> QED
        BY <3>1, <3>2, Zenon
  <2>5. Cardinality(Arrived(mine)) \in Nat /\ Cardinality(Leaders(mine)) \in Nat
      BY <2>1, <2>3, CountOf, Zenon
  <2>6. /\ gone[mine].leaders \in Nat /\ gone[mine].others \in Nat
        /\ gone'[mine].leaders = IF leads[t] THEN gone[mine].leaders + 1 ELSE gone[mine].leaders
        /\ gone'[mine].others = IF leads[t] THEN gone[mine].others ELSE gone[mine].others + 1
      BY <1>8, <1>9
  <2>7. /\ gone[mine].leaders + gone[mine].others + Cardinality(Arrived(mine)) = IF num_threads = 0 THEN 1 ELSE num_threads
        /\ gone[mine].leaders + Cardinality(Leaders(mine)) = 1
    <3>1. TogetherAt(mine)
        BY <1>1, <1>8, Zenon
    <3> QED
        BY <1>3, <3>1, Zenon DEF TogetherAt, Crowd
  <2>8. /\ gone'[mine].leaders + gone'[mine].others + Cardinality(Arrived(mine)') = IF num_threads = 0 THEN 1 ELSE num_threads
        /\ gone'[mine].leaders + Cardinality(Leaders(mine)') = 1
      BY <2>2, <2>4, <2>5, <2>6, <2>7
  <2>9. mine' = mine
      BY Zenon
  <2> HIDE DEF mine
  <2> QED
      BY <1>3, <2>8, <2>9, Zenon DEF TogetherAt, Crowd
<1> QED
    BY <1>5, <1>6, <1>7, <1>8, Zenon DEF CrowdInv, Generations

(* Every step of the barrier keeps its invariant.                            *)
LEMMA BarrierKept ==
    Counting /\ lock = "Barrier" /\ UNCHANGED lock /\ BarrierInv /\ BarrierNext => BarrierInv'
<1> SUFFICES ASSUME Counting, lock = "Barrier", lock' = lock, BarrierInv, NEW t \in Threads,
                    BarrierStep(t) \/ Spurious(t) \/ Wait(t)
             PROVE BarrierInv'
    BY Zenon DEF BarrierNext
<1>1. MutexTypes /\ MutexInv /\ CrowdInv
    BY Zenon DEF BarrierInv
<1>2. pc \in [Threads -> BarrierPCs] /\ MutexPCs \subseteq BarrierPCs
    BY <1>1, Zenon DEF MutexTypes, BarrierPCs
<1> SUFFICES MutexTypes' /\ Moves(t) /\ Passes(t) /\ CrowdInv'
  <2>1. MutexInv'
      BY <1>1, MutexKept, Zenon
  <2> QED
      BY <2>1, Zenon DEF BarrierInv
<1> USE DEF Move
<1>3. CASE MutexStep(t) /\ UNCHANGED barrierVars
  <2>2. /\ pc' \in [Threads -> BarrierPCs]
        /\ locked' \in {0, 1} /\ cnt' \in Nat /\ ticket' \in [Threads -> Nat]
        /\ Moves(t) /\ Passes(t)
        /\ \/ pc[t] \in Entering /\ pc'[t] \in Entering
           \/ pc[t] \in Waiting /\ pc'[t] \in Waiting \cup {"try"}
           \/ pc[t] = "bump" /\ pc'[t] = "wakeall"
      BY <1>1, <1>2, <1>3, MutexMoves, Zenon DEF MutexTypes
  <2>3. pc[t] # "idle" /\ pc'[t] # "idle" /\ (pc'[t] \in Leaving => pc[t] \in Leaving)
      BY <2>2, Zenon DEF Entering, Waiting, Leaving
  <2>4. UNCHANGED <<num_threads, count, generation, local_gen, leads, gone>>
      BY <1>3, Zenon DEF barrierVars
  <2>5. pc'[t] \in Leaving => local_gen[t] \in 0 .. generation - 1
      BY <1>1, <2>3, Zenon DEF CrowdInv, PresentInv
  <2>6. CrowdInv'
      BY <1>1, <2>2, <2>3, <2>4, <2>5, CrowdKept, Zenon
  <2> QED
      BY <2>2, <2>6, Zenon DEF MutexTypes
<1>4. CASE Arrive(t)
  <2>1. CrowdInv'
      BY <1>1, <1>2, <1>4, CrowdArrives, Zenon
  <2>2. UNCHANGED <<locked, cnt, ticket>> /\ pc[t] = "locked"
        /\ (pc' = [pc EXCEPT ![t] = "ticket"] \/ pc' = [pc EXCEPT ![t] = "bump"])
      BY <1>4, Zenon DEF Arrive
  <2>3. MutexTypes'
      BY <1>1, <2>2, Zenon DEF MutexTypes, BarrierPCs, MutexPCs
  <2> QED
      BY <1>2, <2>1, <2>2, <2>3, Zenon DEF Moves, Passes, InMutex, Inside
<1>5. CASE Recheck(t)
  <2>1. /\ pc[t] = "locked" /\ local_gen[t] # NotYet
        /\ UNCHANGED <<locked, cnt, ticket>> /\ UNCHANGED <<num_threads, count, generation, local_gen, leads, gone>>
        /\ \/ MustWait(t) /\ pc' = [pc EXCEPT ![t] = "ticket"]
           \/ ~MustWait(t) /\ pc' = [pc EXCEPT ![t] = "unlock"]
      BY <1>5, Zenon DEF Recheck, barrierVars
  <2>2. MutexTypes'
      BY <1>1, <2>1, Zenon DEF MutexTypes, BarrierPCs, MutexPCs
  <2>3. ~MustWait(t) => local_gen[t] \in 0 .. generation - 1
    <3>1. t \in Arrived(generation) => count # 0
      <4>1. Arrived(generation) \in SUBSET Threads
          BY Zenon DEF Arrived
      <4> QED
          BY <1>1, <4>1, CountOf, Zenon DEF CrowdInv, PresentInv
    <3> QED
        BY <1>1, <2>1, <3>1 DEF CrowdInv, CrowdTypes, PresentInv, MustWait, Arrived, NotYet
  <2>4. Moves(t) /\ Passes(t) /\ pc[t] # "idle" /\ pc'[t] # "idle"
        /\ (pc'[t] \in Leaving => local_gen[t] \in 0 .. generation - 1)
      BY <1>2, <2>1, <2>3, Zenon DEF Moves, Passes, InMutex, Inside, Leaving
  <2>5. CrowdInv'
      BY <1>1, <2>1, <2>4, CrowdKept, Zenon
  <2> QED
      BY <2>2, <2>4, <2>5, Zenon
<1>6. CASE LeaderNotifies(t)
  <2>1. /\ pc[t] = "wakeall" /\ Wake(t, Asleep("casleep"), "unlock") /\ UNCHANGED <<locked, cnt, ticket>>
        /\ UNCHANGED <<num_threads, count, generation, local_gen, leads, gone>>
      BY <1>6, Zenon DEF LeaderNotifies, WakeAll, barrierVars
  <2>2. pc' \in [Threads -> BarrierPCs] /\ pc'[t] = "unlock" /\ Moves(t)
      BY <1>2, <2>1, Zenon DEF Wake, Asleep, Moves, BarrierPCs, MutexPCs
  <2>3. MutexTypes' /\ Passes(t)
      BY <1>1, <2>1, <2>2, Zenon DEF MutexTypes, Passes, InMutex, Inside
  <2>4. local_gen[t] \in 0 .. generation - 1
      BY <1>1, <2>1, Zenon DEF CrowdInv, PresentInv, Leaving
  <2>5. CrowdInv'
      BY <1>1, <2>1, <2>2, <2>4, CrowdKept, Zenon
  <2> QED
      BY <2>2, <2>3, <2>5, Zenon
<1>7. CASE Leave(t)
  <2>1. /\ pc[t] = "unlock" /\ pc' = [pc EXCEPT ![t] = "notify"] /\ locked' = 0 /\ UNCHANGED <<cnt, ticket>>
        /\ UNCHANGED <<num_threads, count, generation, local_gen, leads, gone>>
      BY <1>7, Zenon DEF Leave, Unlock, barrierVars
  <2>2. MutexTypes' /\ Moves(t) /\ Passes(t) /\ pc'[t] = "notify"
      BY <1>1, <1>2, <2>1, Zenon DEF MutexTypes, Moves, Passes, InMutex, Inside, BarrierPCs, MutexPCs
  <2>3. local_gen[t] \in 0 .. generation - 1
      BY <1>1, <2>1, Zenon DEF CrowdInv, PresentInv, Leaving
  <2>4. CrowdInv'
      BY <1>1, <2>1, <2>2, <2>3, CrowdKept, Zenon
  <2> QED
      BY <2>2, <2>4, Zenon
<1>8. CASE Left(t)
  <2>1. pc[t] = "notify" /\ WakeOne(t, "asleep", "idle") /\ UNCHANGED <<locked, cnt, ticket>>
      BY <1>8, Zenon DEF Left, Notify
  <2>2. /\ gone' = IF leads[t] THEN [gone EXCEPT ![local_gen[t]].leaders = @ + 1]
                   ELSE [gone EXCEPT ![local_gen[t]].others = @ + 1]
        /\ UNCHANGED <<num_threads, count, generation, local_gen, leads>>
      BY <1>8, Zenon DEF Left
  <2>3. pc' \in [Threads -> BarrierPCs] /\ pc'[t] = "idle" /\ Moves(t)
      BY <1>2, <2>1, Zenon DEF WakeOne, Wake, Asleep, Moves, BarrierPCs, MutexPCs
  <2>4. MutexTypes' /\ Passes(t)
      BY <1>1, <2>1, <2>3, Zenon DEF MutexTypes, Passes, InMutex, Inside
  <2>5. CrowdInv'
      BY <1>1, <2>1, <2>2, <2>3, CrowdLeaves, Zenon
  <2> QED
      BY <2>3, <2>4, <2>5, Zenon
<1>9. CASE Spurious(t)
  <2>1. /\ pc[t] = "casleep" /\ pc' = [pc EXCEPT ![t] = "try"] /\ UNCHANGED <<locked, cnt, ticket>>
        /\ UNCHANGED <<num_threads, count, generation, local_gen, leads, gone>>
      BY <1>9, Zenon DEF Spurious
  <2>2. MutexTypes' /\ Moves(t) /\ Passes(t) /\ pc'[t] = "try"
      BY <1>1, <1>2, <2>1, Zenon DEF MutexTypes, Moves, Passes, InMutex, Inside, BarrierPCs, MutexPCs
  <2>3. CrowdInv'
      BY <1>1, <2>1, <2>2, CrowdKept, Zenon DEF Leaving
  <2> QED
      BY <2>2, <2>3, Zenon
<1>10. CASE Wait(t)
  <2>1. /\ pc[t] = "idle" /\ pc' = [pc EXCEPT ![t] = "try"] /\ UNCHANGED <<locked, cnt, ticket>>
        /\ local_gen' = [local_gen EXCEPT ![t] = NotYet]
        /\ UNCHANGED <<num_threads, count, generation, leads, gone>>
      BY <1>10, Zenon DEF Wait
  <2>2. MutexTypes' /\ Moves(t) /\ Passes(t) /\ pc'[t] = "try" /\ \A u \in Threads \ {t} : pc'[u] = pc[u]
      BY <1>1, <1>2, <2>1, Zenon DEF MutexTypes, Moves, Passes, InMutex, Inside, BarrierPCs, MutexPCs
  <2>3. CrowdInv'
      BY <1>1, <2>1, <2>2, CrowdCalls, Zenon
  <2> QED
      BY <2>2, <2>3, Zenon
<1> QED
    BY <1>3, <1>4, <1>5, <1>6, <1>7, <1>8, <1>9, <1>10, Zenon DEF BarrierStep

-----------------------------------------------------------------------------
(* The number of readers when a thread becomes one, ceases to be one, or     *)
(* neither.                                                                  *)
LEMMA ReadersCount ==
    ASSUME Counting, NEW t \in Threads, NEW m \in {"none", "read", "write"},
           NEW old \in [Threads -> {"none", "read", "write"}]
    PROVE  LET new == [old EXCEPT ![t] = m] IN
           /\ Cardinality(Readers(old)) \in Nat
           /\ Cardinality(Readers(old)) = 0 <=> \A x \in Threads : old[x] # "read"
           /\ old[t] # "read" /\ m = "read" => Cardinality(Readers(new)) = Cardinality(Readers(old)) + 1
           /\ old[t] = "read" /\ m # "read" => Cardinality(Readers(new)) = Cardinality(Readers(old)) - 1
           /\ old[t] # "read" /\ m # "read" => Cardinality(Readers(new)) = Cardinality(Readers(old))
<1> DEFINE new == [old EXCEPT ![t] = m]
<1>1. Readers(old) \in SUBSET Threads /\ Cardinality(Readers(old)) \in Nat
    BY CountOf, Zenon DEF Readers
<1>2. Cardinality(Readers(old)) = 0 <=> \A x \in Threads : old[x] # "read"
    BY <1>1, CountOf, Zenon DEF Readers
<1>3. old[t] # "read" /\ m = "read" => Cardinality(Readers(new)) = Cardinality(Readers(old)) + 1
  <2>1. old[t] # "read" /\ m = "read" => t \notin Readers(old) /\ Readers(new) = Readers(old) \cup {t}
      BY Zenon DEF Readers
  <2> QED
      BY <1>1, <2>1, CountJoins, Zenon
<1>4. old[t] = "read" /\ m # "read" => Cardinality(Readers(new)) = Cardinality(Readers(old)) - 1
  <2>1. old[t] = "read" /\ m # "read" => t \in Readers(old) /\ Readers(new) = Readers(old) \ {t}
      BY Zenon DEF Readers
  <2> QED
      BY <1>1, <2>1, CountLeaves, Zenon
<1>5. old[t] # "read" /\ m # "read" => Readers(new) = Readers(old)
    BY Zenon DEF Readers
<1> QED
    BY <1>1, <1>2, <1>3, <1>4, <1>5, Zenon

(* Nobody has the RWLock beside a writer, and its state says what any        *)
(* holder has.                                                               *)
LEMMA Exclusion ==
    ASSUME Counting, RwTypeOK, StateInv
    PROVE  /\ \A t, u \in Threads : hold[t] = "write" /\ hold[u] # "none" => t = u
           /\ \A t \in Threads : hold[t] = "read" => state = "Reading" /\ readers > 0
           /\ \A t \in Threads : hold[t] = "write" => state = "Writing"
<1>1. ASSUME NEW t \in Threads, hold[t] = "read" PROVE state = "Reading" /\ readers > 0
  <2>1. Cardinality(Readers(hold)) \in Nat /\ Cardinality(Readers(hold)) # 0
      BY <1>1, ReadersCount, Zenon DEF RwTypeOK
  <2> QED
      BY <2>1 DEF StateInv
<1> QED
    BY <1>1, Zenon DEF StateInv, RwTypeOK

(* A thread in a call that touches neither the poison flag nor what others   *)
(* have keeps what is said of the data, the guards and the others' places.   *)
LEMMA InCall ==
    ASSUME TornInv, \A u \in Threads : RwPlace(u) /\ GuardInv(u),
           NEW t \in Threads, Moves(t), pc[t] # "idle",
           UNCHANGED <<failed, sawPoison, panicking, guardPanicking, struck, torn>>,
           \A u \in Threads \ {t} : op'[u] = op[u] /\ hold'[u] = hold[u] /\ notify'[u] = notify[u],
           pc'[t] = "idle" => hold'[t] = "none", RwPlace(t)'
    PROVE  TornInv' /\ \A u \in Threads : RwPlace(u)' /\ GuardInv(u)'
<1>1. ASSUME NEW u \in Threads \ {t} PROVE RwPlace(u)' /\ (pc'[u] = "idle" <=> pc[u] = "idle")
  <2>1. CASE pc'[u] = pc[u]
      BY <1>1, <2>1, Zenon DEF RwPlace
  <2>2. CASE pc[u] \in {"asleep", "casleep"} /\ pc'[u] = "try"
    <3>1. pc[u] \in Entering \/ pc[u] \in Waiting
        BY <2>2, Zenon DEF Entering, Waiting
    <3>2. /\ op[u] # "none" /\ ~notify[u]
          /\ op[u] \in Acquire => hold[u] = "none"
          /\ op[u] = "read_unlock" => hold[u] = "read"
          /\ op[u] = "write_unlock" => hold[u] = "write"
        BY <1>1, <3>1, Zenon DEF RwPlace, Acquire
    <3> QED
        BY <1>1, <2>2, <3>2, Zenon DEF RwPlace, Waiting
  <2> QED
      BY <2>1, <2>2, Zenon DEF Moves
<1>2. \A u \in Threads \ {t} : GuardInv(u)'
    BY <1>1, Zenon DEF GuardInv
<1>3. GuardInv(t)'
    BY Zenon DEF GuardInv
<1>4. TornInv'
    BY <1>1, Zenon DEF TornInv
<1> QED
    BY <1>1, <1>2, <1>3, <1>4, Zenon

(* The steps of the mutex and the condvar keep the RwLock's invariant.       *)
LEMMA RwMutexStep ==
    ASSUME lock = "RwLock", lock' = lock, RwInv, NEW t \in Threads, MutexStep(t),
           UNCHANGED <<rawVars, poisonVars, calls, panics>>
    PROVE  RwInv'
<1>1. /\ RwTypeOK /\ MutexInv /\ StateInv /\ TornInv
      /\ \A u \in Threads : RwPlace(u) /\ GuardInv(u)
    BY Zenon DEF RwInv
<1>2. UNCHANGED <<state, readers, op, hold, notify, failed, sawPoison, panicking, guardPanicking, struck, torn, calls, panics>>
    BY Zenon DEF rawVars, poisonVars
<1>3. /\ pc' \in [Threads -> RwPCs]
      /\ locked' \in {0, 1} /\ cnt' \in Nat /\ ticket' \in [Threads -> Nat]
      /\ Moves(t) /\ Passes(t)
      /\ \/ pc[t] \in Entering /\ pc'[t] \in Entering
         \/ pc[t] \in Waiting /\ pc'[t] \in Waiting \cup {"try"}
         \/ pc[t] = "bump" /\ pc'[t] = "wakeall"
  <2>1. pc \in [Threads -> RwPCs] /\ locked \in {0, 1} /\ cnt \in Nat /\ ticket \in [Threads -> Nat]
      BY <1>1, Zenon DEF RwTypeOK, RwPCs
  <2>2. MutexPCs \subseteq RwPCs
      BY Zenon DEF RwPCs
  <2> QED
      BY <2>1, <2>2, MutexMoves, Zenon
<1>4. RwTypeOK'
    BY <1>1, <1>2, <1>3, Zenon DEF RwTypeOK, RwPCs
<1>5. MutexInv'
    BY <1>1, <1>3, MutexKept, Zenon
<1>6. StateInv'
    BY <1>1, <1>2, Zenon DEF StateInv, Readers
<1>7. RwPlace(t)' /\ pc[t] # "idle" /\ pc'[t] # "idle"
  <2>1. CASE pc[t] \in Entering /\ pc'[t] \in Entering
      BY <1>1, <1>2, <2>1, Zenon DEF RwPlace, Entering, Waiting
  <2>2. CASE pc[t] \in Waiting /\ pc'[t] \in Waiting \cup {"try"}
      BY <1>1, <1>2, <2>2, Zenon DEF RwPlace, Entering, Waiting, Acquire
  <2>3. CASE pc[t] = "bump" /\ pc'[t] = "wakeall"
      BY <1>1, <1>2, <2>3, Zenon DEF RwPlace, Entering, Waiting
  <2> QED
      BY <1>3, <2>1, <2>2, <2>3, Zenon
<1>8. TornInv' /\ \A u \in Threads : RwPlace(u)' /\ GuardInv(u)'
    BY <1>1, <1>2, <1>3, <1>7, InCall, Zenon
<1> QED
    BY <1>4, <1>5, <1>6, <1>8, Zenon DEF RwInv

(* The steps of a call once it has the mutex keep it.                        *)
LEMMA RwCallStep ==
    ASSUME Counting, lock = "RwLock", lock' = lock, RwInv, NEW t \in Threads,
           \/ Take(t) \/ DecReaders(t) \/ DecWriters(t)
           \/ Release(t) \/ Released(t) \/ NotifyAll(t)
    PROVE  RwInv'
<1>1. /\ RwTypeOK /\ MutexInv /\ StateInv /\ TornInv
      /\ \A u \in Threads : RwPlace(u) /\ GuardInv(u)
    BY Zenon DEF RwInv
<1>2. /\ pc \in [Threads -> RwPCs] /\ op \in [Threads -> RwOps]
      /\ hold \in [Threads -> {"none", "read", "write"}] /\ notify \in [Threads -> BOOLEAN]
    BY <1>1, Zenon DEF RwTypeOK, RwPCs, RwOps
<1> SUFFICES /\ RwTypeOK' /\ StateInv' /\ Moves(t) /\ Passes(t) /\ pc[t] # "idle"
             /\ UNCHANGED <<failed, sawPoison, panicking, guardPanicking, struck, torn>>
             /\ \A u \in Threads \ {t} : op'[u] = op[u] /\ hold'[u] = hold[u] /\ notify'[u] = notify[u]
             /\ (pc'[t] = "idle" => hold'[t] = "none") /\ RwPlace(t)'
  <2>1. MutexInv'
      BY <1>1, MutexKept, Zenon
  <2>2. TornInv' /\ \A u \in Threads : RwPlace(u)' /\ GuardInv(u)'
      BY <1>1, InCall, Zenon
  <2> QED
      BY <2>1, <2>2, Zenon DEF RwInv
<1> USE DEF poisonVars, Move
<1>3. CASE Take(t)
  <2>1. pc[t] = "locked" /\ op[t] \in Acquire /\ hold[t] = "none" /\ ~notify[t]
      BY <1>1, <1>3, Zenon DEF Take, RwPlace, Entering
  <2>2. UNCHANGED <<locked, cnt, ticket, op, notify, failed, sawPoison, panicking, guardPanicking, struck, torn, calls, panics>>
      BY <1>3, Zenon DEF Take
  <2>3. CASE Free(op[t]) /\ Mode(op[t]) = "read"
    <3>1. /\ state # "Writing" /\ state' = "Reading" /\ readers' = readers + 1
          /\ hold' = [hold EXCEPT ![t] = "read"] /\ pc' = [pc EXCEPT ![t] = "unlock"]
        BY <1>3, <2>3, Zenon DEF Take, Free
    <3>2. RwTypeOK'
        BY <1>1, <2>2, <3>1 DEF RwTypeOK, MutexPCs
    <3>3. StateInv'
      <4>1. Cardinality(Readers(hold')) = Cardinality(Readers(hold)) + 1
          BY <1>2, <2>1, <3>1, ReadersCount, Zenon
      <4>2. readers' = Cardinality(Readers(hold))'
          BY <1>1, <3>1, <4>1, Zenon DEF StateInv, Readers
      <4> QED
          BY <1>1, <1>2, <2>1, <3>1, <4>2 DEF RwTypeOK, StateInv
    <3>4. RwPlace(t)'
        BY <1>2, <2>1, <2>2, <3>1, Zenon DEF RwPlace, Entering, Waiting, Acquire
    <3> QED
        BY <1>2, <2>1, <2>2, <3>1, <3>2, <3>3, <3>4, Zenon DEF Moves, Passes, InMutex, Inside
  <2>4. CASE Free(op[t]) /\ Mode(op[t]) # "read"
    <3>1. /\ state = "Unlocked" /\ state' = "Writing" /\ readers' = readers
          /\ hold' = [hold EXCEPT ![t] = "write"] /\ pc' = [pc EXCEPT ![t] = "unlock"]
        BY <1>3, <2>4, Zenon DEF Take, Free, Mode
    <3>2. RwTypeOK'
        BY <1>1, <2>2, <3>1, Zenon DEF RwTypeOK, MutexPCs
    <3>3. StateInv'
      <4>1. Cardinality(Readers(hold')) = Cardinality(Readers(hold))
          BY <1>2, <2>1, <3>1, ReadersCount, Zenon
      <4>2. readers' = Cardinality(Readers(hold))'
          BY <1>1, <3>1, <4>1, Zenon DEF StateInv, Readers
      <4> QED
          BY <1>1, <1>2, <2>1, <3>1, <4>2, Zenon DEF RwTypeOK, StateInv
    <3>4. RwPlace(t)'
        BY <1>2, <2>1, <2>2, <3>1, Zenon DEF RwPlace, Entering, Waiting, Acquire
    <3> QED
        BY <1>2, <2>1, <2>2, <3>1, <3>2, <3>3, <3>4, Zenon DEF Moves, Passes, InMutex, Inside
  <2>5. CASE ~Free(op[t])
    <3>1. /\ UNCHANGED <<state, readers, hold>>
          /\ pc' = [pc EXCEPT ![t] = "ticket"] \/ pc' = [pc EXCEPT ![t] = "unlock"]
        BY <1>3, <2>5, Zenon DEF Take
    <3>2. RwTypeOK'
        BY <1>1, <2>2, <3>1, Zenon DEF RwTypeOK, MutexPCs
    <3>3. StateInv'
        BY <1>1, <3>1, Zenon DEF StateInv, Readers
    <3> QED
        BY <1>2, <2>1, <2>2, <3>1, <3>2, <3>3, Zenon DEF Moves, Passes, InMutex, Inside, RwPlace, Entering, Waiting, Acquire
  <2> QED
      BY <2>3, <2>4, <2>5, Zenon
<1>4. CASE DecReaders(t)
  <2> DEFINE last == LastReader
  <2>1. pc[t] = "locked" /\ op[t] = "read_unlock" /\ hold[t] = "read" /\ ~notify[t]
      BY <1>1, <1>4, Zenon DEF DecReaders, RwPlace, Entering
  <2>2. state = "Reading" /\ readers > 0 /\ \A u \in Threads : hold[u] # "write"
      BY <1>1, <2>1, Exclusion, Zenon
  <2>3. /\ readers' = readers - 1 /\ state' = (IF last THEN "Unlocked" ELSE state)
        /\ notify' = [notify EXCEPT ![t] = last]
        /\ hold' = [hold EXCEPT ![t] = "none"] /\ pc' = [pc EXCEPT ![t] = "unlock"]
        /\ UNCHANGED <<locked, cnt, ticket, op, failed, sawPoison, panicking, guardPanicking, struck, torn, calls, panics>>
      BY <1>4, <2>2, Zenon DEF DecReaders
  <2>4. last \in BOOLEAN /\ (last <=> readers = 1)
      BY Zenon DEF LastReader
  <2> HIDE DEF last
  <2>5. RwTypeOK'
      BY <1>1, <2>2, <2>3, <2>4 DEF RwTypeOK, MutexPCs
  <2>6. StateInv'
    <3>1. Cardinality(Readers(hold')) = Cardinality(Readers(hold)) - 1
        BY <1>2, <2>1, <2>3, ReadersCount, Zenon
    <3>2. readers' = Cardinality(Readers(hold))'
        BY <1>1, <2>3, <3>1, Zenon DEF StateInv, Readers
    <3> QED
        BY <1>1, <1>2, <2>1, <2>2, <2>3, <2>4, <3>2 DEF RwTypeOK, StateInv
  <2> QED
      BY <1>2, <2>1, <2>3, <2>5, <2>6, Zenon DEF Moves, Passes, InMutex, Inside, RwPlace, Entering, Waiting, Acquire
<1>5. CASE DecWriters(t)
  <2>1. pc[t] = "locked" /\ op[t] = "write_unlock" /\ hold[t] = "write"
      BY <1>1, <1>5, Zenon DEF DecWriters, RwPlace, Entering
  <2>2. state = "Writing"
      BY <1>1, <2>1, Exclusion, Zenon
  <2>3. /\ state' = "Unlocked" /\ notify' = [notify EXCEPT ![t] = TRUE]
        /\ hold' = [hold EXCEPT ![t] = "none"] /\ pc' = [pc EXCEPT ![t] = "unlock"]
        /\ UNCHANGED <<locked, cnt, ticket, readers, op, failed, sawPoison, panicking, guardPanicking, struck, torn, calls, panics>>
      BY <1>5, <2>2, Zenon DEF DecWriters
  <2>4. RwTypeOK'
      BY <1>1, <2>3, Zenon DEF RwTypeOK, MutexPCs
  <2>5. StateInv'
    <3>1. Cardinality(Readers(hold')) = Cardinality(Readers(hold))
        BY <1>2, <2>1, <2>3, ReadersCount, Zenon
    <3>2. readers' = Cardinality(Readers(hold))'
        BY <1>1, <2>3, <3>1, Zenon DEF StateInv, Readers
    <3> QED
        BY <1>1, <1>2, <2>1, <2>2, <2>3, <3>2, Zenon DEF StateInv
  <2> QED
      BY <1>2, <2>1, <2>3, <2>4, <2>5, Zenon DEF Moves, Passes, InMutex, Inside, RwPlace, Entering, Waiting, Acquire
<1>6. CASE Release(t)
  <2>1. pc[t] = "unlock" /\ locked' = 0 /\ pc' = [pc EXCEPT ![t] = "notify"]
      BY <1>6, Zenon DEF Release, Unlock
  <2>2. UNCHANGED <<cnt, ticket, state, readers, op, hold, notify, failed, sawPoison, panicking, guardPanicking, struck, torn, calls, panics>>
      BY <1>6, Zenon DEF Release, Unlock, rawVars
  <2>3. RwTypeOK'
      BY <1>1, <2>1, <2>2, Zenon DEF RwTypeOK, MutexPCs
  <2>4. StateInv'
      BY <1>1, <2>2, Zenon DEF StateInv, Readers
  <2>5. RwPlace(t)'
      BY <1>1, <1>2, <2>1, <2>2, Zenon DEF RwPlace, Entering, Waiting
  <2> QED
      BY <1>2, <2>1, <2>2, <2>3, <2>4, <2>5, Zenon DEF Moves, Passes, InMutex, Inside
<1>7. CASE Released(t)
  <2> DEFINE at == AfterUnlock(t)
  <2>1. pc[t] = "notify" /\ WakeOne(t, "asleep", at)
      BY <1>7, Zenon DEF Released, Notify
  <2>2. /\ op' = [op EXCEPT ![t] = IF at = "idle" THEN "none" ELSE @]
        /\ UNCHANGED <<locked, cnt, ticket, state, readers, hold, notify, failed, sawPoison, panicking, guardPanicking, struck, torn, calls, panics>>
      BY <1>7, Zenon DEF Released, Notify
  <2>3. \/ at = "bump" /\ notify[t] = TRUE /\ hold[t] = "none"
        \/ at = "borrow" /\ notify[t] = FALSE /\ hold[t] # "none"
        \/ at = "idle" /\ notify[t] = FALSE /\ hold[t] = "none"
      BY <1>1, <1>2, <2>1, Zenon DEF AfterUnlock, RwPlace
  <2> HIDE DEF at
  <2>4. pc' \in [Threads -> RwPCs] /\ pc'[t] = at /\ Moves(t)
      BY <1>2, <2>1, <2>3 DEF WakeOne, Wake, Asleep, Moves, RwPCs, MutexPCs
  <2>5. RwTypeOK'
      BY <1>1, <2>2, <2>4, Zenon DEF RwTypeOK, RwPCs
  <2>6. StateInv'
      BY <1>1, <2>2, Zenon DEF StateInv, Readers
  <2>7. RwPlace(t)'
      BY <1>2, <2>2, <2>3, <2>4, Zenon DEF RwPlace, Entering, Waiting
  <2>8. Passes(t)
      BY <2>1, <2>2, <2>3, <2>4, Zenon DEF Passes, InMutex, Inside
  <2> QED
      BY <1>2, <2>1, <2>2, <2>3, <2>4, <2>5, <2>6, <2>7, <2>8, Zenon
<1>8. CASE NotifyAll(t)
  <2>1. /\ pc[t] = "wakeall" /\ Wake(t, Asleep("casleep"), "idle")
        /\ op' = [op EXCEPT ![t] = "none"] /\ notify' = [notify EXCEPT ![t] = FALSE]
        /\ UNCHANGED <<locked, cnt, ticket, state, readers, hold, failed, sawPoison, panicking, guardPanicking, struck, torn, calls, panics>>
      BY <1>8, Zenon DEF NotifyAll, WakeAll
  <2>2. pc' \in [Threads -> RwPCs] /\ pc'[t] = "idle" /\ Moves(t)
      BY <1>2, <2>1, Zenon DEF Wake, Asleep, Moves, RwPCs, MutexPCs
  <2>3. RwTypeOK'
      BY <1>1, <2>1, <2>2, Zenon DEF RwTypeOK, RwPCs
  <2>4. StateInv'
      BY <1>1, <2>1, Zenon DEF StateInv, Readers
  <2>5. hold'[t] = "none" /\ RwPlace(t)'
      BY <1>1, <1>2, <2>1, <2>2, Zenon DEF RwPlace, Entering, Waiting
  <2>6. Passes(t)
      BY <2>1, <2>2, Zenon DEF Passes, InMutex, Inside
  <2> QED
      BY <1>2, <2>1, <2>2, <2>3, <2>4, <2>5, <2>6, Zenon
<1> QED
    BY <1>3, <1>4, <1>5, <1>6, <1>7, <1>8, Zenon

(* Guards that are made, dropped or asked for, and panics that come and go,  *)
(* keep it.                                                                  *)
LEMMA RwGuardStep ==
    ASSUME Counting, lock = "RwLock", lock' = lock, RwInv, NEW t \in Threads,
           \/ Borrow(t) \/ DropGuard(t) \/ Panic(t) \/ Caught(t)
           \/ \E o \in Acquire : Call(t, o)
    PROVE  RwInv'
<1>1. /\ RwTypeOK /\ MutexInv /\ StateInv /\ TornInv
      /\ \A u \in Threads : RwPlace(u) /\ GuardInv(u)
    BY Zenon DEF RwInv
<1>2. /\ pc \in [Threads -> RwPCs] /\ op \in [Threads -> RwOps]
      /\ hold \in [Threads -> {"none", "read", "write"}] /\ notify \in [Threads -> BOOLEAN]
      /\ sawPoison \in [Threads -> BOOLEAN] /\ panicking \in [Threads -> BOOLEAN]
      /\ guardPanicking \in [Threads -> BOOLEAN] /\ struck \in [Threads -> {"no", "now"}]
    BY <1>1, Zenon DEF RwTypeOK, RwPCs, RwOps
<1>3. UNCHANGED <<locked, cnt, ticket, state, readers, hold, notify>>
    BY Zenon DEF Borrow, DropGuard, Panic, Caught, Call, mutexVars, rawVars
<1>4. StateInv'
    BY <1>1, <1>3, Zenon DEF StateInv, Readers
<1>5. /\ pc[t] \in {"idle", "borrow"} /\ pc'[t] \in {"idle", "try"}
      /\ \A u \in Threads \ {t} : pc'[u] = pc[u] /\ op'[u] = op[u]
    BY <1>2, Zenon DEF Borrow, DropGuard, Panic, Caught, Call, Move, mutexVars, rawVars
<1>6. MutexInv'
  <2>1. Moves(t) /\ Passes(t)
      BY <1>3, <1>5, Zenon DEF Moves, Passes, InMutex, Inside
  <2> QED
      BY <1>1, <2>1, MutexKept, Zenon
<1>7. \A u \in Threads \ {t} : RwPlace(u)'
    BY <1>1, <1>3, <1>5, Zenon DEF RwPlace
<1> SUFFICES RwTypeOK' /\ RwPlace(t)' /\ TornInv' /\ \A u \in Threads : GuardInv(u)'
    BY <1>4, <1>6, <1>7, Zenon DEF RwInv
<1> USE DEF Move
<1>8. CASE Borrow(t)
  <2>1. /\ pc[t] = "borrow" /\ pc' = [pc EXCEPT ![t] = "idle"] /\ op' = [op EXCEPT ![t] = "none"]
        /\ guardPanicking' = [guardPanicking EXCEPT ![t] = panicking[t]]
        /\ sawPoison' = [sawPoison EXCEPT ![t] = failed]
        /\ UNCHANGED <<failed, panicking, struck, torn, calls, panics>>
      BY <1>8, Zenon DEF Borrow
  <2>2. RwTypeOK'
      BY <1>1, <1>3, <2>1, Zenon DEF RwTypeOK, MutexPCs
  <2>3. RwPlace(t)' /\ hold'[t] # "none"
      BY <1>1, <1>2, <1>3, <2>1, Zenon DEF RwPlace, Entering, Waiting
  <2>4. TornInv'
      BY <1>1, <1>2, <1>3, <2>1, Zenon DEF TornInv
  <2>5. \A u \in Threads : GuardInv(u)'
      BY <1>1, <1>2, <1>3, <2>1, <2>3, Zenon DEF GuardInv
  <2> QED
      BY <2>2, <2>3, <2>4, <2>5, Zenon
<1>9. CASE DropGuard(t)
  <2> DEFINE poisons == hold[t] = "write" /\ Poisons(t)
  <2>1. /\ pc[t] = "idle" /\ hold[t] # "none" /\ pc' = [pc EXCEPT ![t] = "try"]
        /\ failed' = (failed \/ poisons)
        /\ op' = [op EXCEPT ![t] = IF hold[t] = "read" THEN "read_unlock" ELSE "write_unlock"]
        /\ sawPoison' = [sawPoison EXCEPT ![t] = FALSE]
        /\ guardPanicking' = [guardPanicking EXCEPT ![t] = FALSE]
        /\ torn' = (torn \/ Tears(t)) /\ struck' = [struck EXCEPT ![t] = "no"]
        /\ UNCHANGED <<panicking, calls, panics>>
      BY <1>9, Zenon DEF DropGuard
  <2>2. RwTypeOK'
    <3>1. torn' \in BOOLEAN
        BY <2>1 DEF Tears
    <3> QED
        BY <1>1, <1>3, <2>1, <3>1, Zenon DEF RwTypeOK, MutexPCs
  <2>3. RwPlace(t)'
      BY <1>1, <1>2, <1>3, <2>1, Zenon DEF RwPlace, Entering, Waiting, Acquire
  <2>4. TornInv'
    <3>1. poisons <=> Tears(t)
        BY <1>1, <2>1, Zenon DEF GuardInv, Poisons, Tears
    <3> QED
        BY <1>1, <2>1, <3>1, Zenon DEF TornInv
  <2>5. ASSUME NEW u \in Threads \ {t} PROVE GuardInv(u)'
    <3>1. hold[u] # "none" => (failed' <=> failed)
        BY <1>1, <2>1, <2>5, Exclusion, Zenon
    <3> QED
        BY <1>1, <1>2, <1>3, <2>1, <3>1, Zenon DEF GuardInv
  <2>6. GuardInv(t)'
      BY <1>2, <2>1, Zenon DEF GuardInv
  <2> QED
      BY <2>2, <2>3, <2>4, <2>5, <2>6, Zenon
<1>10. CASE Panic(t)
  <2>1. /\ pc[t] = "idle" /\ hold[t] # "none"
        /\ panicking' = [panicking EXCEPT ![t] = TRUE] /\ panics' = panics + 1
        /\ struck' = [struck EXCEPT ![t] = "now"]
        /\ UNCHANGED <<pc, op, failed, sawPoison, guardPanicking, torn, calls>>
      BY <1>10, Zenon DEF Panic, mutexVars, rawVars
  <2>2. RwTypeOK'
    <3>1. panicking' \in [Threads -> BOOLEAN] /\ panics' \in Nat
        BY <1>1, <2>1 DEF RwTypeOK
    <3> QED
        BY <1>1, <1>3, <2>1, <3>1, Zenon DEF RwTypeOK
  <2>3. RwPlace(t)'
      BY <1>1, <1>3, <2>1, Zenon DEF RwPlace
  <2>4. TornInv'
      BY <1>1, <2>1, Zenon DEF TornInv
  <2>5. \A u \in Threads : GuardInv(u)'
      BY <1>1, <1>2, <1>3, <2>1, Zenon DEF GuardInv
  <2> QED
      BY <2>2, <2>3, <2>4, <2>5, Zenon
<1>11. CASE Caught(t)
  <2>1. /\ pc[t] = "idle" /\ panicking' = [panicking EXCEPT ![t] = FALSE]
        /\ struck' = [struck EXCEPT ![t] = "no"]
        /\ UNCHANGED <<pc, op, failed, sawPoison, guardPanicking, torn, calls, panics>>
      BY <1>11, Zenon DEF Caught, mutexVars, rawVars
  <2>2. RwTypeOK'
    <3>1. panicking' \in [Threads -> BOOLEAN] /\ struck' \in [Threads -> {"no", "now"}]
        BY <1>1, <2>1, Zenon DEF RwTypeOK
    <3> QED
        BY <1>1, <1>3, <2>1, <3>1, Zenon DEF RwTypeOK
  <2>3. RwPlace(t)'
      BY <1>1, <1>3, <2>1, Zenon DEF RwPlace
  <2>4. TornInv'
      BY <1>1, <2>1, Zenon DEF TornInv
  <2>5. /\ panicking'[t] = FALSE /\ struck'[t] # "now" /\ (struck[t] = "no" => struck'[t] = "no")
        /\ \A u \in Threads \ {t} : panicking'[u] = panicking[u] /\ struck'[u] = struck[u]
      BY <1>2, <2>1, Zenon
  <2>6. \A u \in Threads : GuardInv(u)'
      BY <1>1, <1>2, <1>3, <2>1, <2>5, Zenon DEF GuardInv
  <2> QED
      BY <2>2, <2>3, <2>4, <2>6, Zenon
<1>12. ASSUME NEW o \in Acquire, Call(t, o)
       PROVE  RwTypeOK' /\ RwPlace(t)' /\ TornInv' /\ \A u \in Threads : GuardInv(u)'
  <2>1. /\ pc[t] = "idle" /\ hold[t] = "none" /\ pc' = [pc EXCEPT ![t] = "try"]
        /\ op' = [op EXCEPT ![t] = o] /\ calls' = calls + 1
        /\ UNCHANGED <<failed, sawPoison, panicking, guardPanicking, struck, torn, panics>>
      BY <1>12, Zenon DEF Call, poisonVars
  <2>2. RwTypeOK'
      BY <1>1, <1>3, <2>1 DEF RwTypeOK, MutexPCs
  <2>3. RwPlace(t)'
      BY <1>1, <1>2, <1>3, <2>1, Zenon DEF RwPlace, Entering, Waiting, Acquire
  <2>4. TornInv'
      BY <1>1, <1>2, <1>3, <2>1, Zenon DEF TornInv
  <2>5. \A u \in Threads : GuardInv(u)'
      BY <1>1, <1>2, <1>3, <2>1, Zenon DEF GuardInv
  <2> QED
      BY <2>2, <2>3, <2>4, <2>5, Zenon
<1> QED
    BY <1>8, <1>9, <1>10, <1>11, <1>12, Zenon

(* Every step of the RwLock keeps its invariant.                             *)
LEMMA RwKept == Counting /\ lock = "RwLock" /\ UNCHANGED lock /\ RwInv /\ RwNext => RwInv'
<1> SUFFICES ASSUME Counting, lock = "RwLock", lock' = lock, RwInv, NEW t \in Threads,
                    \/ RwStep(t) \/ DropGuard(t) \/ Panic(t) \/ Caught(t)
                    \/ \E o \in Acquire : Call(t, o)
             PROVE RwInv'
    BY Zenon DEF RwNext
<1> QED
    BY RwMutexStep, RwCallStep, RwGuardStep, Zenon DEF RwStep

-----------------------------------------------------------------------------
(* The invariant holds of new locks.                                         *)
LEMMA InitHolds == Counting /\ Init => IInv
<1> SUFFICES ASSUME Counting, Init PROVE IInv
    BY Zenon
<1> USE DEF Init, RwInit, MutexInit
<1>1. RwTypeOK
    BY Zenon DEF RwTypeOK, Acquire, MutexPCs
<1>2. MutexInv
    BY DEF MutexInv, InMutex, Inside
<1>3. StateInv
  <2>1. Readers(hold) = {}
      BY Zenon DEF Readers
  <2> QED
      BY <2>1 DEF Counting, StateInv
<1>4. TornInv /\ \A t \in Threads : RwPlace(t) /\ GuardInv(t)
    BY Zenon DEF TornInv, RwPlace, Entering, Waiting, GuardInv, Acquire
<1>5. ASSUME lock = "Barrier" PROVE BarrierInv
  <2>1. BarrierInit(Sizes)
      BY <1>5, Zenon
  <2>2. MutexTypes /\ CrowdTypes
      BY <2>1, LocksAssumption DEF BarrierInit, MutexTypes, CrowdTypes, BarrierPCs
  <2>3. \A g : Arrived(g) = {} /\ Leaders(g) = {}
      BY Zenon DEF Arrived, Leaders
  <2>4. PresentInv
      BY <2>1, <2>3, Zenon DEF Counting, BarrierInit, PresentInv, Leaving
  <2>5. ASSUME NEW g \in Generations PROVE TogetherAt(g)
      BY <2>1 DEF BarrierInit, TogetherAt, Generations
  <2> QED
      BY <1>2, <2>2, <2>4, <2>5, Zenon DEF BarrierInv, CrowdInv
<1>6. ReInv
    BY LocksAssumption, Zenon DEF Re!ReInit, ReInv
<1>7. BpfInv
  <2>1. flag = FALSE /\ guards = [mutex |-> 0, read |-> 0, write |-> 0] /\ mode = 0
      BY Zenon DEF Bpf!BpfInit
  <2>2. /\ guards \in [mutex : Nat, read : Nat, write : Nat]
        /\ guards.mutex = 0 /\ guards.read = 0 /\ guards.write = 0
      BY <2>1, Zenon
  <2>3. flag \in BOOLEAN /\ (IF flag THEN 1 ELSE 0) = 0
      BY <2>1, Zenon
  <2>4. guards.read \in 0 .. ISIZE_MAX
      BY <2>2, LocksAssumption
  <2> QED
      BY <2>1, <2>2, <2>3, <2>4, Zenon DEF BpfInv
<1> QED
    BY <1>1, <1>2, <1>3, <1>4, <1>5, <1>6, <1>7, Zenon DEF IInv, RwInv

(* Every step keeps it.                                                      *)
LEMMA StepKeeps == Counting /\ IInv /\ [Next]_vars => IInv'
<1> SUFFICES ASSUME Counting, IInv, [Next]_vars PROVE IInv'
    BY Zenon
<1>1. CASE OfRwLock(RwNext)
    BY <1>1, RwKept, Zenon DEF OfRwLock, IInv
<1>2. CASE OfBarrier(BarrierNext)
    BY <1>2, BarrierKept, Zenon DEF OfBarrier, IInv
<1>3. CASE OfReentrant(Re!ReNext)
    BY <1>3, ReentrantStep, Zenon DEF OfReentrant, IInv
<1>4. CASE OfBpf(Bpf!BpfNext)
    BY <1>4, BpfStep, Zenon DEF OfBpf, IInv
<1>5. CASE UNCHANGED vars
  <2>1. /\ UNCHANGED <<locked, cnt, pc, ticket>> /\ lock' = lock
        /\ UNCHANGED <<state, readers, op, hold, notify, failed, sawPoison, panicking, guardPanicking, struck, torn, calls, panics>>
        /\ UNCHANGED <<num_threads, count, generation, local_gen, leads, gone>>
        /\ UNCHANGED <<owner, recursions, depth>> /\ UNCHANGED <<flag, mode, guards>>
      BY <1>5, Zenon DEF vars, mutex, rwOnly, rawVars, poisonVars, barrierVars, reOnly, bpfOnly
  <2>2. MutexInv' = MutexInv
    <3>1. InMutex' = InMutex
        BY <2>1, Zenon DEF InMutex, Inside
    <3> QED
        BY <2>1, <3>1, Zenon DEF MutexInv
  <2>3. RwInv => RwInv'
    <3>1. RwTypeOK => RwTypeOK'
        BY <2>1, Zenon DEF RwTypeOK
    <3>2. StateInv => StateInv'
        BY <2>1, Zenon DEF StateInv, Readers
    <3>3. TornInv => TornInv'
        BY <2>1, Zenon DEF TornInv
    <3>4. \A u \in Threads : RwPlace(u) /\ GuardInv(u) => RwPlace(u)' /\ GuardInv(u)'
      <4>1. \A u \in Threads : RwPlace(u) => RwPlace(u)'
          BY <2>1, Zenon DEF RwPlace
      <4>2. \A u \in Threads : GuardInv(u) => GuardInv(u)'
          BY <2>1, Zenon DEF GuardInv
      <4> QED
          BY <4>1, <4>2, Zenon
    <3> QED
        BY <2>2, <3>1, <3>2, <3>3, <3>4, Zenon DEF RwInv
  <2>4. BarrierInv' = BarrierInv
      BY <2>1, <2>2, Zenon DEF BarrierInv, MutexTypes, CrowdInv, CrowdTypes, PresentInv, TogetherAt, Crowd, Arrived, Leaders, Generations
  <2>5. ReInv' = ReInv /\ BpfInv' = BpfInv
      BY <2>1, Zenon DEF ReInv, BpfInv
  <2> QED
      BY <2>1, <2>3, <2>4, <2>5, Zenon DEF IInv
<1> QED
    BY <1>1, <1>2, <1>3, <1>4, <1>5, Zenon DEF Next

-----------------------------------------------------------------------------
(* The library's theorems on sizes, brought in here so that no step above    *)
(* has them in its context.                                                  *)
Finite == INSTANCE FiniteSetTheorems

(* They are about the same notions of size.                                  *)
LEMMA SameSizes ==
    \A S : /\ Finite!IsFiniteSet(S) <=> IsFiniteSet(S)
           /\ Finite!Cardinality(S) = Cardinality(S)
    BY Zenon DEF Finite!IsFiniteSet, IsFiniteSet, Finite!Cardinality, Cardinality

(* Sets of threads have sizes that count their members.                      *)
LEMMA CountingHolds == Counting
<1>1. Cardinality({}) = 0 /\ \A t \in Threads : Cardinality({t}) = 1
    BY SameSizes, Finite!FS_EmptySet, Finite!FS_Singleton, Zenon
<1>2. ASSUME NEW S \in SUBSET Threads PROVE Finite!IsFiniteSet(S)
    BY SameSizes, LocksAssumption, Finite!FS_Subset, Zenon
<1>3. ASSUME NEW S \in SUBSET Threads
      PROVE  Cardinality(S) \in Nat /\ (Cardinality(S) = 0 => S = {})
    BY <1>2, SameSizes, Finite!FS_CardinalityType, Finite!FS_EmptySet, Zenon
<1>4. ASSUME NEW S \in SUBSET Threads, NEW t \in Threads \ S
      PROVE  Cardinality(S \cup {t}) = Cardinality(S) + 1
    BY <1>2, SameSizes, Finite!FS_AddElement, Zenon
<1>5. ASSUME NEW S \in SUBSET Threads, NEW t \in S
      PROVE  Cardinality(S \ {t}) = Cardinality(S) - 1
    BY <1>2, SameSizes, Finite!FS_RemoveElement, Zenon
<1> QED
    BY <1>1, <1>3, <1>4, <1>5, Zenon DEF Counting

(* The inductive invariant holds throughout.                                 *)
THEOREM InductiveInvariant == Spec => []IInv
<1>1. Init => IInv
    BY CountingHolds, InitHolds, Zenon
<1>2. IInv /\ [Next]_vars => IInv'
    BY CountingHolds, StepKeeps, Zenon
<1> QED
    BY <1>1, <1>2, PTL DEF Spec

(* No thread ever finds its lock inconsistent, whatever the number of        *)
(* threads, calls and panics: the assertions in RWLock's read_unlock and     *)
(* write_unlock and in ReentrantMutex::lock cannot fail.                     *)
THEOREM NoPanic == Spec => []NeverPanics
<1>1. IInv => NeverPanics
    BY Zenon DEF IInv, RwInv, RwPlace, BarrierInv, MutexTypes, BarrierPCs, MutexPCs, ReInv, BpfInv, NeverPanics
<1> QED
    BY <1>1, InductiveInvariant, PTL

(* Every lock has the holders its state says, and BPF's keep readers and     *)
(* writers apart at any width of isize.                                      *)
THEOREM Holding == Spec => []HoldersMatch
<1>1. IInv => HoldersMatch
  <2> SUFFICES ASSUME IInv PROVE HoldersMatch
      BY Zenon
  <2>1. ASSUME MutexInv, locked \in {0, 1} PROVE locked = Cardinality(InMutex)
    <3>1. CASE locked = 0
      <4>1. InMutex = {}
          BY <2>1, <3>1 DEF MutexInv
      <4> QED
          BY <3>1, <4>1, CountingHolds, Zenon DEF Counting
    <3>2. CASE locked = 1
      <4>1. PICK t \in Threads : t \in InMutex
          BY <2>1, <3>2, Zenon DEF MutexInv
      <4>2. InMutex = {t}
          BY <2>1, <4>1, Zenon DEF MutexInv
      <4> QED
          BY <3>2, <4>2, CountingHolds, Zenon DEF Counting
    <3> QED
        BY <2>1, <3>1, <3>2, Zenon
  <2>2. ASSUME RwTypeOK, StateInv
        PROVE  /\ readers = Cardinality(Holders("read"))
               /\ state = (IF readers > 0 THEN "Reading" ELSE IF Holders("write") # {} THEN "Writing" ELSE "Unlocked")
               /\ Cardinality(Holders("write")) <= 1 /\ (readers > 0 => Holders("write") = {})
    <3>1. Holders("write") = {} \/ \E t \in Threads : Holders("write") = {t}
        BY <2>2 DEF StateInv, Holders
    <3>2. Cardinality(Holders("write")) \in {0, 1}
        BY <3>1, CountingHolds, Zenon DEF Counting
    <3>3. readers = Cardinality(Holders("read"))
        BY <2>2, Zenon DEF StateInv, Readers, Holders
    <3> QED
        BY <2>2, <3>2, <3>3 DEF RwTypeOK, StateInv, Holders
  <2>3. lock = "ReentrantMutex" => \A t \in Threads : depth[t] = IF owner = t THEN recursions + 1 ELSE 0
      BY Zenon DEF IInv, ReInv
  <2>4. lock = "bpf" => /\ guards.write > 0 => guards.write = 1 /\ guards.read = 0
                        /\ guards.mutex = IF flag THEN 1 ELSE 0
      BY DEF IInv, BpfInv
  <2> QED
      BY <2>1, <2>2, <2>3, <2>4, Zenon DEF IInv, RwInv, BarrierInv, MutexTypes, RwTypeOK, HoldersMatch
<1> QED
    BY <1>1, InductiveInvariant, PTL

(* Whatever the number of threads that a barrier was made for and that use   *)
(* it, nobody leaves before as many have come, and of every crowd one        *)
(* leads: the notifications and the spurious wakeups of the condvar let      *)
(* nobody out early.                                                         *)
THEOREM Together == Spec => []LeaveTogether
<1>1. IInv => LeaveTogether
  <2> SUFFICES ASSUME IInv, lock = "Barrier", NEW g \in Generations
               PROVE  IF g < generation
                      THEN /\ Crowd(g) = IF num_threads = 0 THEN 1 ELSE num_threads
                           /\ gone[g].leaders + Cardinality({t \in Arrived(g) : leads[t]}) = 1
                      ELSE gone[g].leaders + gone[g].others = 0
      BY Zenon DEF LeaveTogether
  <2>1. TogetherAt(g)
      BY Zenon DEF IInv, BarrierInv, CrowdInv
  <2> QED
      BY <2>1 DEF TogetherAt, Leaders
<1> QED
    BY <1>1, InductiveInvariant, PTL

(* Whoever has a guard of an RwLock was told of poison just when a writer    *)
(* dropped its guard unwinding from a panic that began under it.             *)
THEOREM Poisoning == Spec => []PoisonSeen
<1>1. IInv => PoisonSeen
    BY Zenon DEF PoisonSeen, IInv, RwInv, TornInv, GuardInv
<1> QED
    BY <1>1, InductiveInvariant, PTL
=============================================================================
