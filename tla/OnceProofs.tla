----------------------------- MODULE OnceProofs -----------------------------
(* Proofs about Once for any set of threads, and about both Parkers for any  *)
(* set of unparking ones.  RunInv relates the word of a Once to the thread   *)
(* that runs the closure; ListInv describes the lists of waiters with one    *)
(* fact per link, so that no induction along a list is needed.               *)
EXTENDS Once, Parker, TLAPS

(* The unconsumed part of the list that a thread in WaiterQueue::drop holds. *)
Root(t) ==
    IF pc[t] \in {"walk", "signal"} THEN queue[t]
    ELSE IF pc[t] = "unpark" THEN next_queue[t] ELSE Null

(* What the word, the guard of WaiterQueue and the place of each thread have *)
(* to do with each other.                                                    *)
RunInv ==
    /\ OneRunner
    /\ \A t \in Threads :
        /\ Running(t) => set_state_on_drop_to[t] \in {"POISONED", "COMPLETE"}
        /\ At(t, "exchange") =>
              \/ current[t].tag = "INCOMPLETE"
              \/ current[t].tag = "POISONED" /\ ignore_poisoning[t]
        /\ At(t, "enqueue") => current[t].tag = "RUNNING"
        /\ At(t, "returned") /\ set_state_on_drop_to[t] # "POISONED"
              => state_and_queue.tag = "COMPLETE"
        /\ pc[t] \in {"walk", "signal", "unpark"} /\ set_state_on_drop_to[t] # "POISONED"
              => state_and_queue.tag = "COMPLETE"
        /\ unwinding[t] => pc[t] \in {"drop", "walk", "signal", "unpark"}
        /\ pc[t] \in {"load", "exchange", "enqueue", "check", "park"}
              => set_state_on_drop_to[t] = "none"

(* A node that is linked and that no walk has begun with.                    *)
Fresh(n) == Live(n) /\ thread[n]

(* The lists of waiters: the queue in the word, every `next` and the root of *)
(* every walk lead to linked nodes, and no two of them to the same one.      *)
ListInv ==
    /\ state_and_queue.queue # Null => Fresh(state_and_queue.queue)
    /\ \A n \in Threads : Live(n) /\ next[n] # Null =>
        /\ Fresh(next[n])
        /\ next[n] # state_and_queue.queue
        /\ \A m \in Threads : Live(m) /\ next[m] = next[n] => m = n
    /\ \A t \in Threads :
        /\ Root(t) # Null =>
            /\ Live(Root(t))
            /\ pc[t] # "signal" => thread[Root(t)]
            /\ Root(t) # state_and_queue.queue
            /\ \A n \in Threads : Live(n) => next[n] # Root(t)
            /\ \A u \in Threads : Root(u) = Root(t) => u = t
        /\ At(t, "signal") => queue[t] # Null /\ next_queue[t] = next[queue[t]]
        /\ At(t, "unpark") => queue[t] # Null

(* The inductive invariant.                                                  *)
IInv == TypeOK /\ RunInv /\ ListInv

(* Every step of once.rs keeps the type of every variable.                   *)
LEMMA TypeInductive == TypeOK /\ RunInv /\ [Next]_vars => TypeOK'
<1> SUFFICES ASSUME TypeOK, RunInv, [Next]_vars PROVE TypeOK'
    BY Zenon
<1> USE NullAssumption DEF NodePtr, Tag, PC, Outside, At, Goto, nodeVars, walkVars
<1>1. CASE UNCHANGED vars
    BY <1>1, Zenon DEF vars, TypeOK
<1>2. ASSUME NEW t \in Threads,
             (\E force \in BOOLEAN : Call(t, force)) \/ SpuriousWakeup(t) \/ Step(t)
      PROVE  TypeOK'
  <2>1. CASE \E force \in BOOLEAN : Call(t, force)
      BY <2>1 DEF Call, TypeOK
  <2>2. CASE Load(t)
      BY <2>2, Zenon DEF Load, Match, After, TypeOK
  <2>3. CASE ExchangeWins(t)
      BY <2>3, Zenon DEF ExchangeWins, Unchanged, GuardedState, Word, TypeOK
  <2>4. CASE ExchangeLoses(t)
      BY <2>4, Zenon DEF ExchangeLoses, Unchanged, Match, After, TypeOK
  <2>5. CASE \E to \in {"COMPLETE", "POISONED"} : InitReturns(t, to)
      BY <2>5 DEF InitReturns, TypeOK
  <2>6. CASE InitPanics(t)
      BY <2>6, Zenon DEF InitPanics, TypeOK
  <2>7. CASE DropSwap(t)
      BY <2>7, Zenon DEF DropSwap, TakenQueue, Word, TypeOK, RunInv, Running
  <2>8. CASE WalkEnds(t)
      BY <2>8, Zenon DEF WalkEnds, TypeOK
  <2>9. CASE WalkTake(t)
      BY <2>9, Zenon DEF WalkTake, TypeOK
  <2>10. CASE WalkSignal(t)
      BY <2>10, Zenon DEF WalkSignal, TypeOK
  <2>11. CASE WalkUnpark(t)
      BY <2>11, Zenon DEF WalkUnpark, Woken, TypeOK
  <2>12. CASE Enqueue(t)
      BY <2>12, Zenon DEF Enqueue, Unchanged, Word, TypeOK
  <2>13. CASE EnqueueLoses(t)
      BY <2>13, Zenon DEF EnqueueLoses, Unchanged, TypeOK
  <2>14. CASE CheckSignaled(t)
      BY <2>14, Zenon DEF CheckSignaled, MayLeave, Recheck, TypeOK
  <2>15. CASE Unparked(t)
      BY <2>15, Zenon DEF Unparked, TypeOK
  <2>16. CASE SpuriousWakeup(t)
      BY <2>16, Zenon DEF SpuriousWakeup, TypeOK
  <2> QED
      BY <1>2, <2>1, <2>2, <2>3, <2>4, <2>5, <2>6, <2>7, <2>8, <2>9, <2>10, <2>11, <2>12, <2>13, <2>14, <2>15, <2>16, Zenon DEF Step
<1> QED
    BY <1>1, <1>2, Zenon DEF Next

(* Every step keeps RunInv: only the winner of the exchange runs, and only   *)
(* the drop of its guard ends the run.                                       *)
LEMMA RunInductive == TypeOK /\ RunInv /\ [Next]_vars => RunInv'
<1> SUFFICES ASSUME TypeOK /\ RunInv, [Next]_vars PROVE RunInv'
    BY Zenon
<1> USE NullAssumption DEF NodePtr, Tag, PC, Outside, At, Goto, nodeVars, walkVars
<1>1. CASE UNCHANGED vars
    BY <1>1, Zenon DEF vars, TypeOK, RunInv, OneRunner, Running
<1>2. ASSUME NEW t \in Threads,
             (\E force \in BOOLEAN : Call(t, force)) \/ SpuriousWakeup(t) \/ Step(t)
      PROVE  RunInv'
  <2>1. CASE \E force \in BOOLEAN : Call(t, force)
      BY <2>1 DEF Call, TypeOK, RunInv, OneRunner, Running
  <2>2. CASE Load(t)
      BY <2>2 DEF Load, Match, After, TypeOK, RunInv, OneRunner, Running
  <2>3. CASE ExchangeWins(t)
      BY <2>3 DEF ExchangeWins, Unchanged, GuardedState, Word, TypeOK, RunInv, OneRunner, Running
  <2>4. CASE ExchangeLoses(t)
      BY <2>4 DEF ExchangeLoses, Unchanged, Match, After, TypeOK, RunInv, OneRunner, Running
  <2>5. CASE \E to \in {"COMPLETE", "POISONED"} : InitReturns(t, to)
      BY <2>5 DEF InitReturns, TypeOK, RunInv, OneRunner, Running
  <2>6. CASE InitPanics(t)
      BY <2>6 DEF InitPanics, TypeOK, RunInv, OneRunner, Running
  <2>7. CASE DropSwap(t)
      BY <2>7 DEF DropSwap, TakenQueue, Word, TypeOK, RunInv, OneRunner, Running
  <2>8. CASE WalkEnds(t)
      BY <2>8 DEF WalkEnds, TypeOK, RunInv, OneRunner, Running
  <2>9. CASE WalkTake(t)
      BY <2>9 DEF WalkTake, TypeOK, RunInv, OneRunner, Running
  <2>10. CASE WalkSignal(t)
      BY <2>10 DEF WalkSignal, TypeOK, RunInv, OneRunner, Running
  <2>11. CASE WalkUnpark(t)
      BY <2>11 DEF WalkUnpark, Woken, TypeOK, RunInv, OneRunner, Running
  <2>12. CASE Enqueue(t)
      BY <2>12 DEF Enqueue, Unchanged, Word, TypeOK, RunInv, OneRunner, Running
  <2>13. CASE EnqueueLoses(t)
      BY <2>13 DEF EnqueueLoses, Unchanged, TypeOK, RunInv, OneRunner, Running
  <2>14. CASE CheckSignaled(t)
      BY <2>14 DEF CheckSignaled, MayLeave, Recheck, TypeOK, RunInv, OneRunner, Running
  <2>15. CASE Unparked(t)
      BY <2>15 DEF Unparked, TypeOK, RunInv, OneRunner, Running
  <2>16. CASE SpuriousWakeup(t)
      BY <2>16 DEF SpuriousWakeup, TypeOK, RunInv, OneRunner, Running
  <2> QED
      BY <1>2, <2>1, <2>2, <2>3, <2>4, <2>5, <2>6, <2>7, <2>8, <2>9, <2>10, <2>11, <2>12, <2>13, <2>14, <2>15, <2>16, Zenon DEF Step
<1> QED
    BY <1>1, <1>2, Zenon DEF Next

(* Every step keeps ListInv: a node is linked once, in front of the queue,   *)
(* and a walk leaves it before its thread may.                               *)
LEMMA ListInductive == IInv /\ [Next]_vars => ListInv'
<1> SUFFICES ASSUME IInv, [Next]_vars PROVE ListInv'
    BY Zenon
<1> USE NullAssumption DEF NodePtr, Tag, PC, Outside, At, Goto, nodeVars, walkVars
<1>1. CASE UNCHANGED vars
    BY <1>1 DEF vars, IInv, TypeOK, ListInv, Root, Fresh, Live
<1>2. ASSUME NEW t \in Threads,
             (\E force \in BOOLEAN : Call(t, force)) \/ SpuriousWakeup(t) \/ Step(t)
      PROVE  ListInv'
  <2>1. CASE \E force \in BOOLEAN : Call(t, force)
      BY <2>1 DEF Call, IInv, TypeOK, ListInv, Root, Fresh, Live
  <2>2. CASE Load(t)
      BY <2>2 DEF Load, Match, After, IInv, TypeOK, ListInv, Root, Fresh, Live
  <2>3. CASE ExchangeWins(t)
      BY <2>3 DEF ExchangeWins, Unchanged, GuardedState, Word, IInv, TypeOK, ListInv, Root, Fresh, Live
  <2>4. CASE ExchangeLoses(t)
      BY <2>4 DEF ExchangeLoses, Unchanged, Match, After, IInv, TypeOK, ListInv, Root, Fresh, Live
  <2>5. CASE \E to \in {"COMPLETE", "POISONED"} : InitReturns(t, to)
      BY <2>5 DEF InitReturns, IInv, TypeOK, ListInv, Root, Fresh, Live
  <2>6. CASE InitPanics(t)
      BY <2>6 DEF InitPanics, IInv, TypeOK, ListInv, Root, Fresh, Live
  <2>7. CASE DropSwap(t)
      BY <2>7 DEF DropSwap, TakenQueue, Word, IInv, TypeOK, ListInv, Root, Fresh, Live
  <2>8. CASE WalkEnds(t)
      BY <2>8 DEF WalkEnds, IInv, TypeOK, ListInv, Root, Fresh, Live
  <2>9. CASE WalkTake(t)
      BY <2>9 DEF WalkTake, IInv, TypeOK, ListInv, Root, Fresh, Live
  <2>10. CASE WalkSignal(t)
      BY <2>10 DEF WalkSignal, IInv, TypeOK, ListInv, Root, Fresh, Live
  <2>11. CASE WalkUnpark(t)
      BY <2>11 DEF WalkUnpark, Woken, IInv, TypeOK, ListInv, Root, Fresh, Live
  <2>12. CASE Enqueue(t)
      BY <2>12 DEF Enqueue, Unchanged, Word, IInv, TypeOK, ListInv, Root, Fresh, Live
  <2>13. CASE EnqueueLoses(t)
      BY <2>13 DEF EnqueueLoses, Unchanged, IInv, TypeOK, ListInv, Root, Fresh, Live
  <2>14. CASE CheckSignaled(t)
      BY <2>14 DEF CheckSignaled, MayLeave, Recheck, IInv, TypeOK, ListInv, Root, Fresh, Live
  <2>15. CASE Unparked(t)
      BY <2>15 DEF Unparked, IInv, TypeOK, ListInv, Root, Fresh, Live
  <2>16. CASE SpuriousWakeup(t)
      BY <2>16 DEF SpuriousWakeup, IInv, TypeOK, ListInv, Root, Fresh, Live
  <2> QED
      BY <1>2, <2>1, <2>2, <2>3, <2>4, <2>5, <2>6, <2>7, <2>8, <2>9, <2>10, <2>11, <2>12, <2>13, <2>14, <2>15, <2>16, Zenon DEF Step
<1> QED
    BY <1>1, <1>2, Zenon DEF Next

(* The first state satisfies the inductive invariant.                        *)
LEMMA InitInv == Init => IInv
  BY NullAssumption DEF Init, IInv, TypeOK, RunInv, OneRunner, Running, ListInv, Root,
     Live, Fresh, At, Word, NodePtr, Tag, PC, Outside

(* The inductive invariant holds throughout.                                 *)
THEOREM InductiveInvariant == Spec => []IInv
<1>1. IInv /\ [Next]_vars => IInv'
    BY TypeInductive, RunInductive, ListInductive, Zenon DEF IInv
<1> QED
    BY InitInv, <1>1, PTL DEF Spec

(* Variables keep their types, in every execution of call_once and           *)
(* call_once_force by any set of threads.                                    *)
THEOREM TypeCorrect == Spec => []TypeOK
  BY InductiveInvariant, PTL DEF IInv

(* call_inner runs one closure at a time, and the assertions of once.rs:427  *)
(* and 497 hold.                                                             *)
THEOREM MutualExclusion == Spec => []OneRunner
  BY InductiveInvariant, PTL DEF IInv, RunInv

(* The walk of WaiterQueue::drop only touches nodes that exist.              *)
THEOREM WalkIsSafe == Spec => []WalkTouchesLiveNodes
<1>1. IInv => WalkTouchesLiveNodes
    BY NullAssumption, Zenon DEF IInv, ListInv, TypeOK, WalkTouchesLiveNodes, Root, Fresh, At, NodePtr
<1> QED
    BY <1>1, InductiveInvariant, PTL

(* A call returns only after initialisation (call_inner's break).            *)
THEOREM ReturnImpliesInitialised == Spec => []ReturnsInitialised
<1>1. IInv => ReturnsInitialised
    BY Zenon DEF IInv, RunInv, ReturnsInitialised
<1> QED
    BY <1>1, InductiveInvariant, PTL

(* No step changes the word of a completed Once.                             *)
THEOREM CompletedStays == Spec => CompleteIsFinal
<1>1. IInv /\ [Next]_vars =>
        [state_and_queue.tag = "COMPLETE" => state_and_queue' = state_and_queue]_vars
  <2> SUFFICES ASSUME IInv, Next, state_and_queue.tag = "COMPLETE"
               PROVE  state_and_queue' = state_and_queue
      BY Zenon DEF vars
  <2> USE DEF IInv, RunInv, OneRunner, Running, At, Unchanged
  <2> QED
      BY DEF Next, Step, Call, Load, Match, ExchangeWins, ExchangeLoses, InitReturns,
             InitPanics, DropSwap, WalkEnds, WalkTake, WalkSignal, WalkUnpark, Enqueue,
             EnqueueLoses, CheckSignaled, Unparked, SpuriousWakeup
<1> QED
    BY <1>1, InductiveInvariant, PTL DEF Spec, CompleteIsFinal

(* A poisoned Once is run again only by a call_once_force.                   *)
THEOREM PoisonStays == Spec => PoisonNeedsForce
<1> DEFINE Forced == \E t \in Threads :
                        ignore_poisoning[t] /\ At(t, "exchange") /\ pc'[t] = "init"
<1>1. IInv /\ [Next]_vars =>
        [state_and_queue.tag = "POISONED" /\ state_and_queue' # state_and_queue => Forced]_vars
  <2> SUFFICES ASSUME IInv, Next, state_and_queue.tag = "POISONED",
                      state_and_queue' # state_and_queue
               PROVE  Forced
      BY Zenon DEF vars
  <2> USE DEF IInv, TypeOK, RunInv, OneRunner, Running, At, Goto, Unchanged
  <2>1. PICK t \in Threads : ExchangeWins(t)
      BY DEF Next, Step, Call, Load, Match, ExchangeLoses, InitReturns,
             InitPanics, DropSwap, WalkEnds, WalkTake, WalkSignal, WalkUnpark, Enqueue,
             EnqueueLoses, CheckSignaled, Unparked, SpuriousWakeup
  <2> QED
      BY <2>1, Zenon DEF ExchangeWins
<1> QED
    BY <1>1, InductiveInvariant, PTL DEF Spec, PoisonNeedsForce

(* The lock-free code of once.rs implements the promise of OnceSpec: calls   *)
(* begin, run, end, return and panic exactly when it allows them to.         *)
THEOREM Refinement == Spec => ImplementsOnceSpec
<1> USE NullAssumption DEF NodePtr, Tag, PC, Outside, At, Goto
<1>1. Init => Abstract!Init
    BY DEF Init, Abstract!Init, CallOf, Word
<1>2. IInv /\ [Next]_vars => [Abstract!Next]_(Abstract!vars)
  <2> SUFFICES ASSUME IInv, [Next]_vars PROVE [Abstract!Next]_(Abstract!vars)
      BY Zenon
  <2> USE DEF IInv, TypeOK, CallOf, Running
  <2>1. CASE UNCHANGED vars
      BY <2>1, Zenon DEF vars, Abstract!vars
  <2>2. ASSUME NEW t \in Threads,
               (\E force \in BOOLEAN : Call(t, force)) \/ SpuriousWakeup(t) \/ Step(t)
        PROVE  [Abstract!Next]_(Abstract!vars)
    <3>1. CASE \E force \in BOOLEAN : Call(t, force)
      <4>1. PICK force \in BOOLEAN : Call(t, force)
          BY <3>1, Zenon
      <4>2. Abstract!Call(t, force)
          BY <4>1, Zenon DEF Call, Abstract!Call, Abstract!Progress
      <4> QED
          BY <4>2 DEF Abstract!Next
    <3>2. CASE Load(t) \/ ExchangeLoses(t)
      <4> USE DEF Load, ExchangeLoses, Match, After, Unchanged, Abstract!Progress
      <4>1. CASE state_and_queue.tag = "COMPLETE"
        <5>1. Abstract!Return(t)
            BY <3>2, <4>1, Zenon DEF Abstract!Return
        <5> QED
            BY <5>1, Zenon DEF Abstract!Next
      <4>2. CASE state_and_queue.tag = "POISONED" /\ ~ignore_poisoning[t]
        <5>1. Abstract!Panic(t)
            BY <3>2, <4>2, Zenon DEF Abstract!Panic
        <5> QED
            BY <5>1, Zenon DEF Abstract!Next
      <4>3. CASE ~ \/ state_and_queue.tag = "COMPLETE"
                   \/ state_and_queue.tag = "POISONED" /\ ~ignore_poisoning[t]
          BY <3>2, <4>3 DEF Abstract!vars
      <4> QED
          BY <4>1, <4>2, <4>3, Zenon
    <3>3. CASE ExchangeWins(t)
      <4>1. Abstract!Begin(t)
        <5>1. Abstract!Progress(t, {"calling"}, "running")
            BY <3>3, Zenon DEF ExchangeWins, Abstract!Progress
        <5>2. state_and_queue'.tag = "RUNNING" /\ UNCHANGED ignore_poisoning
            BY <3>3 DEF ExchangeWins, Word
        <5>3. \/ state_and_queue.tag = "INCOMPLETE"
              \/ state_and_queue.tag = "POISONED" /\ ignore_poisoning[t]
            BY <3>3, Zenon DEF ExchangeWins, Unchanged, RunInv
        <5> QED
            BY <5>1, <5>2, <5>3, Zenon DEF Abstract!Begin
      <4> QED
          BY <4>1, Zenon DEF Abstract!Next
    <3>4. CASE DropSwap(t)
      <4>1. Abstract!End(t, set_state_on_drop_to[t])
          BY <3>4, Zenon DEF DropSwap, Word, Abstract!End, Abstract!Progress
      <4>2. set_state_on_drop_to[t] \in {"COMPLETE", "POISONED"}
          BY <3>4, Zenon DEF DropSwap, RunInv
      <4> QED
          BY <4>1, <4>2 DEF Abstract!Next
    <3>5. CASE WalkEnds(t)
      <4>1. Abstract!Return(t) \/ Abstract!Panic(t)
          BY <3>5, Zenon DEF WalkEnds, Abstract!Return, Abstract!Panic, Abstract!Progress
      <4> QED
          BY <4>1, Zenon DEF Abstract!Next
    <3>6. CASE \/ \E to \in {"COMPLETE", "POISONED"} : InitReturns(t, to)
               \/ InitPanics(t) \/ WalkTake(t) \/ WalkSignal(t) \/ WalkUnpark(t)
               \/ EnqueueLoses(t) \/ CheckSignaled(t) \/ Unparked(t) \/ SpuriousWakeup(t)
        BY <3>6 DEF InitReturns, InitPanics, WalkTake, WalkSignal, WalkUnpark, EnqueueLoses,
                    CheckSignaled, Recheck, Unparked, SpuriousWakeup, Abstract!vars
    <3>7. CASE Enqueue(t)
        BY <3>7 DEF Enqueue, Unchanged, RunInv, Word, Abstract!vars
    <3> QED
        BY <2>2, <3>1, <3>2, <3>3, <3>4, <3>5, <3>6, <3>7, Zenon DEF Step
  <2> QED
      BY <2>1, <2>2, Zenon DEF Next
<1> QED
    BY <1>1, <1>2, InductiveInvariant, PTL DEF Spec, ImplementsOnceSpec, Abstract!Spec

-----------------------------------------------------------------------------
(* The futex word is PARKED only while its owner is inside park.             *)
FutexInv ==
    /\ F!TypeOK
    /\ state = F!PARKED => opc # "running"
    /\ timed => opc # "running"

(* The flag is PARKED only between SetParked and the return of park, and an  *)
(* owner on its way into or out of the condvar's wait is flagged or notified. *)
GenericInv ==
    /\ G!TypeOK /\ opc # "panicked"
    /\ opc \in {"running", "lock", "cas"} => state # "PARKED"
    /\ opc = "swap" => state = "NOTIFIED"
    /\ opc \in {"wait", "waiting", "relock", "recheck"} => state # "EMPTY"
    /\ timed => opc # "running"

ParkerInv ==
    /\ kind \in {"futex", "generic"}
    /\ kind = "futex" => FutexInv
    /\ kind = "generic" => GenericInv

(* The three values of the futex word, and what fetch_sub(1) makes of them.  *)
LEMMA Values ==
    /\ F!PARKED # F!EMPTY /\ F!PARKED # F!NOTIFIED /\ F!EMPTY # F!NOTIFIED
    /\ F!EMPTY - 1 = F!PARKED /\ F!NOTIFIED - 1 = F!EMPTY
BY DEF F!PARKED, F!EMPTY, F!NOTIFIED

(* Every step of the futex Parker keeps its invariant.                       *)
LEMMA FutexStep == FutexInv /\ F!Next => FutexInv'
<1> SUFFICES ASSUME FutexInv, F!Next PROVE FutexInv'
    BY Zenon
<1> USE Values DEF FutexInv, F!TypeOK
<1>1. ASSUME NEW t \in BOOLEAN, F!Park(t) PROVE FutexInv'
    BY <1>1, Zenon DEF F!Park
<1>2. CASE F!FutexWait
    BY <1>2, Zenon DEF F!FutexWait
<1>3. CASE F!FutexReturns
    BY <1>3, Zenon DEF F!FutexReturns
<1>4. CASE F!ParkWakes
    BY <1>4, Zenon DEF F!ParkWakes, F!TokenTaken
<1>5. CASE F!ParkTimeoutWakes
    BY <1>5, Zenon DEF F!ParkTimeoutWakes, F!TimedOut
<1>6. ASSUME NEW u \in Unparkers, F!Unpark(u) \/ F!FutexWake(u) PROVE FutexInv'
    BY <1>6 DEF F!Unpark, F!NeedsWake, F!FutexWake
<1> QED
    BY <1>1, <1>2, <1>3, <1>4, <1>5, <1>6, Zenon DEF F!Next, F!OwnerStep

(* Every step of the generic Parker keeps its invariant.                     *)
LEMMA GenericStep == GenericInv /\ G!Next => GenericInv'
<1> SUFFICES ASSUME GenericInv, G!Next PROVE GenericInv'
    BY Zenon
<1> USE UnparkersAssumption DEF GenericInv, G!TypeOK, G!OPC
<1>1. ASSUME NEW t \in BOOLEAN, G!Park(t) PROVE GenericInv'
    BY <1>1, Zenon DEF G!Park
<1>2. CASE G!Lock
    BY <1>2, Zenon DEF G!Lock
<1>3. CASE G!SetParked
    BY <1>3, Zenon DEF G!SetParked
<1>4. CASE G!TakeLate
    BY <1>4, Zenon DEF G!TakeLate, G!Leave
<1>5. CASE G!Wait \/ G!WaitEnds
    BY <1>5, Zenon DEF G!Wait, G!WaitEnds
<1>6. CASE G!ParkRechecks
    BY <1>6, Zenon DEF G!ParkRechecks, G!TokenTaken, G!Leave
<1>7. CASE G!ParkTimeoutRechecks
    BY <1>7, Zenon DEF G!ParkTimeoutRechecks, G!TimedOut, G!Leave
<1>8. ASSUME NEW u \in Unparkers, G!Unpark(u) PROVE GenericInv'
    BY <1>8, Zenon DEF G!Unpark, G!BeforeNotify
<1>9. ASSUME NEW u \in Unparkers, G!UnparkerStep(u) PROVE GenericInv'
    BY <1>9 DEF G!UnparkerStep, G!UnparkLock, G!UnparkUnlock, G!NotifyOne
<1> QED
    BY <1>1, <1>2, <1>3, <1>4, <1>5, <1>6, <1>7, <1>8, <1>9, Zenon DEF G!Next, G!OwnerStep

(* The inductive invariant holds throughout.                                 *)
THEOREM ParkerInvariant == ParkerSpec => []ParkerInv
<1>1. ParkerInit => ParkerInv
    BY Values, UnparkersAssumption, Zenon
    DEF ParkerInit, F!Init, G!Init, ParkerInv, FutexInv, GenericInv, F!TypeOK, G!TypeOK, G!OPC
<1>2. ParkerInv /\ [ParkerNext]_parkerVars => ParkerInv'
  <2> SUFFICES ASSUME ParkerInv, [ParkerNext]_parkerVars PROVE ParkerInv'
      BY Zenon
  <2>1. CASE Futex(F!Next)
      BY <2>1, FutexStep, Zenon DEF Futex, ParkerInv
  <2>2. CASE Generic(G!Next)
      BY <2>2, GenericStep, Zenon DEF Generic, ParkerInv
  <2>3. CASE UNCHANGED parkerVars
      BY <2>3 DEF parkerVars, ParkerInv, FutexInv, GenericInv, F!TypeOK, G!TypeOK
  <2> QED
      BY <2>1, <2>2, <2>3, Zenon DEF ParkerNext
<1> QED
    BY <1>1, <1>2, PTL DEF ParkerSpec

(* The futex word stays in -1..1 and is never PARKED when park starts; no    *)
(* panic of generic.rs is reached and its mutex has one holder: for any      *)
(* number of unparkers, however often they unpark.                           *)
THEOREM ParkerNoPanic == ParkerSpec => []NeverPanics
<1>1. ParkerInv => NeverPanics
    BY Zenon DEF ParkerInv, FutexInv, GenericInv, NeverPanics
<1> QED
    BY <1>1, ParkerInvariant, PTL

(* Both Parkers implement the token of park and unpark.                      *)
THEOREM ParkerRefinement == ParkerSpec => ImplementsParkSpec
<1>1. ParkerInit => ParkToken!Init
    BY Values, Zenon DEF ParkerInit, F!Init, G!Init, ParkToken!Init, Token
<1>2. ParkerInv /\ [ParkerNext]_parkerVars => [ParkToken!Next]_(ParkToken!vars)
  <2> SUFFICES ASSUME ParkerInv, [ParkerNext]_parkerVars PROVE [ParkToken!Next]_(ParkToken!vars)
      BY Zenon
  <2> USE DEF ParkerInv, ParkToken!Next, ParkToken!vars, Token
  <2>1. CASE Futex(F!Next)
    <3>1. kind = "futex" /\ kind' = "futex" /\ F!Next /\ FutexInv
        BY <2>1, Zenon DEF Futex
    <3> USE <3>1, Values DEF FutexInv, F!TypeOK
    <3>2. ASSUME NEW t \in BOOLEAN, F!Park(t) PROVE [ParkToken!Next]_(ParkToken!vars)
        BY <3>2, Zenon DEF F!Park, ParkToken!ParkReady, ParkToken!Park
    <3>3. CASE F!FutexWait \/ F!FutexReturns
        BY <3>3 DEF F!FutexWait, F!FutexReturns
    <3>4. CASE F!ParkWakes
        BY <3>4, Zenon DEF F!ParkWakes, F!TokenTaken, ParkToken!Return
    <3>5. CASE F!ParkTimeoutWakes
        BY <3>5, Zenon DEF F!ParkTimeoutWakes, F!TimedOut, ParkToken!Return, ParkToken!GiveUp
    <3>6. ASSUME NEW u \in Unparkers, F!Unpark(u) PROVE [ParkToken!Next]_(ParkToken!vars)
        BY <3>6, Zenon DEF F!Unpark, ParkToken!Unpark
    <3>7. ASSUME NEW u \in Unparkers, F!FutexWake(u) PROVE [ParkToken!Next]_(ParkToken!vars)
        BY <3>7, Zenon DEF F!FutexWake
    <3> QED
        BY <3>1, <3>2, <3>3, <3>4, <3>5, <3>6, <3>7, Zenon DEF F!Next, F!OwnerStep
  <2>2. CASE Generic(G!Next)
    <3>1. kind = "generic" /\ kind' = "generic" /\ G!Next /\ GenericInv
        BY <2>2, Zenon DEF Generic
    <3> USE <3>1 DEF GenericInv, G!TypeOK, G!OPC
    <3>2. ASSUME NEW t \in BOOLEAN, G!Park(t) PROVE [ParkToken!Next]_(ParkToken!vars)
        BY <3>2, Zenon DEF G!Park, ParkToken!ParkReady, ParkToken!Park
    <3>3. CASE G!Lock \/ G!SetParked \/ G!Wait \/ G!WaitEnds
        BY <3>3 DEF G!Lock, G!SetParked, G!Wait, G!WaitEnds
    <3>4. CASE G!TakeLate \/ G!ParkRechecks
        BY <3>4 DEF G!TakeLate, G!ParkRechecks, G!TokenTaken, G!Leave, ParkToken!Return
    <3>5. CASE G!ParkTimeoutRechecks
        BY <3>5, Zenon DEF G!ParkTimeoutRechecks, G!TimedOut, G!Leave, ParkToken!Return, ParkToken!GiveUp
    <3>6. ASSUME NEW u \in Unparkers, G!Unpark(u) PROVE [ParkToken!Next]_(ParkToken!vars)
        BY <3>6, Zenon DEF G!Unpark, ParkToken!Unpark
    <3>7. ASSUME NEW u \in Unparkers, G!UnparkerStep(u) PROVE [ParkToken!Next]_(ParkToken!vars)
        BY <3>7 DEF G!UnparkerStep, G!UnparkLock, G!UnparkUnlock, G!NotifyOne
    <3> QED
        BY <3>1, <3>2, <3>3, <3>4, <3>5, <3>6, <3>7, Zenon DEF G!Next, G!OwnerStep
  <2>3. CASE UNCHANGED parkerVars
      BY <2>3, Zenon DEF parkerVars
  <2> QED
      BY <2>1, <2>2, <2>3, Zenon DEF ParkerNext
<1> QED
    BY <1>1, <1>2, ParkerInvariant, PTL DEF ParkerSpec, ImplementsParkSpec, ParkToken!Spec
=============================================================================
