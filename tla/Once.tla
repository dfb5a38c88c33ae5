-------------------------------- MODULE Once --------------------------------
(* std::sync::Once (std/src/sync/once.rs).  Threads call `call_once` or      *)
(* `call_once_force` on one Once.  `state_and_queue` packs the state and the *)
(* head of a linked list of Waiter nodes; a node lives on its thread's stack *)
(* while the thread is in `wait`, so a node is named after its thread.  Every *)
(* action is one access to shared memory with the local code around it.      *)
(* Parking is the token of std::thread::park: `park` consumes the token, and *)
(* may also return without one.                                              *)
EXTENDS TLC

CONSTANTS Threads,   \* the threads that use the Once
          Null       \* the null `*const Waiter`

ASSUME NullAssumption == Null \notin Threads

VARIABLES
    state_and_queue,  \* [tag: the STATE_MASK bits, queue: the waiter list head]
    pc,               \* where each thread is in call_inner, wait or drop
    ignore_poisoning, \* the argument of call_inner: TRUE for call_once_force
    current,          \* the local copy of state_and_queue 
    next,             \* Waiter.next of a thread's node
    thread,           \* Waiter.thread of a thread's node is Some
    signaled,         \* Waiter.signaled of a thread's node
    set_state_on_drop_to, \* of the WaiterQueue guard; "none" before a run
    unwinding,        \* the closure panicked: drop runs while unwinding
    queue,            \* the local `queue` of WaiterQueue::drop
    next_queue,       \* the local `next` of WaiterQueue::drop
    token             \* thread::park's token of each thread

vars == <<state_and_queue, pc, ignore_poisoning, current, next, thread, signaled,
          set_state_on_drop_to, unwinding, queue, next_queue, token>>

NodePtr == Threads \cup {Null}
Tag == {"INCOMPLETE", "POISONED", "RUNNING", "COMPLETE"}
Outside == {"idle", "returned", "panicked"}
PC == Outside \cup {"load", "exchange", "init", "drop", "walk", "signal", "unpark",
                    "enqueue", "check", "park"}

At(t, l) == pc[t] = l
Goto(t, l) == pc' = [pc EXCEPT ![t] = l]
Word(tag, q) == [tag |-> tag, queue |-> q]

Init ==
    /\ state_and_queue = Word("INCOMPLETE", Null)
    /\ pc = [t \in Threads |-> "idle"]
    /\ ignore_poisoning = [t \in Threads |-> FALSE]
    /\ current = [t \in Threads |-> Word("INCOMPLETE", Null)]
    /\ next = [t \in Threads |-> Null]
    /\ thread = [t \in Threads |-> FALSE]
    /\ signaled = [t \in Threads |-> FALSE]
    /\ set_state_on_drop_to = [t \in Threads |-> "none"]
    /\ unwinding = [t \in Threads |-> FALSE]
    /\ queue = [t \in Threads |-> Null]
    /\ next_queue = [t \in Threads |-> Null]
    /\ token = [t \in Threads |-> FALSE]

nodeVars == <<next, thread, signaled>>
walkVars == <<queue, next_queue>>

(* call_once(f) or call_once_force(f): the fast path `is_completed`, and     *)
(* otherwise the way into call_inner.                                        *)
Call(t, force) ==
    /\ pc[t] \in Outside
    /\ Goto(t, IF state_and_queue.tag = "COMPLETE" THEN "returned" ELSE "load")
    /\ ignore_poisoning' = [ignore_poisoning EXCEPT ![t] = force]
    /\ set_state_on_drop_to' = [set_state_on_drop_to EXCEPT ![t] = "none"]
    /\ UNCHANGED <<state_and_queue, current, nodeVars, unwinding, walkVars, token>>

(* Deviation of After: a poisoned Once is run again by any call.             *)
AfterIgnoringPoison(t, w) ==
    IF w.tag = "COMPLETE" THEN "returned"
    ELSE IF w.tag = "RUNNING" THEN "enqueue"
    ELSE "exchange"

(* The match of call_inner on the word w that was read: COMPLETE returns,    *)
(* POISONED without ignore_poisoning panics, RUNNING goes to wait(), and what *)
(* is left competes for the right to run the closure.                        *)
After(t, w) ==
    IF w.tag = "COMPLETE" THEN "returned"
    ELSE IF w.tag = "POISONED" /\ ~ignore_poisoning[t] THEN "panicked"
    ELSE IF w.tag = "RUNNING" THEN "enqueue"
    ELSE "exchange"

Match(t, w) ==
    /\ Goto(t, After(t, w))
    /\ current' = [current EXCEPT ![t] = w]

(* Deviation of Unchanged: the exchange is a plain store.                    *)
UnchangedAssumed(t) == TRUE

(* What compare_exchange compares: the word still is what the thread read.   *)
Unchanged(t) == state_and_queue = current[t]

(* Deviation of GuardedState: the guard is built without a state to store.   *)
GuardedStateForgotten == "none"

(* The state the WaiterQueue guard stores unless the closure returns.        *)
GuardedState == "POISONED"

(* The loads of call_inner, before the loop and after `wait`.                *)
Load(t) ==
    /\ At(t, "load")
    /\ Match(t, state_and_queue)
    /\ UNCHANGED <<state_and_queue, ignore_poisoning, nodeVars,
                   set_state_on_drop_to, unwinding, walkVars, token>>

(* POISONED | INCOMPLETE: the thread wins the exchange and runs the closure. *)
ExchangeWins(t) ==
    /\ At(t, "exchange") /\ Unchanged(t)
    /\ state_and_queue' = Word("RUNNING", Null)
    /\ set_state_on_drop_to' = [set_state_on_drop_to EXCEPT ![t] = GuardedState]
    /\ Goto(t, "init")
    /\ UNCHANGED <<ignore_poisoning, current, nodeVars, unwinding, walkVars, token>>

(* The exchange fails: round the loop with the value that was found.         *)
ExchangeLoses(t) ==
    /\ At(t, "exchange") /\ ~Unchanged(t)
    /\ Match(t, state_and_queue)
    /\ UNCHANGED <<state_and_queue, ignore_poisoning, nodeVars,
                   set_state_on_drop_to, unwinding, walkVars, token>>

(* The closure returns: after OnceState::poison the guard stores POISONED.   *)
InitReturns(t, to) ==
    /\ At(t, "init")
    /\ set_state_on_drop_to' = [set_state_on_drop_to EXCEPT ![t] = to]
    /\ Goto(t, "drop")
    /\ UNCHANGED <<state_and_queue, ignore_poisoning, current, nodeVars,
                   unwinding, walkVars, token>>

(* The closure panics: the guard is dropped with POISONED still in it.       *)
InitPanics(t) ==
    /\ At(t, "init")
    /\ unwinding' = [unwinding EXCEPT ![t] = TRUE]
    /\ Goto(t, "drop")
    /\ UNCHANGED <<state_and_queue, ignore_poisoning, current, nodeVars,
                   set_state_on_drop_to, walkVars, token>>

(* The waiters that the swap of drop hands to the walk.                      *)
TakenQueue == state_and_queue.queue

(* WaiterQueue::drop: publish the new state and take the whole queue.        *)
DropSwap(t) ==
    /\ At(t, "drop")
    /\ state_and_queue' = Word(set_state_on_drop_to[t], Null)
    /\ queue' = [queue EXCEPT ![t] = TakenQueue]
    /\ Goto(t, "walk")
    /\ UNCHANGED <<ignore_poisoning, current, nodeVars, set_state_on_drop_to,
                   unwinding, next_queue, token>>

(* The walk is over: the call returns, or goes on unwinding.                 *)
WalkEnds(t) ==
    /\ At(t, "walk") /\ queue[t] = Null
    /\ Goto(t, IF unwinding[t] THEN "panicked" ELSE "returned")
    /\ unwinding' = [unwinding EXCEPT ![t] = FALSE]
    /\ UNCHANGED <<state_and_queue, ignore_poisoning, current, nodeVars,
                   set_state_on_drop_to, walkVars, token>>

(* Read `next` and take the thread handle out of the node.                   *)
WalkTake(t) ==
    /\ At(t, "walk") /\ queue[t] # Null
    /\ next_queue' = [next_queue EXCEPT ![t] = next[queue[t]]]
    /\ thread' = [thread EXCEPT ![queue[t]] = FALSE]
    /\ Goto(t, "signal")
    /\ UNCHANGED <<state_and_queue, ignore_poisoning, current, next, signaled,
                   set_state_on_drop_to, unwinding, queue, token>>

(* Store `signaled`: from here on the node may be gone.                      *)
WalkSignal(t) ==
    /\ At(t, "signal")
    /\ signaled' = [signaled EXCEPT ![queue[t]] = TRUE]
    /\ Goto(t, "unpark")
    /\ UNCHANGED <<state_and_queue, ignore_poisoning, current, next, thread,
                   set_state_on_drop_to, unwinding, walkVars, token>>

(* Deviation of Woken: the handle that was taken is not unparked.            *)
WokenNobody(t) == {}

(* The threads that one round of the walk unparks.                           *)
Woken(t) == {queue[t]}

(* queue = next; thread.unpark() on the handle taken from the node.          *)
WalkUnpark(t) ==
    /\ At(t, "unpark")
    /\ token' = [u \in Threads |-> token[u] \/ u \in Woken(t)]
    /\ queue' = [queue EXCEPT ![t] = next_queue[t]]
    /\ next_queue' = [next_queue EXCEPT ![t] = Null]
    /\ Goto(t, "walk")
    /\ UNCHANGED <<state_and_queue, ignore_poisoning, current, nodeVars,
                   set_state_on_drop_to, unwinding>>

(* wait() puts a node in front of the list it has seen.  The node is private *)
(* until this exchange succeeds, so its fields are written here.             *)
Enqueue(t) ==
    /\ At(t, "enqueue") /\ Unchanged(t)
    /\ next' = [next EXCEPT ![t] = current[t].queue]
    /\ thread' = [thread EXCEPT ![t] = TRUE]
    /\ signaled' = [signaled EXCEPT ![t] = FALSE]
    /\ state_and_queue' = Word("RUNNING", t)
    /\ Goto(t, "check")
    /\ UNCHANGED <<ignore_poisoning, current, set_state_on_drop_to, unwinding,
                   walkVars, token>>

(* The exchange of wait() fails: it tries again with the value that was      *)
(* found, or returns to call_inner when nothing runs any more.               *)
EnqueueLoses(t) ==
    /\ At(t, "enqueue") /\ ~Unchanged(t)
    /\ current' = [current EXCEPT ![t] = state_and_queue]
    /\ Goto(t, IF state_and_queue.tag = "RUNNING" THEN "enqueue" ELSE "load")
    /\ UNCHANGED <<state_and_queue, ignore_poisoning, nodeVars,
                   set_state_on_drop_to, unwinding, walkVars, token>>

(* Deviation of Recheck: a waiter that was woken takes the Once for complete. *)
RecheckSkipped == "returned"

(* Where call_inner goes on after wait(): it loads the word again.           *)
Recheck == "load"

(* Deviation of MayLeave: any return from park ends the wait.                *)
MayLeaveWhenWoken(t) == TRUE

(* The condition on which wait() lets its node die.                          *)
MayLeave(t) == signaled[t]

(* while !node.signaled.load(): leave wait(), whose node dies, or park.      *)
CheckSignaled(t) ==
    /\ At(t, "check")
    /\ Goto(t, IF MayLeave(t) THEN Recheck ELSE "park")
    /\ UNCHANGED <<state_and_queue, ignore_poisoning, current, nodeVars,
                   set_state_on_drop_to, unwinding, walkVars, token>>

(* thread::park returns because of an unpark, past or present.               *)
Unparked(t) ==
    /\ At(t, "park") /\ token[t]
    /\ token' = [token EXCEPT ![t] = FALSE]
    /\ Goto(t, "check")
    /\ UNCHANGED <<state_and_queue, ignore_poisoning, current, nodeVars,
                   set_state_on_drop_to, unwinding, walkVars>>

(* thread::park returns for no reason, as its documentation allows.          *)
SpuriousWakeup(t) ==
    /\ At(t, "park")
    /\ Goto(t, "check")
    /\ UNCHANGED <<state_and_queue, ignore_poisoning, current, nodeVars,
                   set_state_on_drop_to, unwinding, walkVars, token>>

(* What a thread inside the Once does by itself, given processor time.       *)
Step(t) ==
    \/ Load(t) \/ ExchangeWins(t) \/ ExchangeLoses(t)
    \/ (\E to \in {"COMPLETE", "POISONED"} : InitReturns(t, to)) \/ InitPanics(t)
    \/ DropSwap(t) \/ WalkEnds(t) \/ WalkTake(t) \/ WalkSignal(t) \/ WalkUnpark(t)
    \/ Enqueue(t) \/ EnqueueLoses(t) \/ CheckSignaled(t) \/ Unparked(t)

Next ==
    \E t \in Threads :
        \/ \E force \in BOOLEAN : Call(t, force)
        \/ SpuriousWakeup(t)
        \/ Step(t)

Spec == Init /\ [][Next]_vars

-----------------------------------------------------------------------------
(* The type of every variable.                                               *)
TypeOK ==
    /\ state_and_queue \in [tag : Tag, queue : NodePtr]
    /\ pc \in [Threads -> PC]
    /\ ignore_poisoning \in [Threads -> BOOLEAN]
    /\ current \in [Threads -> [tag : Tag, queue : NodePtr]]
    /\ next \in [Threads -> NodePtr]
    /\ thread \in [Threads -> BOOLEAN]
    /\ signaled \in [Threads -> BOOLEAN]
    /\ set_state_on_drop_to \in [Threads -> {"none", "POISONED", "COMPLETE"}]
    /\ unwinding \in [Threads -> BOOLEAN]
    /\ queue \in [Threads -> NodePtr]
    /\ next_queue \in [Threads -> NodePtr]
    /\ token \in [Threads -> BOOLEAN]

(* A thread between winning the RUNNING exchange and the swap in drop.       *)
Running(t) == pc[t] \in {"init", "drop"}

(* At most one thread runs a closure, and one does exactly while the word    *)
(* says RUNNING: the comment at once.rs:15 ("at most once") and the          *)
(* assertions at 427 and 497 that the word a runner swaps out is RUNNING.    *)
OneRunner ==
    /\ \A t, u \in Threads : Running(t) /\ Running(u) => t = u
    /\ state_and_queue.tag = "RUNNING" <=> \E t \in Threads : Running(t)

(* A node that is linked: its thread is in wait() and has not been told to   *)
(* leave, so the stack frame that holds the node exists.                     *)
Live(n) == pc[n] \in {"check", "park"} /\ ~signaled[n]

(* WaiterQueue::drop reads `next`, takes `thread` and stores `signaled` only *)
(* in nodes whose thread still is in wait(), and `take().unwrap()` finds the *)
(* handle: the walk never touches a stack frame that is gone (once.rs:501).  *)
WalkTouchesLiveNodes ==
    \A t \in Threads :
        /\ At(t, "walk") /\ queue[t] # Null => Live(queue[t]) /\ thread[queue[t]]
        /\ At(t, "signal") => Live(queue[t])

(* A call that returns has initialisation behind it, unless its own closure  *)
(* asked for POISONED: "it will never return until the one that's running    *)
(* has finished running" (once.rs:16).                                       *)
ReturnsInitialised ==
    \A t \in Threads :
        At(t, "returned") /\ set_state_on_drop_to[t] # "POISONED"
            => state_and_queue.tag = "COMPLETE"

(* COMPLETE is final: no later call, poisoning or enqueue changes the word.  *)
CompleteIsFinal ==
    [][state_and_queue.tag = "COMPLETE" => state_and_queue' = state_and_queue]_vars

(* A poisoned Once leaves that state only through call_once_force; call_once *)
(* panics on it.                                                             *)
PoisonNeedsForce ==
    [][state_and_queue.tag = "POISONED" /\ state_and_queue' # state_and_queue
        => \E t \in Threads : ignore_poisoning[t] /\ At(t, "exchange") /\ pc'[t] = "init"]_vars

(* No lost wakeup: a thread whose node is in a queue leaves wait(), whoever  *)
(* finishes, panics or parks in between.                                     *)
WaitersLeave == \A t \in Threads : (pc[t] \in {"check", "park"}) ~> At(t, "load")

(* The call of a thread as its caller sees it.                               *)
CallOf(t) ==
    IF pc[t] \in Outside THEN pc[t]
    ELSE IF Running(t) THEN "running"
    ELSE IF pc[t] \in {"walk", "signal", "unpark"} THEN "ended"
    ELSE "calling"

Abstract == INSTANCE OnceSpec WITH
    status <- state_and_queue.tag,
    call <- [t \in Threads |-> CallOf(t)],
    forcing <- ignore_poisoning

(* The lock-free implementation has only the behaviours that OnceSpec allows. *)
ImplementsOnceSpec == Abstract!Spec

(* For TLC: the threads are interchangeable.                                 *)
Symmetry == Permutations(Threads)
=============================================================================
