----------------------------- MODULE ThreadLocal ----------------------------
(* Thread-local values with destructors (thread/local.rs, mod fast), the     *)
(* list of destructors that each thread keeps under the operating system's   *)
(* key DTORS (sys_common/thread_local_dtor.rs), and how the threads agree on *)
(* that key (sys_common/thread_local_key.rs).  User code runs where pc is    *)
(* "user": in the thread itself, in an initialiser or in a destructor, as    *)
(* the top of its stack says.                                                *)
EXTENDS Integers, Sequences, FiniteSets

CONSTANTS Threads, Locals,
          OsKeys,     \* the keys the operating system can give out; 0 is one
          MaxDepth,   \* bound: how deep initialisers nest
          Nobody

ASSUME ZeroIsAKey == 0 \in OsKeys
ASSUME NobodyIsNoThread == Nobody \notin Threads
ASSUME SomeLocals == Locals # {}

VARIABLES
    synchronized,     \* requires_synchronized_create()
    key,              \* StaticKey::key, 0 until there is one
    live,             \* the keys that exist
    initLock,         \* who has INIT_LOCK
    mine,             \* what a thread in lazy_init has created: key1 or key2
    slot,             \* the list each thread has under DTORS; <<>> is null
    running,          \* what is left of the list that run_dtors goes through
    inner,            \* LazyKeyInner is Some
    dtor_state,
    stack,            \* <<"init", l>> and <<"dtor", l>>: user code called from here
    target,           \* the local whose destructor is being registered
    pc

keyVars == <<synchronized, key, live, initLock, mine>>
localVars == <<slot, running, inner, dtor_state, stack, target>>
tlsVars == <<keyVars, localVars, pc>>

TlsInit ==
    /\ synchronized \in BOOLEAN
    /\ key = 0 /\ live = {} /\ initLock = Nobody
    /\ mine = [t \in Threads |-> 0]
    /\ slot = [t \in Threads |-> <<>>] /\ running = [t \in Threads |-> <<>>]
    /\ inner = [t \in Threads |-> [l \in Locals |-> FALSE]]
    /\ dtor_state = [t \in Threads |-> [l \in Locals |-> "Unregistered"]]
    /\ stack = [t \in Threads |-> <<>>]
    /\ target = [t \in Threads |-> CHOOSE l \in Locals : TRUE]
    /\ pc = [t \in Threads |-> "user"]

Go(t, at) == pc' = [pc EXCEPT ![t] = at]
Has(t, k) == mine' = [mine EXCEPT ![t] = k]

-----------------------------------------------------------------------------
(* StaticKey::key                                                            *)
LoadKey(t) ==
    /\ pc[t] = "key"
    /\ Go(t, IF key # 0 THEN "register" ELSE IF synchronized THEN "lock" ELSE "create")
    /\ UNCHANGED <<keyVars, localVars>>

(* The system's create: any key that is not in use.                          *)
Create(t) == \E k \in OsKeys \ live : live' = live \cup {k} /\ Has(t, k)

(* lazy_init: a first key, which may be 0; ...                               *)
CreateFirst(t) ==
    /\ pc[t] = "create" /\ Create(t)
    /\ Go(t, IF mine'[t] # 0 THEN "exchange" ELSE "again")
    /\ UNCHANGED <<synchronized, key, initLock, localVars>>

(* ... then a second one, ...                                                *)
CreateAgain(t) ==
    /\ pc[t] = "again" /\ Create(t)
    /\ Go(t, "destroy")
    /\ UNCHANGED <<synchronized, key, initLock, localVars>>

(* Deviation of DestroyFirst: the first key is left alone.                   *)
DestroyFirstNot(t) ==
    /\ pc[t] = "destroy" /\ Go(t, "exchange")
    /\ UNCHANGED <<keyVars, localVars>>

(* ... and the first, 0, is destroyed.                                       *)
DestroyFirst(t) ==
    /\ pc[t] = "destroy"
    /\ live' = live \ {0} /\ Go(t, "exchange")
    /\ UNCHANGED <<synchronized, key, initLock, mine, localVars>>

(* compare_exchange: the first thread's key is everyone's, ...               *)
Exchange(t) ==
    /\ pc[t] = "exchange"
    /\ IF key = 0 THEN key' = mine[t] /\ Has(t, 0) /\ Go(t, "register")
       ELSE Go(t, "lost") /\ UNCHANGED <<key, mine>>
    /\ UNCHANGED <<synchronized, live, initLock, localVars>>

(* ... and the others destroy theirs.                                        *)
DestroyMine(t) ==
    /\ pc[t] = "lost"
    /\ live' = live \ {mine[t]} /\ Has(t, 0) /\ Go(t, "register")
    /\ UNCHANGED <<synchronized, key, initLock, localVars>>

(* Where creation is synchronized (Windows, where no key is 0): lock and     *)
(* look again, create, store and unlock.                                     *)
LockInit(t) ==
    /\ pc[t] = "lock" /\ initLock = Nobody
    /\ IF key = 0 THEN initLock' = t /\ Go(t, "synccreate") ELSE UNCHANGED initLock /\ Go(t, "register")
    /\ UNCHANGED <<synchronized, key, live, mine, localVars>>

SyncCreate(t) ==
    /\ pc[t] = "synccreate" /\ Create(t) /\ mine'[t] # 0
    /\ Go(t, "store")
    /\ UNCHANGED <<synchronized, key, initLock, localVars>>

StoreKey(t) ==
    /\ pc[t] = "store"
    /\ key' = mine[t] /\ Has(t, 0) /\ initLock' = Nobody /\ Go(t, "register")
    /\ UNCHANGED <<synchronized, live, localVars>>

-----------------------------------------------------------------------------
Enter(t, frame) == stack' = [stack EXCEPT ![t] = Append(@, frame)]
Top(t) == stack[t][Len(stack[t])]
Return(t) == stack' = [stack EXCEPT ![t] = SubSeq(@, 1, Len(@) - 1)]
In(t, frame) == pc[t] = "user" /\ stack[t] # <<>> /\ Top(t)[1] = frame

(* LocalKey::with of a local that has no value: try_initialize.  (One that   *)
(* has a value is handed out, and one whose destructor has begun is refused; *)
(* neither changes anything.)                                                *)
Access(t, l) ==
    /\ pc[t] = "user" /\ Len(stack[t]) < MaxDepth /\ ~inner[t][l]
    /\ \/ /\ dtor_state[t][l] = "Unregistered"
          /\ target' = [target EXCEPT ![t] = l] /\ Go(t, "key")
          /\ UNCHANGED stack
       \/ /\ dtor_state[t][l] = "Registered"
          /\ Enter(t, <<"init", l>>)
          /\ UNCHANGED <<target, pc>>
    /\ UNCHANGED <<keyVars, slot, running, inner, dtor_state>>

(* register_dtor_fallback, once the key is known, and try_register_dtor.     *)
Register(t) ==
    /\ pc[t] = "register"
    /\ slot' = [slot EXCEPT ![t] = Append(@, target[t])]
    /\ dtor_state' = [dtor_state EXCEPT ![t][target[t]] = "Registered"]
    /\ Enter(t, <<"init", target[t]>>) /\ Go(t, "user")
    /\ UNCHANGED <<keyVars, running, inner, target>>

(* LazyKeyInner::initialize: the value is stored once init has returned, ... *)
InitEnds(t) ==
    /\ In(t, "init")
    /\ inner' = [inner EXCEPT ![t][Top(t)[2]] = TRUE] /\ Return(t)
    /\ UNCHANGED <<keyVars, slot, running, dtor_state, target, pc>>

(* ... and not at all if it panics.                                          *)
InitPanics(t) ==
    /\ In(t, "init") /\ Return(t)
    /\ UNCHANGED <<keyVars, slot, running, inner, dtor_state, target, pc>>

-----------------------------------------------------------------------------
(* The thread ends: the system takes DTORS' value and calls run_dtors with   *)
(* it, until there is none.                                                  *)
ThreadEnds(t) ==
    /\ pc[t] = "user" /\ stack[t] = <<>>
    /\ Go(t, "exit")
    /\ UNCHANGED <<keyVars, localVars>>

OsExit(t) ==
    /\ pc[t] = "exit"
    /\ IF slot[t] = <<>> THEN Go(t, "ended") /\ UNCHANGED <<slot, running>>
       ELSE /\ running' = [running EXCEPT ![t] = slot[t]] /\ slot' = [slot EXCEPT ![t] = <<>>]
            /\ Go(t, "dtors")
    /\ UNCHANGED <<keyVars, inner, dtor_state, stack, target>>

(* Deviation of AfterDrop: a local may be initialised again.                 *)
AfterDropAnew == "Unregistered"

AfterDrop == "RunningOrHasRun"

(* Deviation of Taken: the value is dropped where it is.                     *)
TakenNot(t, l) == inner

(* LazyKeyInner::take                                                        *)
Taken(t, l) == [inner EXCEPT ![t][l] = FALSE]

(* run_dtors' inner loop: destroy_value for the next local, whose destructor *)
(* then runs if it has a value.                                              *)
DestroyValue(t) ==
    /\ pc[t] = "dtors" /\ running[t] # <<>>
    /\ LET l == Head(running[t]) IN
       /\ inner' = Taken(t, l)
       /\ dtor_state' = [dtor_state EXCEPT ![t][l] = AfterDrop]
       /\ IF inner[t][l] THEN Enter(t, <<"dtor", l>>) /\ Go(t, "user") ELSE UNCHANGED <<stack, pc>>
    /\ running' = [running EXCEPT ![t] = Tail(@)]
    /\ UNCHANGED <<keyVars, slot, target>>

DtorEnds(t) ==
    /\ In(t, "dtor") /\ Return(t) /\ Go(t, "dtors")
    /\ UNCHANGED <<keyVars, slot, running, inner, dtor_state, target>>

(* Deviation of Reload: one list is enough.                                  *)
ReloadNot(t) == FALSE

(* Whether run_dtors' outer loop goes round again.                           *)
Reload(t) == slot[t] # <<>>

NextList(t) ==
    /\ pc[t] = "dtors" /\ running[t] = <<>>
    /\ IF Reload(t) THEN running' = [running EXCEPT ![t] = slot[t]] /\ UNCHANGED pc
       ELSE Go(t, "exit") /\ UNCHANGED running
    /\ slot' = [slot EXCEPT ![t] = <<>>]
    /\ UNCHANGED <<keyVars, inner, dtor_state, stack, target>>

TlsStep(t) ==
    \/ LoadKey(t) \/ CreateFirst(t) \/ CreateAgain(t) \/ DestroyFirst(t) \/ Exchange(t) \/ DestroyMine(t)
    \/ LockInit(t) \/ SyncCreate(t) \/ StoreKey(t)
    \/ Register(t) \/ OsExit(t) \/ DestroyValue(t) \/ NextList(t)

TlsNext ==
    \E t \in Threads :
        \/ TlsStep(t) \/ InitEnds(t) \/ InitPanics(t) \/ DtorEnds(t) \/ ThreadEnds(t)
        \/ \E l \in Locals : Access(t, l)
=============================================================================
