------------------------------ MODULE BpfLocks ------------------------------
(* Mutex and RWLock of sys/bpf, where there is one thread: a flag, and a     *)
(* count that is negative while there is a writer.  The thread may ask for   *)
(* a lock it has; then it aborts or is told so, and it may forget guards.    *)
EXTENDS Integers

CONSTANTS ISIZE_MAX,  \* the largest mode; one more wraps around
          MaxTurns    \* bound: how many calls there are

VARIABLES
    flag, mode,       \* Mutex::inner, RWLock::mode
    guards,           \* the guards there are: mutex, read, write
    aborted, turns

bpfVars == <<flag, mode, guards, aborted, turns>>

BpfInit ==
    /\ flag = FALSE /\ mode = 0 /\ guards = [mutex |-> 0, read |-> 0, write |-> 0]
    /\ aborted = FALSE /\ turns = 0

(* An isize.                                                                 *)
Wrap(n) == ((n + ISIZE_MAX + 1) % (2 * ISIZE_MAX + 2)) - ISIZE_MAX - 1

Turn == ~aborted /\ turns < MaxTurns /\ turns' = turns + 1
Have(g) == guards' = [guards EXCEPT ![g] = @ + 1]
Drop(g) == guards[g] > 0 /\ guards' = [guards EXCEPT ![g] = @ - 1]

(* What a call that cannot have its lock does: lock, read and write abort,   *)
(* the others say so.                                                        *)
Refuse(try) == aborted' = ~try /\ UNCHANGED <<flag, mode, guards>>

MutexLock(try) ==
    /\ Turn
    /\ \/ ~flag /\ flag' = TRUE /\ Have("mutex") /\ UNCHANGED <<mode, aborted>>
       \/ flag /\ Refuse(try)

MutexUnlock == Turn /\ Drop("mutex") /\ flag' = FALSE /\ UNCHANGED <<mode, aborted>>

(* Deviation of Readable: off by one.                                        *)
ReadableOff == mode >= -1

Readable == mode >= 0

Read(try) ==
    /\ Turn
    /\ \/ Readable /\ mode' = Wrap(mode + 1) /\ Have("read") /\ UNCHANGED <<flag, aborted>>
       \/ ~Readable /\ Refuse(try)

Write(try) ==
    /\ Turn
    /\ \/ mode = 0 /\ mode' = -1 /\ Have("write") /\ UNCHANGED <<flag, aborted>>
       \/ mode # 0 /\ Refuse(try)

ReadUnlock == Turn /\ Drop("read") /\ mode' = Wrap(mode - 1) /\ UNCHANGED <<flag, aborted>>

WriteUnlock == Turn /\ Drop("write") /\ mode' = Wrap(mode + 1) /\ UNCHANGED <<flag, aborted>>

BpfNext ==
    \/ \E try \in BOOLEAN : MutexLock(try) \/ Read(try) \/ Write(try)
    \/ MutexUnlock \/ ReadUnlock \/ WriteUnlock
=============================================================================
