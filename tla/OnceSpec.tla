------------------------------ MODULE OnceSpec ------------------------------
(* What std::sync::Once promises its callers (the documentation of call_once *)
(* and call_once_force in std/src/sync/once.rs): one closure runs at a time, *)
(* a completed Once is never run again, and a call ends when the Once is     *)
(* complete, when it is poisoned and the call does not force, or after a run *)
(* of its own.                                                               *)
CONSTANT Threads

VARIABLES status,  \* the state of the Once
          call,    \* the progress of each thread's call
          forcing  \* the threads whose last call is call_once_force

vars == <<status, call, forcing>>

Init ==
    /\ status = "INCOMPLETE"
    /\ call = [t \in Threads |-> "idle"]
    /\ forcing = [t \in Threads |-> FALSE]

Progress(t, from, to) == call[t] \in from /\ call' = [call EXCEPT ![t] = to]

Call(t, force) ==
    /\ Progress(t, {"idle", "returned", "panicked"},
                IF status = "COMPLETE" THEN "returned" ELSE "calling")
    /\ forcing' = [forcing EXCEPT ![t] = force]
    /\ UNCHANGED status

Begin(t) ==
    /\ Progress(t, {"calling"}, "running")
    /\ status = "INCOMPLETE" \/ (status = "POISONED" /\ forcing[t])
    /\ status' = "RUNNING"
    /\ UNCHANGED forcing

End(t, to) ==
    /\ Progress(t, {"running"}, "ended")
    /\ status' = to
    /\ UNCHANGED forcing

Return(t) ==
    /\ call[t] = "ended" \/ status = "COMPLETE"
    /\ Progress(t, {"calling", "ended"}, "returned")
    /\ UNCHANGED <<status, forcing>>

Panic(t) ==
    /\ call[t] = "ended" \/ (status = "POISONED" /\ ~forcing[t])
    /\ Progress(t, {"calling", "ended"}, "panicked")
    /\ UNCHANGED <<status, forcing>>

Next ==
    \E t \in Threads :
        \/ \E force \in BOOLEAN : Call(t, force)
        \/ Begin(t) \/ Return(t) \/ Panic(t)
        \/ \E to \in {"COMPLETE", "POISONED"} : End(t, to)

Spec == Init /\ [][Next]_vars
=============================================================================
