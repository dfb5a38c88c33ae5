------------------------------ MODULE Teardown ------------------------------
(* How a thread ends, and how the process does; `part' says which is looked  *)
(* at.                                                                       *)
EXTENDS ThreadLocal, AtExit

VARIABLE part

vars == <<part, tlsVars, exitVars>>

Init == part \in {"thread", "process"} /\ TlsInit /\ ExitInit

OfThread(A) == part = "thread" /\ A /\ UNCHANGED <<part, exitVars>>
OfProcess(A) == part = "process" /\ A /\ UNCHANGED <<part, tlsVars>>

Next == OfThread(TlsNext) \/ OfProcess(ExitNext)

Spec == Init /\ [][Next]_vars

(* Threads go on, initialisers and destructors end, and whoever waits for    *)
(* INIT_LOCK gets it.                                                        *)
FairSpec ==
    /\ Spec
    /\ \A t \in Threads : WF_vars(OfThread(TlsStep(t) \/ InitEnds(t) \/ DtorEnds(t)))

-----------------------------------------------------------------------------
(* The threads agree on one key whichever of them wins, it is never 0 nor    *)
(* destroyed, and no other key is left behind.                               *)
OneKey ==
    /\ key # 0 => key \in live
    /\ \A t \in Threads : pc[t] \in {"register", "dtors"} \/ slot[t] # <<>> => key # 0
    /\ live \ {key, 0} = {mine[t] : t \in Threads} \ {0}
    /\ 0 \in live <=> \E t \in Threads : pc[t] \in {"again", "destroy"}
    /\ \A t, u \in Threads : mine[t] # 0 => mine[t] # key /\ (mine[u] = mine[t] => t = u)

(* How often l's destructor is still to be run by t.                         *)
Ahead(t, l) ==
    Cardinality({i \in 1 .. Len(slot[t]) : slot[t][i] = l})
    + Cardinality({i \in 1 .. Len(running[t]) : running[t][i] = l})

(* A value has its destructor ahead of it, once; no value is there, to be    *)
(* handed out, while or after its destructor runs; and none is left when the *)
(* thread has ended, whatever its destructors have initialised meanwhile.    *)
DestroyedOnce ==
    \A t \in Threads, l \in Locals :
        /\ Ahead(t, l) = IF dtor_state[t][l] = "Registered" THEN 1 ELSE 0
        /\ inner[t][l] => dtor_state[t][l] = "Registered"
        /\ pc[t] = "ended" => ~inner[t][l] /\ Ahead(t, l) = 0

(* The loop of run_dtors ends, although destructors register others.         *)
EveryThreadEnds == \A t \in Threads : (pc[t] = "exit") ~> (pc[t] = "ended")

(* A closure that at_exit accepted is run, exactly once, before the process  *)
(* ends; one it refused is never run.                                        *)
AcceptedRun ==
    /\ \A t \in Callers : cpc[t] # "panicked"
    /\ \A c \in Closures :
        ran[c] + Cardinality({i \in 1 .. Len(queue \o batch) : (queue \o batch)[i] = c})
            = IF told[c] = "accepted" THEN 1 ELSE 0
    /\ exited => queue \o batch = <<>>
=============================================================================
