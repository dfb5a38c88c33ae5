------------------------------ MODULE MCParker ------------------------------
(* What waits by parking must be woken: both Parkers with three threads that *)
(* unpark their owner, and two threads in the wait queue of a Once.  A       *)
(* behaviour is of one flavour and leaves the variables of the other alone.  *)
EXTENDS Parker, Once

VARIABLE flavour

allVars == <<flavour, parkerVars, vars>>

Parks(A) == flavour = "park" /\ A /\ UNCHANGED <<flavour, vars>>
Calls(A) == flavour = "once" /\ A /\ UNCHANGED <<flavour, parkerVars>>

WaitInit ==
    /\ ParkerInit /\ Init
    /\ flavour \in {"park", "once"} /\ (flavour = "once" => kind = "futex")

WaitNext == Parks(ParkerNext) \/ Calls(Next)

(* Threads inside park, unpark or a Once keep running unless they sleep, the *)
(* closure of a Once ends, and the mutex is not taken away from the same     *)
(* thread for ever.  Nobody is obliged to make a call, and neither the       *)
(* kernel nor the condvar to end a wait by itself.                           *)
WaitSpec ==
    /\ WaitInit /\ [][WaitNext]_allVars
    /\ WF_allVars(Parks(OwnerStep)) /\ SF_allVars(Parks(Generic(G!Lock)))
    /\ \A u \in Unparkers :
          WF_allVars(Parks(UnparkerStep(u))) /\ SF_allVars(Parks(Generic(G!UnparkLock(u))))
    /\ \A t \in Threads : WF_allVars(Calls(Step(t)))
=============================================================================
