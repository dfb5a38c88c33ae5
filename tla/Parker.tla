------------------------------- MODULE Parker -------------------------------
(* std/src/sys_common/thread_parker/mod.rs: the build takes one of two       *)
(* Parkers, on a futex where the platform has them and otherwise on a Mutex  *)
(* and a Condvar.  Both are the token of park and unpark.                    *)
EXTENDS Integers

CONSTANT Unparkers   \* the threads that call unpark

ASSUME UnparkersAssumption == Unparkers \cap {"owner", "free"} = {}

VARIABLES kind,   \* the Parker of the build: futex or generic
          state, lock, opc, timed, upc

parkerVars == <<kind, state, lock, opc, timed, upc>>

F == INSTANCE FutexParker
G == INSTANCE GenericParker

Futex(A) == kind = "futex" /\ A /\ UNCHANGED <<kind, lock>>
Generic(A) == kind = "generic" /\ A /\ UNCHANGED kind

ParkerInit ==
    \/ kind = "futex" /\ F!Init /\ lock = "free"
    \/ kind = "generic" /\ G!Init

ParkerNext == Futex(F!Next) \/ Generic(G!Next)

ParkerSpec == ParkerInit /\ [][ParkerNext]_parkerVars

(* The steps of a thread that is inside park or unpark and does not sleep.   *)
OwnerStep == Futex(F!OwnerStep) \/ Generic(G!OwnerStep)
UnparkerStep(u) == Futex(F!FutexWake(u)) \/ Generic(G!UnparkerStep(u))

-----------------------------------------------------------------------------
(* The token is there.                                                       *)
Token == IF kind = "futex" THEN state = F!NOTIFIED ELSE state = "NOTIFIED"

(* Neither Parker meets a state it has no case for: the futex word never     *)
(* leaves -1..1, for park's fetch_sub never finds PARKED; the generic Parker *)
(* reaches no "inconsistent park state" panic and its mutex has one holder.  *)
NeverPanics == IF kind = "futex" THEN F!TypeOK ELSE G!TypeOK /\ opc # "panicked"

ParkToken == INSTANCE ParkSpec WITH
    token <- Token,
    owner <- IF opc = "running" THEN "running" ELSE IF timed THEN "park_timeout" ELSE "park"

(* The word of either Parker is a token: park returns only by consuming it,  *)
(* and only park_timeout may leave without.                                  *)
ImplementsParkSpec == ParkToken!Spec

(* No lost wakeup: with the token available, a thread in park or             *)
(* park_timeout returns, even if unpark ran between the flag being set and   *)
(* the wait on the futex or the condvar.                                     *)
TokenEndsPark == (Token /\ opc # "running") ~> (opc = "running")
=============================================================================
