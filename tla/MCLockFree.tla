----------------------------- MODULE MCLockFree -----------------------------
(* What decides by atomic counts and words alone who runs, who frees and who *)
(* may still look: a Once with its list of waiters, and an Arc with its      *)
(* Weaks.  A behaviour is of one of them and leaves the other as it was      *)
(* made.                                                                     *)
EXTENDS Arc, Once

VARIABLE part

bothVars == <<part, arcVars, vars>>

OfArc(A) == part = "arc" /\ A /\ UNCHANGED <<part, vars>>
OfOnce(A) == part = "once" /\ A /\ UNCHANGED <<part, arcVars>>

(* A Once is looked at beside one of the initial states of an Arc.           *)
BothInit ==
    /\ part \in {"arc", "once"} /\ ArcInit /\ Init
    /\ part = "once" => kind = [h \in Handles |-> IF h = CHOOSE i \in Handles : TRUE THEN "strong" ELSE "none"]

BothNext == OfArc(ArcNext) \/ OfOnce(Next)

BothSpec == BothInit /\ [][BothNext]_bothVars
=============================================================================
