------------------------------ MODULE ParkSpec ------------------------------
(* What thread::park, park_timeout and unpark promise (the Parker of         *)
(* std/src/sys_common/thread_parker): a token that unpark makes available    *)
(* and that park consumes.  park returns only with the token; park_timeout   *)
(* may give up without it.                                                   *)
VARIABLES token,  \* the token is available
          owner   \* the thread is running, in park or in park_timeout

vars == <<token, owner>>

Init == token = FALSE /\ owner = "running"

Unpark == token' = TRUE /\ UNCHANGED owner

(* A park that finds the token returns at once.                              *)
ParkReady ==
    /\ owner = "running" /\ token
    /\ token' = FALSE /\ UNCHANGED owner

Park ==
    /\ owner = "running"
    /\ owner' \in {"park", "park_timeout"} /\ UNCHANGED token

Return ==
    /\ owner # "running" /\ token
    /\ token' = FALSE /\ owner' = "running"

GiveUp ==
    /\ owner = "park_timeout" /\ ~token
    /\ owner' = "running" /\ UNCHANGED token

Next == Unpark \/ ParkReady \/ Park \/ Return \/ GiveUp

Spec == Init /\ [][Next]_vars
=============================================================================
