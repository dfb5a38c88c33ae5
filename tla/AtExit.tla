------------------------------- MODULE AtExit -------------------------------
(* sys_common/at_exit_imp.rs, and who calls it: main's return and            *)
(* process::exit go through the Once of sys_common::cleanup and then end the *)
(* process.                                                                  *)
EXTENDS Integers, Sequences, FiniteSets

CONSTANTS Callers,    \* the threads that end the process
          Closures, ITERS

ASSUME SomeIterations == ITERS \in Nat \ {0}

VARIABLES
    queue,            \* what QUEUE points to; <<>> is null
    done,             \* QUEUE is DONE
    batch,            \* the queue that cleanup runs, from the closure in hand on
    iter,             \* cleanup's i
    told,             \* what push has said of each closure: none, TRUE or FALSE
    ran,              \* how often each closure has been run
    cleanupOnce,      \* CLEANUP
    cpc,              \* where each caller is
    exited

exitVars == <<queue, done, batch, iter, told, ran, cleanupOnce, cpc, exited>>

ExitInit ==
    /\ queue = <<>> /\ done = FALSE /\ batch = <<>> /\ iter = 1 /\ exited = FALSE
    /\ told = [c \in Closures |-> "none"] /\ ran = [c \in Closures |-> 0]
    /\ cleanupOnce = "incomplete" /\ cpc = [t \in Callers |-> "idle"]

CGo(t, at) == cpc' = [cpc EXCEPT ![t] = at]

(* push, by any thread or from a closure that cleanup runs, with LOCK held.  *)
Push(c) ==
    /\ ~exited /\ told[c] = "none"
    /\ told' = [told EXCEPT ![c] = IF done THEN "refused" ELSE "accepted"]
    /\ queue' = IF done THEN queue ELSE Append(queue, c)
    /\ UNCHANGED <<done, batch, iter, ran, cleanupOnce, cpc, exited>>

(* sys_common::cleanup: the first one in runs it, the others wait.           *)
CallCleanup(t) ==
    /\ ~exited /\ cpc[t] = "idle"
    /\ IF cleanupOnce = "incomplete" THEN cleanupOnce' = "running" /\ CGo(t, "swap")
       ELSE CGo(t, "once") /\ UNCHANGED cleanupOnce
    /\ UNCHANGED <<queue, done, batch, iter, told, ran, exited>>

OnceEnds(t) ==
    /\ ~exited /\ cpc[t] = "once" /\ cleanupOnce = "complete"
    /\ CGo(t, "end")
    /\ UNCHANGED <<queue, done, batch, iter, told, ran, cleanupOnce, exited>>

(* Deviation of LastRound: one round too early.                              *)
LastRoundOff == iter = ITERS - 1

LastRound == iter = ITERS

(* at_exit_imp::cleanup: take the queue with LOCK held, ...                  *)
SwapQueue(t) ==
    /\ ~exited /\ cpc[t] = "swap"
    /\ batch' = queue /\ queue' = <<>> /\ done' = LastRound
    /\ CGo(t, IF done THEN "panicked" ELSE "run")
    /\ UNCHANGED <<iter, told, ran, cleanupOnce, exited>>

(* ... and run it without.                                                   *)
RunClosure(t) ==
    /\ ~exited /\ cpc[t] = "run" /\ batch # <<>>
    /\ ran' = [ran EXCEPT ![Head(batch)] = @ + 1] /\ batch' = Tail(batch)
    /\ UNCHANGED <<queue, done, iter, told, cleanupOnce, cpc, exited>>

EndRound(t) ==
    /\ ~exited /\ cpc[t] = "run" /\ batch = <<>>
    /\ iter' = iter + 1
    /\ IF iter < ITERS THEN CGo(t, "swap") /\ UNCHANGED cleanupOnce
       ELSE CGo(t, "end") /\ cleanupOnce' = "complete"
    /\ UNCHANGED <<queue, done, batch, told, ran, exited>>

(* os::exit, or the return from lang_start.                                  *)
Exit(t) ==
    /\ ~exited /\ cpc[t] = "end"
    /\ exited' = TRUE
    /\ UNCHANGED <<queue, done, batch, iter, told, ran, cleanupOnce, cpc>>

ExitStep(t) == CallCleanup(t) \/ OnceEnds(t) \/ SwapQueue(t) \/ RunClosure(t) \/ EndRound(t) \/ Exit(t)

ExitNext == (\E t \in Callers : ExitStep(t)) \/ \E c \in Closures : Push(c)
=============================================================================
