------------------------------- MODULE Queues -------------------------------
(* The two queues of std::sync::mpsc.  A channel has one of them, that of    *)
(* the stream packet or that of the shared packet.                           *)
EXTENDS Naturals, TLC

CONSTANTS Values,      \* what is pushed
          Pushers,     \* the threads that push to the shared packet's queue
          Nodes,       \* the addresses the allocator hands out
          Null,
          CacheBound,  \* cache_bound of the stream packet's queue
          MaxLen       \* bound: values in it

(* A null pointer is not a node, and None is not a value.                    *)
ASSUME NullAssumption == Null \notin Nodes /\ Null \notin Values

VARIABLES flavour,
          next, value, live, head, tail, pnode, cnext, cpc, ppc, ret,
          cached, first, tail_copy, pval, tail_prev, cached_nodes, ctail, prev

spsc == <<cached, first, tail_copy, pval, tail_prev, cached_nodes, ctail>>
vars == <<flavour, next, value, live, head, tail, pnode, cnext, cpc, ppc, ret, spsc, prev>>

Spsc == INSTANCE SpscQueue
Mpsc == INSTANCE MpscQueue

Init ==
    \/ flavour = "stream" /\ Spsc!Init /\ prev = Null
    \/ /\ flavour = "shared" /\ Mpsc!Init
       /\ cached = Null /\ first = Null /\ tail_copy = Null /\ pval = Null
       /\ tail_prev = Null /\ cached_nodes = 0 /\ ctail = Null

Next ==
    \/ flavour = "stream" /\ Spsc!Next /\ UNCHANGED <<flavour, prev>>
    \/ flavour = "shared" /\ Mpsc!Next /\ UNCHANGED <<flavour, spsc>>

Spec == Init /\ [][Next]_vars

Symmetry == Permutations(Nodes) \cup Permutations(Values) \cup Permutations(Pushers)

(* In the queue of the stream packet push never writes a node that pop still *)
(* uses, though it works from a stale copy of pop's position.                *)
ReuseIsSafe == flavour = "stream" => Spsc!ReuseIsSafe

(* In the queue of the shared packet no push stores into a node that pop has *)
(* freed.                                                                    *)
NoUseAfterFree == flavour = "shared" => Mpsc!NoUseAfterFree

(* Dropping either queue gives back every node it ever allocated, those of   *)
(* the stream's cache included, and until then every variable has its type.  *)
NothingLeaks ==
    /\ flavour = "stream" => Spsc!TypeOK /\ Spsc!NothingLeaks
    /\ flavour = "shared" => Mpsc!TypeOK /\ Mpsc!NothingLeaks

(* Both are FIFOs: pop finds nothing only when nothing was pushed, and       *)
(* Inconsistent only when something was.                                     *)
Contents == IF flavour = "stream" THEN Spsc!Contents ELSE Mpsc!Contents
Fifo == INSTANCE FifoSpec WITH queue <- Contents
ImplementsFifo == Fifo!Spec
=============================================================================
