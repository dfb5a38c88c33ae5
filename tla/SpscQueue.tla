------------------------------ MODULE SpscQueue -----------------------------
(* spsc_queue::Queue (std/src/sync/mpsc/spsc_queue.rs): a linked list that   *)
(* one thread pushes to and one thread pops from.  Popped nodes stay in the  *)
(* list, between `first` and `tail_prev`, and are used again by push.  The   *)
(* value of a node is a plain cell; an access to it and an access to a       *)
(* shared pointer are steps of their own.                                    *)
EXTENDS Sequences, FiniteSets, Naturals

CONSTANTS Values,      \* what is pushed
          Nodes,       \* the addresses the allocator hands out
          Null,
          CacheBound,  \* cache_bound
          MaxLen       \* bound: values in the queue

VARIABLES next, value, cached,     \* the fields of each node
          live,                    \* the nodes that are allocated
          head, first, tail_copy,  \* Producer
          ppc, pnode, pval,        \* push: where it is, its node, its value
          tail, tail_prev, cached_nodes,  \* Consumer
          cpc, ctail, cnext,       \* pop: where it is, its locals tail and next
          ret                      \* what the last pop returned

node == <<next, value, cached, live>>
producer == <<head, first, tail_copy, ppc, pnode, pval>>
consumer == <<tail, tail_prev, cached_nodes, cpc, ctail, cnext, ret>>
vars == <<node, producer, consumer>>

(* The nodes from n on, in the order of the list.                            *)
Chain(n) ==
    LET walk[m \in Nodes \cup {Null}] == IF m = Null THEN <<>> ELSE <<m>> \o walk[next[m]]
    IN  walk[n]
Members(s) == {s[i] : i \in DOMAIN s}

(* Two nodes: an unused one in front, and the sentinel.                      *)
Init ==
    \E n1 \in Nodes : \E n2 \in Nodes \ {n1} :
        /\ next = [n \in Nodes |-> IF n = n1 THEN n2 ELSE Null]
        /\ value = [n \in Nodes |-> Null] /\ cached = [n \in Nodes |-> FALSE]
        /\ live = {n1, n2}
        /\ head = n2 /\ first = n1 /\ tail_copy = n1
        /\ tail = n2 /\ tail_prev = n1 /\ cached_nodes = 0
        /\ ppc = "idle" /\ pnode = Null /\ pval = Null
        /\ cpc = "idle" /\ ctail = Null /\ cnext = Null /\ ret = "none"

-----------------------------------------------------------------------------
(* alloc: the first node of the list, if it is not the last one released.    *)
Reuse(limit) ==
    /\ first # limit
    /\ pnode' = first /\ first' = next[first] /\ tail_copy' = limit
    /\ UNCHANGED node

(* alloc: otherwise a new node.                                              *)
Allocate(limit) ==
    /\ first = limit
    /\ \E n \in Nodes \ live : /\ pnode' = n
                               /\ live' = live \cup {n}
                               /\ next' = [next EXCEPT ![n] = Null]
                               /\ value' = [value EXCEPT ![n] = Null]
                               /\ cached' = [cached EXCEPT ![n] = FALSE]
    /\ tail_copy' = limit /\ UNCHANGED first

(* Deviation of Limit: the consumer's tail instead of tail_prev.             *)
LimitTail == IF first # tail_copy THEN tail_copy ELSE tail

(* How far alloc may take nodes: to its copy of tail_prev, refreshed when    *)
(* that leaves nothing to take.                                              *)
Limit == IF first # tail_copy THEN tail_copy ELSE tail_prev

(* push begins with alloc.                                                   *)
PushAlloc(v) ==
    /\ ppc = "idle" /\ Len(Chain(tail)) <= MaxLen
    /\ ppc' = "fill" /\ pval' = v
    /\ Reuse(Limit) \/ Allocate(Limit)
    /\ UNCHANGED <<head, consumer>>

(* assert!(value.is_none()), and the plain writes to the node.               *)
PushFill ==
    /\ ppc = "fill"
    /\ ppc' = IF value[pnode] = Null THEN "link" ELSE "panicked"
    /\ value' = [value EXCEPT ![pnode] = pval]
    /\ next' = [next EXCEPT ![pnode] = Null]
    /\ UNCHANGED <<cached, live, head, first, tail_copy, pnode, pval, consumer>>

(* The node is linked behind head, and becomes head.                         *)
PushLink ==
    /\ ppc = "link"
    /\ next' = [next EXCEPT ![head] = pnode]
    /\ head' = pnode /\ ppc' = "idle" /\ pnode' = Null /\ pval' = Null
    /\ UNCHANGED <<value, cached, live, first, tail_copy, consumer>>

-----------------------------------------------------------------------------
(* A null tail.next is an empty queue.                                       *)
SeesEmpty == next[tail] = Null

(* pop loads tail.next.                                                      *)
PopLoad ==
    /\ cpc = "idle"
    /\ IF SeesEmpty
       THEN ret' = "Empty" /\ UNCHANGED <<cpc, ctail, cnext>>
       ELSE cpc' = "take" /\ ctail' = tail /\ cnext' = next[tail] /\ UNCHANGED ret
    /\ UNCHANGED <<node, producer, tail, tail_prev, cached_nodes>>

(* value.take() leaves None in the node.                                     *)
Taken == [value EXCEPT ![cnext] = Null]

(* assert!(value.is_some()); the value is taken, and tail moves on.          *)
PopTake ==
    /\ cpc = "take"
    /\ cpc' = IF value[cnext] # Null THEN "release" ELSE "panicked"
    /\ ret' = value[cnext]
    /\ value' = Taken /\ tail' = cnext
    /\ UNCHANGED <<next, cached, live, producer, tail_prev, cached_nodes, ctail, cnext>>

(* The old sentinel goes to the cache: always when there is no bound,        *)
(* otherwise when it is marked already or the count allows marking it.  The  *)
(* count is stored back as it was read.                                      *)
Cacheable == CacheBound = 0 \/ cached[ctail] \/ cached_nodes < CacheBound

PopRelease ==
    /\ cpc = "release"
    /\ IF Cacheable
       THEN /\ tail_prev' = ctail
            /\ cached' = [cached EXCEPT ![ctail] = @ \/ CacheBound # 0]
            /\ cached_nodes' = cached_nodes
            /\ UNCHANGED <<next, live>>
       ELSE /\ next' = [next EXCEPT ![tail_prev] = cnext]
            /\ live' = live \ {ctail}
            /\ UNCHANGED <<cached, tail_prev, cached_nodes>>
    /\ cpc' = "idle" /\ ctail' = Null /\ cnext' = Null
    /\ UNCHANGED <<value, producer, tail, ret>>

(* Deviation of DropFrom: the nodes waiting for reuse are forgotten.         *)
DropFromTail == tail

(* Where the walk of Drop for Queue begins.                                  *)
DropFrom == first

(* Drop for Queue, when the producer and the consumer are through.           *)
Drop ==
    /\ ppc = "idle" /\ cpc = "idle"
    /\ live' = live \ Members(Chain(DropFrom))
    /\ ppc' = "dropped" /\ cpc' = "dropped"
    /\ UNCHANGED <<next, value, cached, head, first, tail_copy, pnode, pval,
                   tail, tail_prev, cached_nodes, ctail, cnext, ret>>

Next ==
    \/ (\E v \in Values : PushAlloc(v)) \/ PushFill \/ PushLink
    \/ PopLoad \/ PopTake \/ PopRelease \/ Drop

Spec == Init /\ [][Next]_vars

-----------------------------------------------------------------------------
(* The type of every variable; both asserts of push and pop hold.            *)
TypeOK ==
    /\ next \in [Nodes -> Nodes \cup {Null}] /\ value \in [Nodes -> Values \cup {Null}]
    /\ cached \in [Nodes -> BOOLEAN] /\ live \subseteq Nodes
    /\ {head, first, tail_copy, tail, tail_prev} \subseteq Nodes
    /\ {pnode, ctail, cnext} \subseteq Nodes \cup {Null} /\ pval \in Values \cup {Null}
    /\ ppc \in {"idle", "fill", "link", "dropped"}
    /\ cpc \in {"idle", "take", "release", "dropped"}
    /\ ret \in Values \cup {"none", "Empty"} /\ cached_nodes \in Nat

Contents == LET rest == Tail(Chain(tail)) IN [i \in DOMAIN rest |-> value[rest[i]]]

(* The two threads never write the same node: what push reuses is neither    *)
(* the sentinel nor on the way from it, and is not what pop is working on.   *)
ReuseIsSafe ==
    ppc \in {"fill", "link"} =>
        pnode \notin Members(Chain(tail)) \cup {ctail, cnext, tail_prev}

(* Drop for Queue gives back every node ever allocated: at any time all of   *)
(* them are in the one list that starts at `first` or in the hands of push.  *)
NothingLeaks == ppc = "dropped" => live = {}
=============================================================================
