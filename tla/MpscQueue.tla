------------------------------ MODULE MpscQueue -----------------------------
(* mpsc_queue::Queue (std/src/sync/mpsc/mpsc_queue.rs): a linked list that   *)
(* any thread pushes to and one pops from.  A push swaps `head` first and    *)
(* links its node afterwards, so the list is broken in between.              *)
EXTENDS Sequences

CONSTANTS Pushers, Values, Null,
          Nodes   \* the addresses the allocator hands out

VARIABLES next, value,       \* the fields of each node
          live,              \* the nodes that are allocated
          head, tail,
          ppc, pnode, prev,  \* push of each pusher: where it is, its n and prev
          cpc, cnext,        \* pop: where it is, its local next
          ret                \* what the last pop returned

node == <<next, value, live>>
pusher == <<ppc, pnode, prev>>
popper == <<cpc, cnext, ret>>
vars == <<node, head, tail, pusher, popper>>

(* The stub.                                                                 *)
Init ==
    \E stub \in Nodes :
        /\ next = [n \in Nodes |-> Null] /\ value = [n \in Nodes |-> Null] /\ live = {stub}
        /\ head = stub /\ tail = stub
        /\ ppc = [p \in Pushers |-> "idle"]
        /\ pnode = [p \in Pushers |-> Null] /\ prev = [p \in Pushers |-> Null]
        /\ cpc = "idle" /\ cnext = Null /\ ret = "none"

(* push: a new node with the value in it, and head.swap(n).                  *)
PushSwap(p, v) ==
    /\ ppc[p] = "idle"
    /\ \E n \in Nodes \ live :
          /\ live' = live \cup {n}
          /\ next' = [next EXCEPT ![n] = Null] /\ value' = [value EXCEPT ![n] = v]
          /\ pnode' = [pnode EXCEPT ![p] = n] /\ prev' = [prev EXCEPT ![p] = head]
          /\ head' = n
    /\ ppc' = [ppc EXCEPT ![p] = "link"]
    /\ UNCHANGED <<tail, popper>>

(* prev.next.store(n)                                                        *)
PushLink(p) ==
    /\ ppc[p] = "link"
    /\ next' = [next EXCEPT ![prev[p]] = pnode[p]]
    /\ ppc' = [ppc EXCEPT ![p] = "idle"]
    /\ pnode' = [pnode EXCEPT ![p] = Null] /\ prev' = [prev EXCEPT ![p] = Null]
    /\ UNCHANGED <<value, live, head, tail, popper>>

(* pop loads tail.next.                                                      *)
PopLoad ==
    /\ cpc = "idle"
    /\ cnext' = next[tail]
    /\ cpc' = IF next[tail] = Null THEN "head" ELSE "take"
    /\ UNCHANGED <<node, head, tail, pusher, ret>>

(* value.take() leaves None in the node.                                     *)
Taken == [value EXCEPT ![cnext] = Null]

(* tail moves on; the two asserts; the value is taken.                       *)
PopTake ==
    /\ cpc = "take"
    /\ tail' = cnext
    /\ cpc' = IF value[tail] = Null /\ value[cnext] # Null THEN "free" ELSE "panicked"
    /\ ret' = value[cnext] /\ value' = Taken
    /\ cnext' = tail
    /\ UNCHANGED <<next, live, head, pusher>>

(* Deviation of Freed: the stub that was moved to is freed.                  *)
FreedStub == tail

(* The node pop frees: the one tail pointed to before.                       *)
Freed == cnext

PopFree ==
    /\ cpc = "free"
    /\ live' = live \ {Freed}
    /\ cpc' = "idle" /\ cnext' = Null
    /\ UNCHANGED <<next, value, head, tail, pusher, ret>>

(* Deviation of NothingFound: a null next is an empty queue.                 *)
NothingFoundEmpty == "Empty"

(* What pop makes of a null next: empty only if tail is also head.           *)
NothingFound == IF head = tail THEN "Empty" ELSE "Inconsistent"

PopHead ==
    /\ cpc = "head"
    /\ ret' = NothingFound
    /\ cpc' = "idle"
    /\ UNCHANGED <<node, head, tail, pusher, cnext>>

(* The nodes from n on, as far as they are linked.                           *)
Linked(n) ==
    LET walk[m \in Nodes \cup {Null}] == IF m = Null THEN <<>> ELSE <<m>> \o walk[next[m]]
    IN  walk[n]

(* Drop for Queue, when nobody uses it any more.                             *)
Drop ==
    /\ cpc = "idle" /\ \A p \in Pushers : ppc[p] = "idle"
    /\ live' = live \ {Linked(tail)[i] : i \in DOMAIN Linked(tail)}
    /\ cpc' = "dropped" /\ ppc' = [p \in Pushers |-> "dropped"]
    /\ UNCHANGED <<next, value, head, tail, pnode, prev, cnext, ret>>

Next ==
    \/ \E p \in Pushers : (\E v \in Values : PushSwap(p, v)) \/ PushLink(p)
    \/ PopLoad \/ PopTake \/ PopFree \/ PopHead \/ Drop

Spec == Init /\ [][Next]_vars

-----------------------------------------------------------------------------
(* The type of every variable; the asserts of pop hold.                      *)
TypeOK ==
    /\ next \in [Nodes -> Nodes \cup {Null}] /\ value \in [Nodes -> Values \cup {Null}]
    /\ live \subseteq Nodes /\ head \in Nodes /\ tail \in Nodes
    /\ ppc \in [Pushers -> {"idle", "link", "dropped"}]
    /\ pnode \in [Pushers -> Nodes \cup {Null}] /\ prev \in [Pushers -> Nodes \cup {Null}]
    /\ cpc \in {"idle", "head", "take", "free", "dropped"} /\ cnext \in Nodes \cup {Null}
    /\ ret \in Values \cup {"none", "Empty", "Inconsistent"}

(* No push stores into a node that pop has freed, and head and tail stay     *)
(* allocated: pop never frees a node whose next is still to be written.      *)
NoUseAfterFree ==
    cpc # "dropped" =>
        /\ {head, tail} \subseteq live
        /\ \A p \in Pushers : ppc[p] = "link" => {prev[p], pnode[p]} \subseteq live
        /\ cpc = "take" => cnext \in live

(* Once the queue is dropped nothing is left of it.                          *)
NothingLeaks == cpc = "dropped" => live = {}

(* The order of the values is the order of the swaps: a node that is not yet *)
(* linked is followed by the node of the push that has to link it.           *)
Contents ==
    LET succ(n) == IF next[n] # Null THEN next[n]
                   ELSE IF \E p \in Pushers : prev[p] = n
                   THEN pnode[CHOOSE p \in Pushers : prev[p] = n] ELSE Null
        walk[n \in Nodes \cup {Null}] == IF n = Null THEN <<>> ELSE <<n>> \o walk[succ(n)]
        rest == Tail(walk[tail])
    IN  [i \in DOMAIN rest |-> value[rest[i]]]
=============================================================================
