----------------------------- MODULE MpscProofs -----------------------------
(* Proofs about the queue of the shared packet, for any number of pushers,   *)
(* nodes and values.                                                         *)
EXTENDS Queues, TLAPS

(* The nodes of the list: those allocated but for the one pop is freeing.    *)
List == IF cpc = "free" THEN live \ {cnext} ELSE live

(* The node to free is allocated, and a node loaded is still tail's next.    *)
PopInv ==
    /\ cpc = "free" => cnext \in live
    /\ cpc = "take" => cnext = next[tail] /\ cnext # Null

(* The list: it holds both of its ends, nothing follows head, nothing        *)
(* precedes tail, a successor is in it, and no node has two predecessors.    *)
EndsInv == head \in List /\ tail \in List /\ next[head] = Null
NextInv == \A n \in List : next[n] # Null => next[n] \in List /\ next[n] # tail
OnePredecessor == \A n, m \in List : next[n] # Null /\ next[n] = next[m] => n = m

(* A push that has to link its node: both nodes are in the list, the one     *)
(* before has no successor and is not head, and nothing precedes its own.    *)
LinkInv ==
    \A p \in Pushers : ppc[p] = "link" =>
        /\ prev[p] \in List /\ prev[p] # head /\ next[prev[p]] = Null
        /\ pnode[p] \in List /\ pnode[p] # tail
        /\ \A n \in List : next[n] # pnode[p]

(* No two of them are at the same place of the list.                         *)
ApartInv ==
    \A p, q \in Pushers : ppc[p] = "link" /\ ppc[q] = "link" /\ p # q =>
        prev[p] # prev[q] /\ pnode[p] # pnode[q]

(* All nodes but the stub at tail have a value.                              *)
ValueInv == value[tail] = Null /\ \A n \in List : n # tail => value[n] # Null

Shape == PopInv /\ EndsInv /\ NextInv /\ OnePredecessor /\ LinkInv /\ ApartInv /\ ValueInv

(* After Drop nothing is left to be done.                                    *)
Over == cpc = "dropped" => \A p \in Pushers : ppc[p] = "dropped"

Inv == Mpsc!TypeOK /\ Over /\ (cpc # "dropped" => Shape)

-----------------------------------------------------------------------------
(* A push that swaps head: its new node is in the list, without a successor  *)
(* and without a predecessor.                                                *)
LEMMA Swaps ==
    ASSUME Inv, NEW p \in Pushers, NEW v \in Values, Mpsc!PushSwap(p, v)
    PROVE  Inv'
<1> USE NullAssumption
<1>1. PICK n \in Nodes \ live :
          /\ live' = live \cup {n}
          /\ next' = [next EXCEPT ![n] = Null] /\ value' = [value EXCEPT ![n] = v]
          /\ pnode' = [pnode EXCEPT ![p] = n] /\ prev' = [prev EXCEPT ![p] = head]
          /\ head' = n
    BY Zenon DEF Mpsc!PushSwap
<1>2. /\ ppc[p] = "idle" /\ ppc' = [ppc EXCEPT ![p] = "link"]
      /\ tail' = tail /\ cpc' = cpc /\ cnext' = cnext /\ ret' = ret
    BY Zenon DEF Mpsc!PushSwap, Mpsc!popper
<1>3. Mpsc!TypeOK
    BY Zenon DEF Inv
<1>4. Mpsc!TypeOK'
    BY <1>1, <1>2, <1>3 DEF Mpsc!TypeOK
<1>5. cpc # "dropped" /\ Shape
    BY <1>2, Zenon DEF Inv, Over
<1> USE <1>5 DEF Shape
<1>6. List \subseteq live /\ n \notin List /\ n # tail /\ n # head
    BY <1>1, Zenon DEF List, EndsInv
<1>7. List' = List \cup {n} /\ n \in Nodes
    BY <1>1, <1>2, <1>6 DEF List, PopInv
<1>8. /\ next'[n] = Null /\ \A m \in Nodes : m # n => next'[m] = next[m]
      /\ value'[n] = v /\ \A m \in Nodes : m # n => value'[m] = value[m]
    BY <1>1, <1>3, Zenon DEF Mpsc!TypeOK
<1>9. /\ ppc'[p] = "link" /\ pnode'[p] = n /\ prev'[p] = head
      /\ \A q \in Pushers : q # p => ppc'[q] = ppc[q] /\ pnode'[q] = pnode[q] /\ prev'[q] = prev[q]
    BY <1>1, <1>2, <1>3, Zenon DEF Mpsc!TypeOK
<1>10. List \subseteq Nodes /\ head \in Nodes /\ tail \in Nodes /\ head' = n /\ tail' = tail
    BY <1>1, <1>2, <1>3, <1>6, Zenon DEF Mpsc!TypeOK
<1>11. \A m \in List : next'[m] = next[m] /\ value'[m] = value[m] /\ next[m] # n
    BY <1>6, <1>7, <1>8, <1>10, Zenon DEF NextInv
<1>12. PopInv'
    BY <1>1, <1>2, <1>6, <1>8, <1>10, Zenon DEF PopInv
<1>13. EndsInv'
    BY <1>7, <1>8, <1>10, Zenon DEF EndsInv
<1>14. NextInv'
    BY <1>7, <1>8, <1>10, <1>11, Zenon DEF NextInv
<1>15. OnePredecessor'
  <2> SUFFICES ASSUME NEW k \in List', NEW m \in List', next'[k] # Null, next'[k] = next'[m]
               PROVE  k = m
      BY Zenon DEF OnePredecessor
  <2>1. k \in List /\ m \in List
      BY <1>7, <1>8, Zenon
  <2> QED
      BY <2>1, <1>11, Zenon DEF OnePredecessor
<1>16. LinkInv'
  <2> SUFFICES ASSUME NEW q \in Pushers, ppc'[q] = "link"
               PROVE  /\ prev'[q] \in List' /\ prev'[q] # head' /\ next'[prev'[q]] = Null
                      /\ pnode'[q] \in List' /\ pnode'[q] # tail'
                      /\ \A m \in List' : next'[m] # pnode'[q]
      BY Zenon DEF LinkInv
  <2>1. CASE q = p
    <3>1. prev'[q] = head /\ head \in List /\ next[head] = Null /\ pnode'[q] = n
        BY <2>1, <1>9, Zenon DEF EndsInv
    <3>2. \A m \in List' : next'[m] # n
        BY <1>7, <1>8, <1>11, Zenon
    <3> QED
        BY <3>1, <3>2, <1>6, <1>7, <1>10, <1>11, Zenon
  <2>2. CASE q # p
    <3>1. /\ prev[q] \in List /\ prev[q] # head /\ next[prev[q]] = Null
          /\ pnode[q] \in List /\ pnode[q] # tail
          /\ \A m \in List : next[m] # pnode[q]
        BY <2>2, <1>9, Zenon DEF LinkInv
    <3>2. prev'[q] = prev[q] /\ pnode'[q] = pnode[q] /\ prev[q] # n /\ pnode[q] # Null
        BY <2>2, <3>1, <1>6, <1>9, <1>10, Zenon
    <3>3. \A m \in List' : next'[m] # pnode[q]
        BY <3>1, <3>2, <1>7, <1>8, <1>11, Zenon
    <3> QED
        BY <3>1, <3>2, <3>3, <1>7, <1>10, <1>11, Zenon
  <2> QED
      BY <2>1, <2>2, Zenon
<1>17. ApartInv'
  <2>1. \A q \in Pushers : q # p /\ ppc[q] = "link" => prev[q] # head /\ pnode[q] # n
      BY <1>6, Zenon DEF LinkInv
  <2> SUFFICES ASSUME NEW q \in Pushers, NEW r \in Pushers, ppc'[q] = "link", ppc'[r] = "link", q # r
               PROVE  prev'[q] # prev'[r] /\ pnode'[q] # pnode'[r]
      BY Zenon DEF ApartInv
  <2>2. CASE q = p
      BY <2>1, <2>2, <1>9, Zenon
  <2>3. CASE r = p
      BY <2>1, <2>3, <1>9, Zenon
  <2>4. CASE q # p /\ r # p
      BY <2>4, <1>9, Zenon DEF ApartInv
  <2> QED
      BY <2>2, <2>3, <2>4, Zenon
<1>18. ValueInv'
    BY <1>6, <1>7, <1>8, <1>10, <1>11, Zenon DEF ValueInv
<1>19. Over' /\ cpc' # "dropped"
    BY <1>2, <1>5, Zenon DEF Over
<1> QED
    BY <1>4, <1>12, <1>13, <1>14, <1>15, <1>16, <1>17, <1>18, <1>19, Zenon DEF Inv

(* A push that links its node gives a successor to a node that had none, and *)
(* to its own the one predecessor.                                           *)
LEMMA Links ==
    ASSUME Inv, NEW p \in Pushers, Mpsc!PushLink(p)
    PROVE  Inv'
<1> USE NullAssumption
<1>1. /\ ppc[p] = "link" /\ next' = [next EXCEPT ![prev[p]] = pnode[p]]
      /\ ppc' = [ppc EXCEPT ![p] = "idle"]
      /\ pnode' = [pnode EXCEPT ![p] = Null] /\ prev' = [prev EXCEPT ![p] = Null]
      /\ value' = value /\ live' = live /\ head' = head /\ tail' = tail
      /\ cpc' = cpc /\ cnext' = cnext /\ ret' = ret
    BY Zenon DEF Mpsc!PushLink, Mpsc!popper
<1>2. Mpsc!TypeOK
    BY Zenon DEF Inv
<1>3. cpc # "dropped" /\ Shape
    BY <1>1, Zenon DEF Inv, Over
<1> USE <1>3 DEF Shape
<1>4. /\ prev[p] \in List /\ prev[p] # head /\ next[prev[p]] = Null
      /\ pnode[p] \in List /\ pnode[p] # tail
      /\ \A n \in List : next[n] # pnode[p]
    BY <1>1, Zenon DEF LinkInv
<1>5. List' = List /\ List \subseteq Nodes
    BY <1>1, <1>2, Zenon DEF List, Mpsc!TypeOK
<1>6. next'[prev[p]] = pnode[p] /\ \A m \in Nodes : m # prev[p] => next'[m] = next[m]
    BY <1>1, <1>2, <1>4, <1>5, Zenon DEF Mpsc!TypeOK
<1>7. /\ ppc'[p] = "idle"
      /\ \A q \in Pushers : q # p => ppc'[q] = ppc[q] /\ pnode'[q] = pnode[q] /\ prev'[q] = prev[q]
    BY <1>1, <1>2, Zenon DEF Mpsc!TypeOK
<1>8. Mpsc!TypeOK'
    BY <1>1, <1>2, <1>4, <1>5 DEF Mpsc!TypeOK
<1>9. PopInv'
    BY <1>1, <1>2, <1>4, <1>6, Zenon DEF PopInv, Mpsc!TypeOK
<1>10. EndsInv'
    BY <1>1, <1>4, <1>5, <1>6, Zenon DEF EndsInv
<1>11. NextInv'
  <2>1. next'[prev[p]] \in List /\ next'[prev[p]] # tail
      BY <1>4, <1>6, Zenon
  <2>2. \A m \in List : m # prev[p] => next'[m] = next[m]
      BY <1>5, <1>6, Zenon
  <2> SUFFICES ASSUME NEW m \in List, next'[m] # Null
               PROVE  next'[m] \in List /\ next'[m] # tail
      BY <1>1, <1>5, Zenon DEF NextInv
  <2>3. CASE m = prev[p]
      BY <2>1, <2>3, Zenon
  <2>4. CASE m # prev[p]
      BY <2>2, <2>4, Zenon DEF NextInv
  <2> QED
      BY <2>3, <2>4, Zenon
<1>12. OnePredecessor'
  <2> SUFFICES ASSUME NEW k \in List, NEW m \in List, next'[k] # Null, next'[k] = next'[m]
               PROVE  k = m
      BY <1>5, Zenon DEF OnePredecessor
  <2>1. CASE k = prev[p]
      BY <2>1, <1>4, <1>5, <1>6, Zenon
  <2>2. CASE m = prev[p]
      BY <2>2, <1>4, <1>5, <1>6, Zenon
  <2>3. CASE k # prev[p] /\ m # prev[p]
      BY <2>3, <1>5, <1>6, Zenon DEF OnePredecessor
  <2> QED
      BY <2>1, <2>2, <2>3, Zenon
<1>13. LinkInv'
  <2> SUFFICES ASSUME NEW q \in Pushers, ppc'[q] = "link"
               PROVE  /\ prev'[q] \in List /\ prev'[q] # head /\ next'[prev'[q]] = Null
                      /\ pnode'[q] \in List /\ pnode'[q] # tail
                      /\ \A m \in List : next'[m] # pnode'[q]
      BY <1>1, <1>5, Zenon DEF LinkInv
  <2>1. q # p /\ ppc[q] = "link" /\ prev'[q] = prev[q] /\ pnode'[q] = pnode[q]
      BY <1>7, Zenon
  <2>2. prev[q] # prev[p] /\ pnode[q] # pnode[p]
      BY <2>1, <1>1, Zenon DEF ApartInv
  <2>3. /\ prev[q] \in List /\ prev[q] # head /\ next[prev[q]] = Null
        /\ pnode[q] \in List /\ pnode[q] # tail
        /\ \A m \in List : next[m] # pnode[q]
      BY <2>1, Zenon DEF LinkInv
  <2>4. \A m \in List : next'[m] # pnode[q]
    <3> SUFFICES ASSUME NEW m \in List PROVE next'[m] # pnode[q]
        BY Zenon
    <3>1. CASE m = prev[p]
        BY <3>1, <2>2, <1>6, Zenon
    <3>2. CASE m # prev[p]
        BY <3>2, <2>3, <1>5, <1>6, Zenon
    <3> QED
        BY <3>1, <3>2, Zenon
  <2>5. next'[prev[q]] = Null
      BY <2>2, <2>3, <1>5, <1>6, Zenon
  <2> QED
      BY <2>1, <2>3, <2>4, <2>5, Zenon
<1>14. ApartInv'
  <2>1. \A q \in Pushers : ppc'[q] = "link" =>
            q # p /\ ppc[q] = "link" /\ prev'[q] = prev[q] /\ pnode'[q] = pnode[q]
      BY <1>7, Zenon
  <2> QED
      BY <2>1, Zenon DEF ApartInv
<1>15. ValueInv'
    BY <1>1, <1>5, Zenon DEF ValueInv
<1>16. Over' /\ cpc' # "dropped"
    BY <1>1, <1>3, Zenon DEF Over
<1> QED
    BY <1>8, <1>9, <1>10, <1>11, <1>12, <1>13, <1>14, <1>15, <1>16, Zenon DEF Inv

(* A pop that takes a value: the node it leaves has no pending push, since   *)
(* it has a successor, and so leaves the list; both asserts hold.            *)
LEMMA TakesOut == ASSUME Inv, Mpsc!PopTake PROVE Inv'
<1> USE NullAssumption
<1>1. /\ cpc = "take" /\ tail' = cnext /\ cnext' = tail
      /\ cpc' = IF value[tail] = Null /\ value[cnext] # Null THEN "free" ELSE "panicked"
      /\ ret' = value[cnext] /\ value' = [value EXCEPT ![cnext] = Null]
      /\ next' = next /\ live' = live /\ head' = head
      /\ ppc' = ppc /\ pnode' = pnode /\ prev' = prev
    BY Zenon DEF Mpsc!PopTake, Mpsc!Taken, Mpsc!pusher
<1>2. Mpsc!TypeOK
    BY Zenon DEF Inv
<1>3. cpc # "dropped" /\ Shape
    BY <1>1, Zenon DEF Inv
<1> USE <1>3 DEF Shape
<1>4. List = live /\ live \subseteq Nodes
    BY <1>1, <1>2, Zenon DEF List, Mpsc!TypeOK
<1>5. /\ tail \in live /\ cnext = next[tail] /\ cnext # Null
      /\ cnext \in live /\ cnext # tail
    BY <1>1, <1>4, Zenon DEF PopInv, EndsInv, NextInv
<1>6. value[tail] = Null /\ value[cnext] # Null
    BY <1>4, <1>5, Zenon DEF ValueInv
<1>7. cpc' = "free" /\ List' = live \ {tail}
    BY <1>1, <1>6, Zenon DEF List
<1>8. value'[cnext] = Null /\ \A m \in Nodes : m # cnext => value'[m] = value[m]
    BY <1>1, <1>2, <1>4, <1>5, Zenon DEF Mpsc!TypeOK
<1>9. value[cnext] \in Values
    BY <1>2, <1>4, <1>5, <1>6, Zenon DEF Mpsc!TypeOK
<1>10. Mpsc!TypeOK'
    BY <1>1, <1>2, <1>4, <1>5, <1>7, <1>9 DEF Mpsc!TypeOK
<1>11. PopInv'
    BY <1>1, <1>5, <1>7, Zenon DEF PopInv
<1>12. EndsInv'
    BY <1>1, <1>4, <1>5, <1>7, Zenon DEF EndsInv
<1>13. \A n \in live \ {tail} : next[n] # cnext
    BY <1>4, <1>5, Zenon DEF OnePredecessor
<1>14. NextInv'
    BY <1>1, <1>4, <1>7, <1>13, Zenon DEF NextInv
<1>15. OnePredecessor'
    BY <1>1, <1>4, <1>7, Zenon DEF OnePredecessor
<1>16. LinkInv'
  <2> SUFFICES ASSUME NEW q \in Pushers, ppc[q] = "link"
               PROVE  /\ prev[q] \in List' /\ prev[q] # head /\ next[prev[q]] = Null
                      /\ pnode[q] \in List' /\ pnode[q] # cnext
                      /\ \A m \in List' : next[m] # pnode[q]
      BY <1>1, Zenon DEF LinkInv
  <2> QED
      BY <1>4, <1>5, <1>7, Zenon DEF LinkInv
<1>17. ApartInv'
    BY <1>1, Zenon DEF ApartInv
<1>18. ValueInv'
    BY <1>1, <1>4, <1>7, <1>8, Zenon DEF ValueInv
<1>19. Over' /\ cpc' # "dropped"
    BY <1>7, Zenon DEF Over
<1> QED
    BY <1>10, <1>11, <1>12, <1>14, <1>15, <1>16, <1>17, <1>18, <1>19, Zenon DEF Inv

(* The other steps of pop leave the list as it is: the node that is freed is *)
(* out of it already.                                                        *)
LEMMA SameList ==
    ASSUME Inv, Mpsc!TypeOK', cpc # "dropped", cpc' # "dropped", List' = List, PopInv',
           next' = next, value' = value, head' = head, tail' = tail, Mpsc!pusher' = Mpsc!pusher
    PROVE  Inv'
<1>1. Shape /\ ppc' = ppc /\ pnode' = pnode /\ prev' = prev
    BY Zenon DEF Inv, Mpsc!pusher
<1>2. EndsInv' /\ NextInv' /\ OnePredecessor' /\ ValueInv'
    BY <1>1, Zenon DEF Shape, EndsInv, NextInv, OnePredecessor, ValueInv
<1>3. LinkInv' /\ ApartInv'
    BY <1>1, Zenon DEF Shape, LinkInv, ApartInv
<1>4. Over'
    BY Zenon DEF Over
<1> QED
    BY <1>2, <1>3, <1>4, Zenon DEF Inv, Shape

(* PopLoad, PopFree and PopHead.                                             *)
LEMMA Pops == ASSUME Inv, Mpsc!PopLoad \/ Mpsc!PopFree \/ Mpsc!PopHead PROVE Inv'
<1>1. Mpsc!TypeOK
    BY Zenon DEF Inv
<1>2. CASE Mpsc!PopLoad
  <2>1. /\ cpc = "idle" /\ cnext' = next[tail] /\ cpc' = IF next[tail] = Null THEN "head" ELSE "take"
        /\ next' = next /\ value' = value /\ live' = live /\ head' = head /\ tail' = tail
        /\ Mpsc!pusher' = Mpsc!pusher /\ ret' = ret
      BY <1>2, Zenon DEF Mpsc!PopLoad, Mpsc!node
  <2>2. Mpsc!TypeOK'
      BY <1>1, <2>1 DEF Mpsc!TypeOK, Mpsc!pusher
  <2>3. cpc # "dropped" /\ cpc' # "dropped" /\ List' = List
      BY <2>1 DEF List
  <2>4. PopInv'
      BY <2>1 DEF PopInv
  <2> QED
      BY <2>1, <2>2, <2>3, <2>4, SameList, Zenon
<1>3. CASE Mpsc!PopFree
  <2>1. /\ cpc = "free" /\ cpc' = "idle" /\ live' = live \ {cnext} /\ cnext' = Null
        /\ next' = next /\ value' = value /\ head' = head /\ tail' = tail
        /\ Mpsc!pusher' = Mpsc!pusher /\ ret' = ret
      BY <1>3, Zenon DEF Mpsc!PopFree, Mpsc!Freed
  <2>2. Mpsc!TypeOK'
      BY <1>1, <2>1 DEF Mpsc!TypeOK, Mpsc!pusher
  <2>3. cpc # "dropped" /\ cpc' # "dropped" /\ List' = List
      BY <2>1, Zenon DEF List
  <2>4. PopInv'
      BY <2>1, Zenon DEF PopInv
  <2> QED
      BY <2>1, <2>2, <2>3, <2>4, SameList, Zenon
<1>4. CASE Mpsc!PopHead
  <2>1. /\ cpc = "head" /\ cpc' = "idle" /\ ret' \in {"Empty", "Inconsistent"}
        /\ next' = next /\ value' = value /\ live' = live /\ head' = head /\ tail' = tail
        /\ Mpsc!pusher' = Mpsc!pusher /\ cnext' = cnext
      BY <1>4, Zenon DEF Mpsc!PopHead, Mpsc!NothingFound, Mpsc!node
  <2>2. Mpsc!TypeOK'
      BY <1>1, <2>1 DEF Mpsc!TypeOK, Mpsc!pusher
  <2>3. cpc # "dropped" /\ cpc' # "dropped" /\ List' = List
      BY <2>1, Zenon DEF List
  <2>4. PopInv'
      BY <2>1, Zenon DEF PopInv
  <2> QED
      BY <2>1, <2>2, <2>3, <2>4, SameList, Zenon
<1> QED
    BY <1>2, <1>3, <1>4, Zenon

(* Drop for Queue ends everything.                                           *)
LEMMA Drops == ASSUME Inv, Mpsc!Drop PROVE Inv'
<1>1. Mpsc!TypeOK
    BY Zenon DEF Inv
<1>2. /\ cpc' = "dropped" /\ ppc' = [p \in Pushers |-> "dropped"] /\ live' \subseteq live
      /\ next' = next /\ value' = value /\ head' = head /\ tail' = tail
      /\ pnode' = pnode /\ prev' = prev /\ cnext' = cnext /\ ret' = ret
    BY Zenon DEF Mpsc!Drop
<1>3. Mpsc!TypeOK'
    BY <1>1, <1>2 DEF Mpsc!TypeOK
<1>4. Over'
    BY <1>2, Zenon DEF Over
<1> QED
    BY <1>2, <1>3, <1>4, Zenon DEF Inv

(* A step of something else.                                                 *)
LEMMA Stutters == ASSUME Inv, UNCHANGED Mpsc!vars PROVE Inv'
<1>1. /\ next' = next /\ value' = value /\ live' = live /\ head' = head /\ tail' = tail
      /\ ppc' = ppc /\ pnode' = pnode /\ prev' = prev
      /\ cpc' = cpc /\ cnext' = cnext /\ ret' = ret
    BY Zenon DEF Mpsc!vars, Mpsc!node, Mpsc!pusher, Mpsc!popper
<1>2. Mpsc!TypeOK' /\ Over'
    BY <1>1, Zenon DEF Inv, Mpsc!TypeOK, Over
<1>3. CASE cpc = "dropped"
    BY <1>1, <1>2, <1>3, Zenon DEF Inv
<1>4. CASE cpc # "dropped"
  <2>1. List' = List
      BY <1>1, Zenon DEF List
  <2>2. PopInv'
      BY <1>1, <1>4, Zenon DEF Inv, Shape, PopInv
  <2> QED
      BY <1>1, <1>2, <1>4, <2>1, <2>2, SameList, Zenon DEF Mpsc!pusher
<1> QED
    BY <1>3, <1>4, Zenon

(* Queue::new: the stub is head and tail.                                    *)
LEMMA Starts == ASSUME Mpsc!Init PROVE Inv
<1>1. PICK stub \in Nodes :
        /\ next = [n \in Nodes |-> Null] /\ value = [n \in Nodes |-> Null] /\ live = {stub}
        /\ head = stub /\ tail = stub
        /\ ppc = [p \in Pushers |-> "idle"]
        /\ pnode = [p \in Pushers |-> Null] /\ prev = [p \in Pushers |-> Null]
        /\ cpc = "idle" /\ cnext = Null /\ ret = "none"
    BY Zenon DEF Mpsc!Init
<1>2. Mpsc!TypeOK
    BY <1>1 DEF Mpsc!TypeOK
<1>3. List = {stub} /\ next[stub] = Null /\ value[stub] = Null /\ \A p \in Pushers : ppc[p] # "link"
    BY <1>1, Zenon DEF List
<1>4. PopInv /\ EndsInv /\ NextInv /\ OnePredecessor
    BY <1>1, <1>3, Zenon DEF PopInv, EndsInv, NextInv, OnePredecessor
<1>5. LinkInv /\ ApartInv /\ ValueInv
    BY <1>1, <1>3, Zenon DEF LinkInv, ApartInv, ValueInv
<1> QED
    BY <1>1, <1>2, <1>4, <1>5, Zenon DEF Inv, Shape, Over

IInv == flavour = "shared" => Inv

(* The invariant of the shared packet's queue holds throughout, whatever     *)
(* pushes overlap with a pop.                                                *)
THEOREM InductiveInvariant == Spec => []IInv
<1>1. Init => IInv
    BY Starts, Zenon DEF Init, IInv
<1>2. IInv /\ [Next]_vars => IInv'
  <2> SUFFICES ASSUME IInv, [Next]_vars, flavour' = "shared" PROVE Inv'
      BY Zenon DEF IInv
  <2>1. CASE flavour = "shared" /\ Mpsc!Next
      BY <2>1, Swaps, Links, TakesOut, Pops, Drops, Zenon DEF IInv, Mpsc!Next
  <2>2. CASE UNCHANGED vars
    <3>1. flavour = "shared" /\ UNCHANGED Mpsc!vars
        BY <2>2, Zenon DEF vars, Mpsc!vars, Mpsc!node, Mpsc!pusher, Mpsc!popper
    <3> QED
        BY <3>1, Stutters, Zenon DEF IInv
  <2> QED
      BY <2>1, <2>2, Zenon DEF Next
<1> QED
    BY <1>1, <1>2, PTL DEF Spec

(* Both asserts of the shared packet's pop hold, and every pointer has a     *)
(* node to point to.                                                         *)
THEOREM NoPanic == Spec => [](flavour = "shared" => Mpsc!TypeOK)
<1>1. IInv => (flavour = "shared" => Mpsc!TypeOK)
    BY Zenon DEF IInv, Inv
<1> QED
    BY InductiveInvariant, <1>1, PTL

(* No push stores into a node that pop has freed: a node is freed when it    *)
(* has a successor, and a node with a successor has no push left to link it. *)
THEOREM MemorySafe == Spec => []NoUseAfterFree
<1>1. IInv => NoUseAfterFree
  <2> SUFFICES ASSUME IInv, flavour = "shared", cpc # "dropped"
               PROVE  /\ {head, tail} \subseteq live
                      /\ \A p \in Pushers : ppc[p] = "link" => {prev[p], pnode[p]} \subseteq live
                      /\ cpc = "take" => cnext \in live
      BY Zenon DEF NoUseAfterFree, Mpsc!NoUseAfterFree
  <2>1. List \subseteq live /\ Shape
      BY Zenon DEF List, IInv, Inv
  <2>2. head \in live /\ tail \in live
      BY <2>1, Zenon DEF Shape, EndsInv
  <2>3. \A p \in Pushers : ppc[p] = "link" => prev[p] \in live /\ pnode[p] \in live
      BY <2>1, Zenon DEF Shape, LinkInv
  <2>4. cpc = "take" => cnext \in live
      BY <2>1, Zenon DEF Shape, PopInv, EndsInv, NextInv
  <2> QED
      BY <2>2, <2>3, <2>4, Zenon
<1> QED
    BY InductiveInvariant, <1>1, PTL
=============================================================================
