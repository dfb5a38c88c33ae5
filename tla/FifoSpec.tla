------------------------------ MODULE FifoSpec ------------------------------
(* What the two lock-free queues of std::sync::mpsc promise: a FIFO.  A pop  *)
(* finds the queue empty only when it is; it may report a push that has not  *)
(* finished as Inconsistent.                                                 *)
EXTENDS Sequences

CONSTANT Values   \* what can be pushed

VARIABLES queue,  \* the values pushed and not popped
          ret     \* the result of the last pop

vars == <<queue, ret>>

Init == queue = <<>> /\ ret = "none"

Push(v) == queue' = Append(queue, v) /\ UNCHANGED ret

Pop ==
    /\ queue # <<>>
    /\ ret' = Head(queue) /\ queue' = Tail(queue)

PopEmpty == queue = <<>> /\ ret' = "Empty" /\ UNCHANGED queue

PopInconsistent == queue # <<>> /\ ret' = "Inconsistent" /\ UNCHANGED queue

Next == (\E v \in Values : Push(v)) \/ Pop \/ PopEmpty \/ PopInconsistent

Spec == Init /\ [][Next]_vars
=============================================================================
