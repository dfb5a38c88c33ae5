------------------------------ MODULE BpfAtomic -----------------------------
(* The operations behind core::sync::atomic on the BPF target, where they    *)
(* are plain reads and writes (core/src/sync/atomic.rs, the functions with   *)
(* cfg(target_arch = "bpf")): a BPF program has one thread.                  *)
EXTENDS Integers, FiniteSetsExt

CONSTANT Width   \* bits of the integer

VARIABLES signed,  \* AtomicI* or AtomicU*
          checks,  \* the crate is built with overflow checks
          cell,    \* UnsafeCell<$int_type>
          last,    \* the last operation: its name and argument
          ret      \* and what it returned

vars == <<signed, checks, cell, last, ret>>

Lowest == IF signed THEN -(2 ^ (Width - 1)) ELSE 0
Values == Lowest .. Lowest + 2 ^ Width - 1

(* A result of Add::add or Sub::sub that does not fit: it wraps, unless the  *)
(* crate it is compiled in has overflow checks.                              *)
Wrap(n) == ((n - Lowest) % 2 ^ Width) + Lowest
Overflows(n) == checks /\ n \notin Values

(* A panic ends the program.                                                 *)
Op(name, v, new, r) ==
    /\ last.op # "panic" /\ cell' = new /\ ret' = r /\ last' = [op |-> name, val |-> v]
    /\ UNCHANGED <<signed, checks>>

(* `*dst = n`, for an n that is computed first.                              *)
Arith(name, v, n) ==
    IF Overflows(n) THEN Op("panic", v, cell, ret) ELSE Op(name, v, Wrap(n), cell)

Init ==
    /\ signed \in BOOLEAN /\ checks \in BOOLEAN /\ cell \in Values
    /\ last = [op |-> "new", val |-> cell] /\ ret = cell

atomic_store(v) == Op("store", v, v, ret)
atomic_load == Op("load", cell, cell, cell)
atomic_swap(v) == Op("swap", v, v, cell)
atomic_add(v) == Arith("add", v, cell + v)
atomic_sub(v) == Arith("sub", v, cell - v)

(* compare_exchange, and compare_exchange_weak, which never fails for no     *)
(* reason.                                                                   *)
atomic_compare_exchange(old, new) ==
    Op("compare_exchange", old, IF cell = old THEN new ELSE cell, cell)

(* atomic_max and atomic_umax, atomic_min and atomic_umin: the order is that *)
(* of the integer type.                                                      *)
atomic_max(v) == Op("max", v, cell, Max({cell, v}))
atomic_min(v) == Op("min", v, cell, Min({cell, v}))

Next ==
    \/ atomic_load
    \/ \E v \in Values :
          \/ atomic_store(v) \/ atomic_swap(v) \/ atomic_add(v) \/ atomic_sub(v)
          \/ atomic_max(v) \/ atomic_min(v)
          \/ \E new \in Values : atomic_compare_exchange(v, new)

Spec == Init /\ [][Next]_vars

(* What the documentation of fetch_max and fetch_min says they do: set the   *)
(* new value to the result, and return the previous value (atomic.rs:2064).  *)
FetchMaxStores ==
    [][LET v == last'.val
       IN  /\ last'.op = "max" => cell' = Max({cell, v}) /\ ret' = cell
           /\ last'.op = "min" => cell' = Min({cell, v}) /\ ret' = cell]_vars
=============================================================================
