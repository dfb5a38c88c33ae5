# Verification of the BPF sysroot

This directory holds TLA+ specifications of parts of the Rust system libraries
and of the compiler runtime in this repository, TLC configurations that
model-check them on small instances, and TLAPS proofs of the main results for
any number of threads, handles or closures. `PROJECT.json` lists the
components, the runs, the lines of source each definition translates, the
hazards and the theorems.

Paths below are relative to the repository's `src/` directory; `mpsc/` stands
for `std/src/sync/mpsc/` and `builtins/` for `compiler-rt/lib/builtins/`.

## The system and its parts

The repository is a fork of the Rust sysroot for the BPF target: `core`,
`alloc` and `std`, the abort-only panic runtime, the unwinder's bindings and a
vendored copy of LLVM's `compiler-rt`. Two kinds of code in it are modelled:
what threads share, where tests hardly reach the interleavings, and sequential
code with many cases, where tests hardly reach the combinations.

| Part | Operations | What makes it hard |
|---|---|---|
| `Once` (`std/src/sync/once.rs`) | `call_once`, `call_once_force`, `wait`, `WaiterQueue::drop` | lock-free list of nodes on the waiters' stacks, panicking closures, late and spurious wakeups |
| Parkers (`std/src/sys_common/thread_parker/`) | `park`, `park_timeout`, `unpark` | lost wakeups, timeouts racing an unpark |
| Oneshot packet (`mpsc/oneshot.rs`) | send, upgrade, receive with and without deadline, drops | cells without synchronisation, upgrade while blocked, aborted waits |
| Queues (`mpsc/spsc_queue.rs`, `mpsc/mpsc_queue.rs`) | push, pop, drop | nodes reused from a stale copy of the other side's position; a push in two steps |
| Stream packet (`mpsc/stream.rs`) | as oneshot, for many messages | the count is exact only together with what the receiver has not accounted for yet |
| Shared packet (`mpsc/shared.rs`) | same, and clone | disconnection is a range of counts; a sleeper inherited from the packet that is upgraded |
| Sync packet (`mpsc/sync.rs`) | send, `try_send`, receive, drops | rendezvous, signals sent after the lock is released |
| `Arc`, `Weak` (`alloc/src/sync.rs`) | clone, downgrade, upgrade, drops, `get_mut`, `make_mut`, `try_unwrap`, `new_cyclic` | two counts, one of which is also a lock; an overflow check after the increment |
| Locks on WebAssembly (`std/src/sys/wasm/`), `RwLock`, `Barrier` | lock, read, write, wait, notify, guards | a condvar that is a counter; poisoning; threads that overtake a wakeup |
| Locks of BPF (`std/src/sys/bpf/`) | same, one thread | a signed count that wraps around |
| Thread-local storage (`std/src/thread/local.rs`, `std/src/sys_common/thread_local_*.rs`) | lazy initialisation, destructor lists, lazy keys | a key that may be 0, destructors that initialise others |
| Exit (`std/src/sys_common/at_exit_imp.rs`) | `at_exit`, `cleanup` | closures that register closures while the process ends |
| Buffered writers (`std/src/io/buffered/`) | write, vectored write, flush, drop | an inner writer that takes a part, fails or panics |
| `VecDeque` (`alloc/src/collections/vec_deque/`) | every operation that moves elements | a ring in two pieces |
| `BTreeMap` (`alloc/src/collections/btree/`) | insert, remove, split, append, filter, ranges, consuming iteration, clone | rebalancing, parent links, trees cut in two and joined |
| String search (`core/src/str/pattern.rs`, `core/src/slice/memchr.rs`) | searchers, splitting, trimming, `memchr` | two-way search with a memory; bytes and characters; word-wise scanning |
| Soft float, wide integers (`builtins/`) | arithmetic, comparison, conversion | rounding, subnormals, carries between words |
| BPF atomics (`core/src/sync/atomic.rs`) | load, store, read-modify-write | written by hand per operation |

The parts that interact are composed along these lines.

* A blocking receive parks its thread (`mpsc/blocking.rs`), and so does a waiter
  of `Once`. `ParkSpec` says what parking promises, and both parkers are shown
  to implement it. `Once` has a park token with exactly these steps.
* The packets push to and pop from the queues. `FifoSpec` says what a queue
  promises, and both queues are shown to implement it. `Stream` uses an atomic
  FIFO; `Shared` one whose newest entries may not be linked yet, the one
  weakness `FifoSpec` allows. Tokens of `mpsc/blocking.rs` are modelled by
  their `woken` flag.
* `RwLock` and `Barrier` run over the actions of `WasmMutex` themselves, the
  mutex and condvar being part of their state.
* A channel changes its packet. `Oneshot` and `Stream` end with the upgrade,
  and `Shared` begins with it, the receiver idle or asleep in the old packet.
* Splitting and trimming (`StrIter`) call the searcher of `StrPattern`, the one
  that `StrSearcher` checks by itself. `CharSearcher` uses `memchr` by its
  result, which `Memchr` checks.

### Correctness properties

At most one initialiser runs, and no call returns before it has; no thread
touches a stack frame, a node or an allocation that is gone; no wakeup is lost;
what is sent is received in order, returned to its sender, or dropped with the
channel, once; queues have one consumer; disconnection and upgrade are seen
last; reference counts are those of the references; locks have the holders
their state says; every value and every closure registered for the end is
treated once; a writer is given every byte once and in order; collections,
searches and arithmetic do what their mathematical definitions say; no
assertion or `unreachable!()` in the code is reached; operations that must end
do.

## Modules

In the concurrent modules one action is one access to shared memory (an atomic
operation, or a plain cell that another thread may touch) together with the
local code around it; in `Sync` it is one critical section of the packet's
mutex. Memory is sequentially consistent. The channels use `SeqCst` for
everything the argument rests on; for `Once`, `Arc` and the queues the weaker
orderings are not examined. In the sequential modules one action is one call.
Names follow the source. Small operators such as `AfterAdd` or `Bumped` stand
for one decision of the code; each operator commented "Deviation of X" is X
with a plausible mistake in it and is used only to show that a property notices
it.

| Module | Models | Correspondence |
|---|---|---|
| `OnceSpec` | what `Once` promises | a call begins, runs, ends, returns or panics |
| `Once` | `once.rs` | `Load`, `Exchange*`, `Init*` are `call_inner`; `Enqueue*`, `CheckSignaled`, `Unparked` are `wait`; `DropSwap`, `Walk*` are `WaiterQueue::drop`. A node is named after its thread |
| `ParkSpec` | what parking promises | a token, consumed by park |
| `FutexParker`, `GenericParker`, `Parker` | `futex.rs`, `generic.rs`, either of them | the word with the kernel's futex from its use; the flag, the mutex and the condvar, which may wake for no reason |
| `FifoSpec` | what a queue promises | |
| `SpscQueue`, `MpscQueue` | the two queues | nodes are addresses that can be freed and handed out again |
| `Queues` | either of these two | chosen in the initial state |
| `Oneshot` | `mpsc/oneshot.rs` | the two cells are steps of their own, so that races between them show; of the packet upgraded to only `port_dropped` is kept, on which the send into it depends |
| `Stream` | `mpsc/stream.rs` and its use in `mpsc/mod.rs` | |
| `Shared` | `mpsc/shared.rs`, `Sender::clone`, `inherit_blocker` | begins with the creation of the packet |
| `Sync` | `mpsc/sync.rs` | |
| `Channels` | one of these four packets | chosen in the initial state |
| `Arc` | `alloc/src/sync.rs` | `Handles` are places for an `Arc` or a `Weak`; `kind` is what each has a share of, `stage` where its operation is, and `overflowed` that the weak count has come to `usize::MAX` by counting. A handle that is being made borrows the one it is made from, as `&self` does |
| `WasmMutex` | mutex and condvar of `sys/wasm` | one action per access to a word, over `wait` and `notify`; used by the next two |
| `RwLock` | `sync/rwlock.rs`, `sys_common/poison.rs`, `sys/wasm/rwlock_atomics.rs` | `hold` and `sawPoison` are a thread's guard; `struck` says that a panic began under the guard and has not been caught, `torn` remembers a write guard that was dropped so |
| `Barrier` | `sync/barrier.rs` | |
| `ReentrantMutex` | `sys/wasm/mutex_atomics.rs` | |
| `BpfLocks` | `sys/bpf/mutex.rs`, `sys/bpf/rwlock.rs` | one thread, which may ask for a lock it has |
| `Locks` | one of these four | chosen in the initial state |
| `ThreadLocal` | `thread/local.rs` (`mod fast`), `thread_local_dtor.rs`, `thread_local_key.rs` | user code runs where `pc` is "user": in the thread, in an initialiser or in a destructor, as the top of `stack` says |
| `AtExit` | `at_exit_imp.rs` and `sys_common::cleanup` | |
| `Teardown` | either of these two | `part` says which |
| `BufWriter` | `io/buffered/` and stdout's exchange of its writer at exit | a byte is its position in the text; a call is a sequence of tasks, each of which does one thing to the buffer or to the inner writer |
| `VecDeque` | `collections/vec_deque/` | `ring` is the buffer with `head` and `tail` |
| `BTreeMap` | `collections/btree/` | nodes on a heap with parent links; an entry is its key |
| `StrPattern` | `core/src/str/pattern.rs`, the searcher of a `&str` | an empty needle, or Two-Way with its memories, on the bytes of characters of one to three bytes |
| `StrSearcher`, `CharSearcher` | a caller of that searcher, and of the one of a `char` | |
| `StrIter` | `core/src/str/iter.rs`, the cutting methods of `str` | each iterator is run to its end |
| `Memchr` | `core/src/slice/memchr.rs` | |
| `SoftFloat` | `builtins/fp_*.inc`, comparison and conversions | parameterised by the format, as the source is |
| `WideInt` | `builtins/*ti*.c`, `udivmoddi4.c`, `int_*_impl.inc` | parameterised by the width of a word |
| `BpfAtomic` | the `cfg(target_arch = "bpf")` functions of `atomic.rs` | integers of `Width` bits, signed or not, in a crate built with overflow checks or without |
| `*Proofs` | | proofs, see below |
| `MC*` | | instances for TLC. `MCLockFree`, `MCParker` and `MCSequential` choose one of several components in their initial state; variables of the others are not used then. The other modules are run as they are |

## Runs

| Run | Checks | Instance | Distinct states |
|---|---|---|---|
| `lockfree` | `Arc`: counts are those of the handles, wrapping, no use after free, exclusive access, no leak, `weak_count` was true; `Once`: live nodes only, returns only when initialised, implements `OnceSpec` | 3 handles, limit 3, `USIZE_MAX` 7, 6 forgotten `Arc`s, 5 forgotten `Weak`s; 3 threads, symmetric | 656,457 |
| `park` | no panic and the word in range, implements `ParkSpec`, the token ends park, no waiter of a `Once` is left behind | 3 unparkers; 2 threads of a `Once`; fair | 8,162 |
| `queues` | safe reuse, no use after free, no leak, implements `FifoSpec` | 6 nodes, 3 values queued, 2 pushers | 24,592 |
| `channels` | ten properties of the four packets, see `Channels` | oneshot; stream with 2 messages queued; shared with 2 senders that clone and drop and 2 messages; sync with 2 senders and capacities 0, 1 and 2; fair | 390,980 |
| `locks` | no panic, holders match, poison is seen, a barrier's crowd leaves together, every call returns | 3 threads, 3 calls, 2 panics; barriers of 0 to 3; `ISIZE_MAX` 3; fair | 663,148 |
| `teardown` | one key, destroyed once, accepted closures run once, every thread ends | 2 threads, 2 locals, keys 0 to 3; 2 callers, 3 closures, 3 rounds; fair | 277,506 |
| `sequential` | what the writer was told is kept, lines go out, searches and calls match their definitions | see Bounds | 1,747,251 |
| `stream_recv_empty` | finding 1 | stream with two deadlines | |
| `shared_timed` | finding 2 | shared with two deadlines | |
| `str_fused` | finding 3 | haystacks of 2 bytes | |
| `bpf_fetch_max` | finding 4 | 3-bit integers | |
| `oneshot_upgrade_send` | finding 5 | oneshot with 2 tokens | |

**Bounds of the concurrent runs.** Three threads of a `Once` make a list of two
waiters behind a runner, and a second run that meets late wakeups of the first;
the proofs cover any number. Six nodes let the stream's queue recycle a node
while three others are in the list. `MAX_STEALS` is 2^20 in the code and 1
here, so that folding the steals into the count, which takes a million messages
there, happens at once. `ISIZE_MAX` is small for the same reason (15 and 31
leave room between the disconnected range and the ordinary counts, as the code's
comment on `FUDGE` requires of the number of threads). `MaxLen` bounds only the
guard of a send. A receiver needs a second token only when an earlier one may
still be signalled late; the token constants exceed that by one. `MaxLate` is
the number of deadlines that pass: after one the properties that depend on the
exact count are not claimed (findings 1 and 2), and the rest are still checked.
In `lockfree` the limit 3 with three handles and six forgotten `Arc`s lets
several threads pass `clone`'s check at once and meet the abort, and five
forgotten `Weak`s bring the weak count to `USIZE_MAX` and past it. The limit of
`clone` for channels (`MAX_REFCOUNT`) ends the program and is not met by two
senders. Two panics in `locks` let one be caught while its
guard lives on and another unwind. There three
threads give a reader, a second reader and a writer, or a barrier whose last
arrival overtakes a sleeper; four BPF read guards exceed `ISIZE_MAX` = 3. In
`teardown` key 0 among the keys makes the second creation happen, and three
closures with three rounds let the last round meet a new closure.

**Bounds of `sequential`.** Each component has the smallest inputs in which
every branch of its code is taken; coverage was looked at for each.

* Writers: texts of 4 bytes with newlines anywhere, buffers of 0 to 3 bytes,
  so that data fits, just fits, overflows or bypasses the buffer.
* `VecDeque`: every ring of 2, 4, 8 and 16 slots. A call depends only on the
  ring, and every position of `tail` and `head` can be reached.
* `BTreeMap`: `B` = 3 (6 in the code). `handle_shrunk_node_recursively` takes a node
  without entries for the root, which needs a least length of two. Trees
  have height 0, 1 and 2 and all nodes at the least length except the
  neighbours a call may rearrange, which have every length: rebalancing looks at
  a node, its parent and one sibling, and goes up one level at a time. Height 2 lets
  it go up twice and replace the root. Ranges and filters are
  taken over smaller trees (`MaxScanned`, `MaxScannedDeep`); appended maps of up
  to 45 entries build two levels.
* Soft float: 3 significand and 4 exponent bits, and a narrower and a broader
  format to convert to and from; all operands. They include zeros, denormals,
  infinities, NaNs, cancellation, carries, ties and overflow. Subtraction, which is
  addition with a sign flipped, has fewer second operands.
* Wide integers: words of 4 bits, all pairs.
* Strings: haystacks of 5 bytes and needles of 4 for the searchers, 5 and 3
  for the iterators. Only in longer haystacks is what the two-way search remembers
  first right and then outdated; those of 8 bytes have two letters. A needle of 4 bytes
  can have period 1, 2 or 3, or none, which are the cases the two-way search
  tells apart. The characters are chosen so that the byte set cannot
  tell them apart and one has the last byte of another in its middle.
* `memchr`: words of 2 bytes of 3 bits, texts of 8 bytes at every alignment:
  an unaligned head, two pairs of words at most, and a tail.

**Deadlock.** A channel whose handles are all gone, a queue that was dropped, an
`Arc` that was freed, a process that has ended and a call that has returned
have nothing left to do, and the bounded numbers of calls in `locks` run out.
These runs do not check for deadlock; their liveness properties say that nobody
is stuck. `park`, which includes a `Once` with two threads, does.

**Fairness.** A thread inside a library operation keeps running (weak fairness
of its steps); nobody is obliged to begin one. In `locks` whoever has a guard
drops it at last, without which no lock could promise anything. In `park` a
mutex is not taken away from the same thread for ever (strong fairness of the lock
step), as the platform's mutexes promise to a thread that waits. User code in
initialisers and destructors ends (`teardown`). No deadline is obliged to pass.
Spurious wakeups are allowed and never relied on.

## Findings

1. `stream_recv_empty`. `recv` of a stream packet takes one off `steals` when
   its second `try_recv` finds a message, also after `abort_selection` has
   cancelled the reservation because the deadline passed. The count is then one
   too high, a later `recv` without deadline does not sleep on an empty queue,
   gets `Empty`, and reaches the `unreachable!()` at `mpsc/mod.rs:1129`.
2. `shared_timed`. A `recv_timeout` that ends in the old packet while
   `Sender::clone` upgrades it leaves its token in the new packet's `to_wake`;
   the next blocking receive fails `assert_eq!(self.to_wake.load(..), 0)`
   (`mpsc/shared.rs:251`).
3. `str_fused`. With an empty needle `StrSearcher::next` flips `is_match_fw`
   on every call, also after `Done`, so `match_indices("")` and `matches("")`
   yield the match at the end again after `None`. They are declared
   `FusedIterator`: "An iterator that always continues to yield `None` when
   exhausted." (`core/src/iter/traits/marker.rs:1`).
4. `bpf_fetch_max`. On BPF `atomic_max`, `atomic_min` and their unsigned
   versions return the maximum or minimum and never store it. The documentation
   of `fetch_max` says it "sets the new value to the result" and "Returns the
   previous value" (`core/src/sync/atomic.rs:2064`).
5. `oneshot_upgrade_send`. A second `send` that finds the receiver asleep in the
   oneshot packet upgrades it and unwraps the result of sending into the new
   packet: "This send cannot panic because the thread is asleep (we're looking at
   it), so the receiver can't go away." (`mpsc/mod.rs:783`). A receiver in
   `recv_timeout` can: its deadline passes, `abort_selection` hands it the new
   port, it returns `Timeout` and is dropped, all before the send, and the unwrap
   panics.

The first two are behind the condition `late = 0` in properties of `Stream` and
`Shared`. The end of `drop_port` needs it too: with the count one too high its
loop never meets its exit condition. So does `NeverPanics`: a deadline that
passes between the two steps of `drop_chan` meets the assertion at
`mpsc/stream.rs:392`. `NeverPanics` of `Oneshot` allows the panic of finding 5 in
just that situation.

Observations that no run reports. In `SpscQueue` the counter `cached_nodes`
is compared with the bound but never increased (`mpsc/spsc_queue.rs:180`); the cache
then grows with the longest backlog, which affects memory only, and
`NothingLeaks` shows that all of it is released. In the conversion to signed
integers "If the value is too large for the integer type, saturate."
(`builtins/fp_fixint_impl.inc:30`) is done for exponents from the width on; a
number between 2^(w-1) and 2^w is not saturated, and the C standard leaves that
result undefined. `SoftFloat` compares results only where the value fits or is saturated.
"An RwLock is poisoned whenever a writer panics while holding an exclusive lock."
(`std/src/sync/rwlock.rs:240`) says more than the code does: a panic that is caught
while the guard lives on does not poison the lock, nor does one during which
the guard was taken; `PoisonSeen` states what the code does. `Arc::downgrade`
"ignores the possibility of overflow into usize::MAX" (`alloc/src/sync.rs:788`);
the properties of `Arc` are claimed until then. On BPF `atomic_add` and
`atomic_sub` use plain `+` and `-`, which panic in a crate built with overflow checks,
while `fetch_add` is documented with "This operation wraps around on overflow."
(`core/src/sync/atomic.rs:1813`).

## Proofs

Seven modules hold the proofs. Each finds an inductive invariant, shows with one
step or lemma per action that it is kept, and derives the properties from it.
Each invariant was model-checked before it was proved. The assumptions named
below are ASSUMEs of the modules that are run, so that TLC evaluates them.

* **`OnceProofs`**, for any set of threads, assuming only that the null pointer
  is no thread (`NullAssumption`). The invariant is `TypeOK /\ RunInv /\ ListInv`.
  `RunInv` ties the word to the runner: RUNNING exactly while one thread runs,
  its guard holds POISONED or COMPLETE, and a thread that is past its run has
  left the word COMPLETE if it succeeded. `ListInv` is needed for the walk over
  the waiters. Reachability along the list would need an induction over data, so
  it is replaced by one fact per link: what the word, a `next` field or a
  walker's local points to is a waiter that has not been signalled, and no two of
  them point to the same one. Then signalling a node, which ends its life,
  cannot cut a list that anyone still holds. From it follow `TypeCorrect`,
  `MutualExclusion`, `WalkIsSafe`, `ReturnImpliesInitialised`, the action
  properties `CompletedStays` and `PoisonStays`, and `Refinement`: `Once`
  implements `OnceSpec`.
  The module also holds the proofs about the two parkers, for any set of unparkers
  that are not named like the other states of the lock (`UnparkersAssumption`). `fetch_sub(1)` on PARKED would give
  -2, so the range of the futex word is not inductive alone; the invariant adds
  that the word is PARKED only while the owner is inside `park`. For the generic
  parker it says who holds the mutex and that only a waiting owner leaves
  PARKED in the flag. `ParkerNoPanic`, and `ParkerRefinement`: both implement `ParkSpec`.
* **`ArcProofs`**, for any finite set of handles, any limit and any number of
  forgotten `Arc`s. `ArcAssumption` asks that `usize` has room for one reference
  per handle above the limit, as the comment in `Arc::clone` does of the number
  of threads. Forgotten `Weak`s, which `downgrade` does not limit as `clone` does,
  can fill the weak count. So the invariant has two cases: once it has, there were
  about `usize::MAX` of them (`TooManyWeaks`) and nothing else is claimed; until then `IInv`
  holds. It counts: `strong` is the number
  of `Arc`s, `weak` that of `Weak`s and of the one that all `Arc`s share, unless it
  is locked. It adds who owns the shared `Weak` when there is no `Arc`, that at most one
  `Arc` holds the lock and then there is no `Weak`, and that whoever has found
  itself alone is. `CountUpdate` says once what changing one handle does to a
  cardinality. `CountsCorrect`, `CountsBounded`, `MemorySafe`, `Exclusive`,
  `NoLeak`. `CountedTruly` is about `weak_count`, whose two loads are two
  steps. The invariant adds that a count in progress has read at least 2, unless
  it counts through the `Weak` that `new_cyclic` lends before there is an `Arc`, or
  the last `Arc` is gone. It is kept because a strong count of 0
  is not left again except by `new_cyclic`, whose `Weak` is not lent any more then.
* **`LocksProofs`**, for any finite set of threads, any number of calls, waits and
  panics and any width of `isize` (`LocksAssumption`). The mutex's word is 1
  exactly while one thread is inside; the state of the `RWLock` is that of the guards;
  the poison flag is set exactly if a write guard was dropped by a panic that began
  under it (`TornInv`), because a guard not taken during a panic is panicking exactly while
  a panic that struck under it has not been caught (`GuardInv`); BPF's count is that of the readers until
  it wraps to a negative number, which keeps everyone out. A barrier is made
  for any number of threads. Its invariant counts the crowd of each generation:
  those who have left, those on their way out, and for the present generation
  those who wait, whose number is `count`. The lemmas use `Counting`, a few facts
  on sizes of sets of threads, which is drawn from the library's theorems at the
  end. `NoPanic`, `Holding`, `Poisoning`, and `Together` for `LeaveTogether`.
* **`TeardownProofs`**, for any threads, locals, keys and closures and any
  positive number of rounds (`ZeroIsAKey`, `NobodyIsNoThread`, `SomeLocals`,
  `SomeIterations`). `KeyInv` says which keys exist: the one in use, those that a
  thread has created and not yet published or given up, and 0 while its creator
  has not destroyed it. `LocalInv` says that a thread's lists hold exactly its
  registered locals, once each, and where it can be with which stack. `ExitInv`
  says the same of the accepted closures, that one caller is in `cleanup`, and
  that the queue is closed in its last round. Lemmas on lists without
  repetitions (`AppendList`, `TailList`, `CountList`, `ConcatList`) carry the
  counting. `KeyAgreed`, `DestroyedExactlyOnce`, `AcceptedRunOnce`.
* **`ChannelsProofs`**, about the oneshot packet and the bounded channel where
  `Channels` has chosen one of them.
  The oneshot packet has any set of tokens that differ from its flags
  (`OneshotAssumption`). `SenderInv` and `ReceiverInv` say what each half relies on
  at each place; `StateInv` says what the word tells of the other half: a token
  is there only while its receiver waits unsignalled, and the value is in the
  cell under DATA, or under EMPTY or a token while the sender is about to
  announce it. `UpgradedInv` says who can have dropped the port of the packet upgraded
  to: a receiver that has followed the upgrade, and if the sender found it asleep, one
  whose deadline has passed. `OneshotNoPanic`, `RaceFree` for `NoDataRace`, and `Drained`, which
  is itself part of the invariant. For the bounded channel it carries the
  invariant of `SyncProofs` over: `BoundedNoPanic`, `Received` for
  `OkMeansReceived`, `TakenBack` for `TakesBackItsOwn`, `SlotsInUse` for `NoIdleSlot`.
* **`SyncProofs`**, lemmas about `Sync` alone, for any finite set of senders, any
  tokens and any capacities (`Setting`, which follows from `SyncAssumption`). `RingInv`
  says which slots of the ring are filled,
  with the indices modulo the number of slots. `QueueInv` and `PendInv` say that a sleeping
  sender is in exactly one place: in the queue, or among those the receiver is
  about to signal, or signalled. `BlockerInv` and `MessageInv` tie the blocker,
  the pointer to the cancelled flag and the message in the slot together.
  `SlotInv` counts: while there is a queue, the messages and the senders that look
  for a slot are as many as the slots.
* **`MpscProofs`**, about the multi-producer queue where `Queues` has chosen it, for any
  pushers, nodes and values, assuming that null is no node (`NullAssumption`). As in `OnceProofs`
  reachability is replaced by facts about single links: a successor is in the list, no
  node has two predecessors, tail has none, and a push that has yet to link its
  node starts from one without a successor. So the node that pop frees, which
  has a successor, has no push that will write to it, and nothing points to it.
  `NoPanic` (both asserts of `pop`), `MemorySafe` for `NoUseAfterFree`.

`Channels` and `Queues` take a step of the component chosen and leave the rest
alone. `NoDataRace`, `OkMeansReceived`, `TakesBackItsOwn`, `NoIdleSlot` and
`NoUseAfterFree` speak of one component each, so the theorems state all of them.
`NeverPanics` and `DrainedBeforeLeaving` speak of several packets, and the
theorems state the part of the oneshot packet and of the bounded channel.

Only model-checked:

* all liveness properties (`TokenEndsPark`, `WaitersLeave`, `NobodyStranded`,
  `EveryCallReturns`, `EveryThreadEnds`): they need fairness and ENABLED,
  which the prover does not handle;
* what depends on the order of a list: that the queues are FIFOs and leak
  nothing (`ImplementsFifo`, `NothingLeaks`), and `ReuseIsSafe` of `SpscQueue`,
  which is stated along the list from `tail`: this needs induction over data;
* `Stream` and `Shared`: `CountBalanced`, `OnePopper`, `NothingLeftBehind` and
  their parts of `NeverPanics` and `DrainedBeforeLeaving`. Nothing puts them
  out of reach; their inductive invariants have not been worked out;
* the sequential components, which compare what loops compute with a
  definition: for every input that needs induction over data too.

## Not modelled

* Unicode tables (generated); the operating-system layers other than BPF's and the
  atomics versions of WebAssembly's locks (thin calls); files, network, processes
  and paths (I/O); formatting and number parsing (text and wide arithmetic); the
  panic runtime and the unwinder's bindings; generic code without state of its own.
* `compiler-rt` outside the routines above: sanitizers, fuzzer, profiling and
  XRay are most of its lines and are not built for BPF. Soft-float division is
  left out because its Newton steps are constants for one width and mean
  nothing for a small format.
* Sorting: its cases begin at lengths of 20 and more, whose inputs cannot be
  enumerated. `LinkedList`, `BinaryHeap`, `Vec` and `Rc`: one short step per call.
* The pthread `RWLock`, and the front ends of `Mutex` and `Condvar`, which add
  the poison flag modelled in `RwLock` and a check of an address.
* Within the modelled parts: memory orderings weaker than `SeqCst`; the
  iterators and error types of `mpsc/mod.rs`; `notify_one` and `wait_timeout` of
  WebAssembly's condvar; thread-locals under `mod os`; closures of `at_exit` that
  panic; `BufReader` and seeking; panics of comparisons and predicates inside
  `BTreeMap`, and the set operations of `BTreeSet`; `SplitInclusive` taken from both
  ends at once; fences and bit operations of the BPF atomics.

What could come next: a channel from oneshot through stream to shared against
one abstract channel; the counts of `Stream` and `Shared` as theorems;
`BTreeMap` with comparisons that panic.
