-------------------------------- MODULE Arc ---------------------------------
(* alloc::sync::Arc and Weak (alloc/src/sync.rs): one allocation, its two    *)
(* counts, and the handles that threads have to it.  An action is one access *)
(* to a count, in sequentially consistent order.  A handle that is being     *)
(* made by downgrade or upgrade borrows the one it is made from, and several *)
(* may borrow the same handle; the operations that take &mut self or self    *)
(* need a handle that nobody borrows.                                        *)
EXTENDS Integers, FiniteSets

CONSTANTS Handles,        \* places for an Arc or a Weak, each used by one thread
          None,
          MAX_REFCOUNT,   \* isize::MAX
          USIZE_MAX,      \* usize::MAX; as a weak count: locked by get_mut
          MaxForgotten,   \* bound: the Arcs passed to mem::forget
          MaxForgottenWeak   \* bound: the Weaks passed to mem::forget

ASSUME ArcAssumption ==
    /\ IsFiniteSet(Handles) /\ None \notin Handles
    /\ MAX_REFCOUNT \in Nat /\ USIZE_MAX \in Nat /\ MaxForgottenWeak \in Nat /\ 1 < USIZE_MAX
    /\ MAX_REFCOUNT + Cardinality(Handles) + 1 <= USIZE_MAX

VARIABLES
    strong, weak,
    data,       \* uninit, live, or gone: dropped or moved out
    freed,      \* the allocation has been freed
    kind,       \* what each handle has a share of: strong, weak, the implicit weak, none
    stage,      \* where the operation on each handle is
    from, cur,  \* the handle it borrows, and the count it has read
    forgotten, forgottenWeak,  \* Arcs and Weaks passed to mem::forget
    leaked,     \* the implicit weak was lost to a panic
    overflowed, \* the weak count has reached usize::MAX by counting
    aborted     \* the process has aborted

inner == <<strong, weak, data, freed>>
local == <<from, cur>>
ghost == <<forgotten, forgottenWeak, leaked, overflowed, aborted>>
arcVars == <<inner, kind, stage, local, ghost>>

(* Arc::new, or Arc::new_cyclic before it runs data_fn.                      *)
ArcInit ==
    /\ freed = FALSE /\ weak = 1 /\ forgotten = 0 /\ forgottenWeak = 0
    /\ leaked = FALSE /\ overflowed = FALSE /\ aborted = FALSE
    /\ from = [h \in Handles |-> None] /\ cur = [h \in Handles |-> 0]
    /\ \E h \in Handles, cyclic \in BOOLEAN :
          /\ strong = (IF cyclic THEN 0 ELSE 1) /\ data = (IF cyclic THEN "uninit" ELSE "live")
          /\ kind = [i \in Handles |-> IF i # h THEN "none" ELSE IF cyclic THEN "implicit" ELSE "strong"]
          /\ stage = [i \in Handles |-> IF i = h /\ cyclic THEN "cyclic" ELSE "idle"]

Free(h) == kind[h] = "none" /\ stage[h] = "idle"
Borrowed(h) == \E n \in Handles : from[n] = h

(* An Arc, or a Weak, that can be borrowed; new_cyclic lends its own.        *)
HasArc(h) == ~aborted /\ kind[h] = "strong" /\ stage[h] = "idle"
HasWeak(h) == ~aborted /\ ((kind[h] = "weak" /\ stage[h] = "idle") \/ stage[h] = "cyclic")
OwnsArc(h) == HasArc(h) /\ ~Borrowed(h)
OwnsWeak(h) == HasWeak(h) /\ ~Borrowed(h)

Set(h, k, at) == kind' = [kind EXCEPT ![h] = k] /\ stage' = [stage EXCEPT ![h] = at]
StepTo(h, at) == stage' = [stage EXCEPT ![h] = at] /\ UNCHANGED kind
Borrow(n, h, at, v) ==
    /\ StepTo(n, at) /\ from' = [from EXCEPT ![n] = h] /\ cur' = [cur EXCEPT ![n] = v]
Return(n, k) ==
    /\ Set(n, k, "idle") /\ from' = [from EXCEPT ![n] = None] /\ cur' = [cur EXCEPT ![n] = 0]

-----------------------------------------------------------------------------
(* Deviation of Overflows: the limit is not looked at.                       *)
OverflowsNever(c) == FALSE

Overflows(c) == c > MAX_REFCOUNT

(* Arc::clone: fetch_add, then the check; the count is past the limit while  *)
(* the thread is on its way to abort.                                        *)
Clone(h, n) ==
    /\ HasArc(h) /\ Free(n)
    /\ strong' = strong + 1
    /\ Set(n, "strong", IF Overflows(strong) THEN "abort" ELSE "idle")
    /\ UNCHANGED <<weak, data, freed, local, ghost>>

(* The weak count goes up by one, and from usize::MAX to zero.               *)
CountWeak ==
    /\ weak' = (IF weak = USIZE_MAX THEN 0 ELSE weak + 1)
    /\ overflowed' = (overflowed \/ weak' = USIZE_MAX)

(* Weak::clone                                                               *)
CloneWeak(h, n) ==
    /\ HasWeak(h) /\ Free(n)
    /\ CountWeak
    /\ Set(n, "weak", IF Overflows(weak) THEN "abort" ELSE "idle")
    /\ UNCHANGED <<strong, data, freed, local, forgotten, forgottenWeak, leaked, aborted>>

Abort(h) ==
    /\ ~aborted /\ stage[h] = "abort"
    /\ aborted' = TRUE
    /\ UNCHANGED <<inner, kind, stage, local, forgotten, forgottenWeak, leaked, overflowed>>

Forget(h) ==
    /\ OwnsArc(h) /\ forgotten < MaxForgotten
    /\ forgotten' = forgotten + 1 /\ Set(h, "none", "idle")
    /\ UNCHANGED <<inner, local, forgottenWeak, leaked, overflowed, aborted>>

ForgetWeak(h) ==
    /\ OwnsWeak(h) /\ kind[h] = "weak" /\ forgottenWeak < MaxForgottenWeak
    /\ forgottenWeak' = forgottenWeak + 1 /\ Set(h, "none", "idle")
    /\ UNCHANGED <<inner, local, forgotten, leaked, overflowed, aborted>>

(* Arc::downgrade: load the weak count, ...                                  *)
Downgrade(h, n) ==
    /\ HasArc(h) /\ Free(n)
    /\ Borrow(n, h, "downgrade", weak)
    /\ UNCHANGED <<inner, ghost>>

(* Deviation of Locked: downgrade does not look whether the count is locked. *)
LockedIgnored(c) == FALSE

Locked(c) == c = USIZE_MAX

(* ... spin while it is locked, and add one unless it has changed.  There is *)
(* no limit: enough of them take the count to the value that means locked.   *)
DowngradeExchange(n) ==
    /\ ~aborted /\ stage[n] = "downgrade"
    /\ IF ~Locked(cur[n]) /\ weak = cur[n]
       THEN CountWeak /\ Return(n, "weak")
       ELSE cur' = [cur EXCEPT ![n] = weak] /\ UNCHANGED <<weak, overflowed, kind, stage, from>>
    /\ UNCHANGED <<strong, data, freed, forgotten, forgottenWeak, leaked, aborted>>

(* Weak::upgrade: load the strong count, ...                                 *)
Upgrade(h, n) ==
    /\ HasWeak(h) /\ Free(n)
    /\ Borrow(n, h, "upgrade", strong)
    /\ UNCHANGED <<inner, ghost>>

(* Deviation of Dead: only the data's absence is noticed, not a zero count.  *)
DeadIgnored(c) == FALSE

Dead(c) == c = 0

(* ... give up if it is zero, abort past the limit, and add one unless it    *)
(* has changed.                                                              *)
UpgradeExchange(n) ==
    /\ ~aborted /\ stage[n] = "upgrade"
    /\ \/ Dead(cur[n]) /\ Return(n, "none") /\ UNCHANGED strong
       \/ ~Dead(cur[n]) /\ Overflows(cur[n]) /\ StepTo(n, "abort") /\ UNCHANGED <<strong, local>>
       \/ /\ ~Dead(cur[n]) /\ ~Overflows(cur[n])
          /\ IF strong = cur[n] THEN strong' = strong + 1 /\ Return(n, "strong")
             ELSE cur' = [cur EXCEPT ![n] = strong] /\ UNCHANGED <<strong, kind, stage, from>>
    /\ UNCHANGED <<weak, data, freed, ghost>>

(* Weak::weak_count reads the weak count, ...                                *)
WeakCount(h, n) ==
    /\ HasWeak(h) /\ Free(n)
    /\ Borrow(n, h, "count", weak)
    /\ UNCHANGED <<inner, ghost>>

(* ... and then the strong count, and answers 0 or one less.                 *)
WeakCountEnds(n) ==
    /\ ~aborted /\ stage[n] = "count"
    /\ Return(n, "none")
    /\ UNCHANGED <<inner, ghost>>

-----------------------------------------------------------------------------
(* Drop for Arc: the last one goes on to drop_slow.                          *)
Drop(h) ==
    /\ \/ OwnsArc(h)
       \/ kind[h] = "strong" /\ stage[h] = "replace" /\ ~aborted
    /\ strong' = strong - 1
    /\ IF strong = 1 THEN Set(h, "implicit", "dropdata") ELSE Set(h, "none", "idle")
    /\ UNCHANGED <<weak, data, freed, local, ghost>>

(* drop_slow: drop_in_place; if the value's destructor panics, the weak      *)
(* reference that the strong ones share is never dropped.                    *)
DropData(h) ==
    /\ ~aborted /\ stage[h] = "dropdata"
    /\ data' = "gone"
    /\ \/ StepTo(h, "dropweak") /\ UNCHANGED leaked
       \/ Set(h, "none", "idle") /\ leaked' = TRUE
    /\ UNCHANGED <<strong, weak, freed, local, forgotten, forgottenWeak, overflowed, aborted>>

(* Deviation of LastWeak: one that sees no Arc left frees the allocation.    *)
LastWeakNoArc == strong = 0

(* Deviation of LastWeak: fetch_sub is taken to return the new count.        *)
LastWeakNew == weak = 0

LastWeak == weak = 1

(* Drop for Weak, that of the implicit one and that of a new_cyclic whose    *)
(* data_fn panics included.                                                  *)
DropWeak(h) ==
    /\ OwnsWeak(h) \/ (stage[h] = "dropweak" /\ ~aborted)
    /\ weak' = (IF weak = 0 THEN USIZE_MAX ELSE weak - 1)
    /\ Set(h, "none", IF LastWeak THEN "free" ELSE "idle")
    /\ UNCHANGED <<strong, data, freed, local, ghost>>

Dealloc(h) ==
    /\ ~aborted /\ stage[h] = "free"
    /\ freed' = TRUE /\ StepTo(h, "idle")
    /\ UNCHANGED <<strong, weak, data, local, ghost>>

(* new_cyclic writes the data, ...                                           *)
CyclicWrite(h) ==
    /\ OwnsWeak(h) /\ stage[h] = "cyclic"
    /\ data' = "live" /\ StepTo(h, "cyclicadd")
    /\ UNCHANGED <<strong, weak, freed, local, ghost>>

(* ... counts the first Arc, which takes over the weak reference.            *)
CyclicAdd(h) ==
    /\ ~aborted /\ stage[h] = "cyclicadd"
    /\ strong' = strong + 1 /\ Set(h, "strong", "idle")
    /\ UNCHANGED <<weak, data, freed, local, ghost>>

-----------------------------------------------------------------------------
(* try_unwrap: with the only Arc, take the value and drop the implicit Weak; *)
(* otherwise give the Arc back.                                              *)
TryUnwrap(h) ==
    /\ OwnsArc(h)
    /\ IF strong = 1 THEN strong' = 0 /\ Set(h, "implicit", "moveout")
       ELSE UNCHANGED <<strong, kind, stage>>
    /\ UNCHANGED <<weak, data, freed, local, ghost>>

MoveOut(h) ==
    /\ ~aborted /\ stage[h] = "moveout"
    /\ data' = "gone" /\ StepTo(h, "dropweak")
    /\ UNCHANGED <<strong, weak, freed, local, ghost>>

(* get_mut, is_unique: lock the weak count if it is one, ...                 *)
GetMut(h) ==
    /\ OwnsArc(h)
    /\ IF weak = 1 THEN weak' = USIZE_MAX /\ StepTo(h, "locked") ELSE UNCHANGED <<weak, kind, stage>>
    /\ UNCHANGED <<strong, data, freed, local, ghost>>

(* Deviation of Unique: the weak count being one is taken to be enough.      *)
UniqueWeak == TRUE

Unique == strong = 1

(* ... look at the strong count, ...                                         *)
GetMutLoad(h) ==
    /\ ~aborted /\ stage[h] = "locked"
    /\ StepTo(h, IF Unique THEN "unlockmut" ELSE "unlock")
    /\ UNCHANGED <<inner, local, ghost>>

(* ... unlock, and return a mutable reference if there was one Arc.          *)
GetMutUnlock(h) ==
    /\ ~aborted /\ stage[h] \in {"unlock", "unlockmut"}
    /\ weak' = 1 /\ StepTo(h, IF stage[h] = "unlock" THEN "idle" ELSE "mut")
    /\ UNCHANGED <<strong, data, freed, local, ghost>>

(* make_mut: with other Arcs about, clone the value and let go of this one.  *)
MakeMut(h) ==
    /\ OwnsArc(h)
    /\ IF strong = 1 THEN strong' = 0 /\ Set(h, "implicit", "makemut")
       ELSE StepTo(h, "replace") /\ UNCHANGED strong
    /\ UNCHANGED <<weak, data, freed, local, ghost>>

(* Deviation of Alone: Weaks that are left are not looked for.               *)
AloneAlways == TRUE

Alone == weak = 1

(* Otherwise look for Weaks: leave them the empty allocation, or go on.      *)
MakeMutLoad(h) ==
    /\ ~aborted /\ stage[h] = "makemut"
    /\ StepTo(h, IF Alone THEN "restore" ELSE "moveout")
    /\ UNCHANGED <<inner, local, ghost>>

MakeMutRestore(h) ==
    /\ ~aborted /\ stage[h] = "restore"
    /\ strong' = 1 /\ Set(h, "strong", "mut")
    /\ UNCHANGED <<weak, data, freed, local, ghost>>

(* The mutable reference ends, or make_mut's clone of the value panics.      *)
EndMut(h) ==
    /\ ~aborted /\ stage[h] \in {"mut", "replace"}
    /\ StepTo(h, "idle")
    /\ UNCHANGED <<inner, local, ghost>>

-----------------------------------------------------------------------------
Pair(h, n) == Clone(h, n) \/ CloneWeak(h, n) \/ Downgrade(h, n) \/ Upgrade(h, n) \/ WeakCount(h, n)

Single(h) ==
    \/ Abort(h) \/ Forget(h) \/ ForgetWeak(h) \/ DowngradeExchange(h) \/ UpgradeExchange(h) \/ WeakCountEnds(h)
    \/ Drop(h) \/ DropData(h) \/ DropWeak(h) \/ Dealloc(h) \/ CyclicWrite(h) \/ CyclicAdd(h)
    \/ TryUnwrap(h) \/ MoveOut(h) \/ GetMut(h) \/ GetMutLoad(h) \/ GetMutUnlock(h)
    \/ MakeMut(h) \/ MakeMutLoad(h) \/ MakeMutRestore(h) \/ EndMut(h)

ArcNext == \E h \in Handles : Single(h) \/ \E n \in Handles : Pair(h, n)

ArcSpec == ArcInit /\ [][ArcNext]_arcVars

-----------------------------------------------------------------------------
ArcHandles == {h \in Handles : kind[h] = "strong"}
WeakHandles == {h \in Handles : kind[h] = "weak"}
Holders == {h \in Handles : kind[h] = "implicit"}   \* who has the implicit Weak to itself
Aborting == {h \in Handles : stage[h] = "abort"}

PCs == {"idle", "abort", "cyclic", "cyclicadd", "downgrade", "upgrade", "count", "dropdata",
        "dropweak", "free", "moveout", "locked", "unlock", "unlockmut", "makemut", "restore",
        "replace", "mut"}

(* The type of every variable.                                               *)
ArcTypeOK ==
    /\ strong \in 0 .. USIZE_MAX /\ weak \in 0 .. USIZE_MAX
    /\ data \in {"uninit", "live", "gone"}
    /\ freed \in BOOLEAN /\ leaked \in BOOLEAN /\ overflowed \in BOOLEAN /\ aborted \in BOOLEAN
    /\ forgotten \in Nat /\ forgottenWeak \in Nat
    /\ kind \in [Handles -> {"strong", "weak", "implicit", "none"}] /\ stage \in [Handles -> PCs]
    /\ from \in [Handles -> Handles \cup {None}] /\ cur \in [Handles -> 0 .. USIZE_MAX]

(* The weak count is locked.                                                 *)
Locking == \E h \in Handles : stage[h] \in {"locked", "unlock", "unlockmut"}

(* The Weak that the Arcs share is there.                                    *)
Implicit == strong > 0 \/ leaked \/ Holders # {}

(* The counts are those of the handles, whatever operations are in progress: *)
(* every Arc, forgotten ones included, and every Weak, plus the one that the *)
(* Arcs share until the last of them has dropped it.  This and what follows  *)
(* is so until the weak count overflows.                                     *)
CountsMatch ==
    ~overflowed =>
        /\ strong = Cardinality(ArcHandles) + forgotten
        /\ ~Locking => weak = Cardinality(WeakHandles) + forgottenWeak + (IF Implicit THEN 1 ELSE 0)

(* The strong count never wraps around, for all that clone checks the limit  *)
(* only after it has added one.  The weak count does overflow, for downgrade *)
(* has no limit (sync.rs:788): but only when as many Weaks as usize::MAX     *)
(* allows have been forgotten, and until then it has the locked value only   *)
(* while get_mut has locked it.                                              *)
NeverWraps ==
    IF overflowed THEN forgottenWeak + Cardinality(Handles) + 1 >= USIZE_MAX
    ELSE /\ strong <= MAX_REFCOUNT + 1 + Cardinality(Aborting)
         /\ weak = USIZE_MAX <=> Locking

(* The allocation outlives every handle, and the value every Arc.            *)
NoUseAfterFree ==
    ~overflowed =>
        /\ freed => \A h \in Handles : kind[h] = "none" /\ stage[h] = "idle"
        /\ ArcHandles # {} => data = "live"
        /\ \A h \in Handles : stage[h] \in {"dropdata", "moveout", "makemut", "restore"} => data = "live"

(* Whoever has the mutable reference of get_mut or make_mut has the only     *)
(* handle: no other Arc, and no Weak that could be upgraded.                 *)
ExclusiveAccess ==
    ~overflowed =>
        \A h \in Handles : stage[h] = "mut" =>
            \A o \in Handles \ {h} : kind[o] = "none" /\ stage[o] = "idle"

(* Nothing leaks: with no handle left, and none forgotten or lost to a       *)
(* panic, the value is gone and the allocation freed.                        *)
NothingLeaks ==
    ~overflowed /\ ~leaked /\ forgotten + forgottenWeak = 0 /\ (\A h \in Handles : Free(h))
        => freed /\ data # "live"

(* A Weak that counts the Weaks, and finds an Arc after it has read the weak *)
(* count, has counted itself and the shared one (sync.rs:1758).              *)
WeakCountIsTrue ==
    ~overflowed =>
        \A n \in Handles : stage[n] = "count" /\ strong > 0 => cur[n] \in 2 .. USIZE_MAX - 1
=============================================================================
