----------------------------- MODULE ArcProofs ------------------------------
(* Proofs about Arc and Weak, for any finite set of handles, any limit and   *)
(* any number of forgotten Arcs and Weaks.                                   *)
EXTENDS Arc, FiniteSetTheorems, TLAPS

(* What a handle has a share of at each point of an operation.               *)
Shape ==
    \A h \in Handles :
        /\ stage[h] \in {"downgrade", "upgrade", "count", "free"} => kind[h] = "none"
        /\ stage[h] \in {"locked", "unlock", "unlockmut", "replace", "mut"} => kind[h] = "strong"
        /\ kind[h] = "implicit" <=>
              stage[h] \in {"cyclic", "cyclicadd", "dropdata", "dropweak", "moveout", "makemut", "restore"}

(* Whoever borrows a handle finds it where it was.                           *)
Borrows ==
    \A n \in Handles :
        /\ stage[n] \in {"downgrade", "upgrade", "count"} => from[n] # None
        /\ stage[n] = "abort" /\ kind[n] = "none" => from[n] # None
        /\ from[n] # None =>
              \/ stage[from[n]] = "idle" /\ kind[from[n]] \in {"strong", "weak"}
              \/ stage[from[n]] = "cyclic"

(* The implicit Weak has one owner, and only when there is no Arc.           *)
OneHolder ==
    /\ \A h \in Handles : kind[h] = "implicit" =>
          strong = 0 /\ ~leaked /\ \A o \in Handles \ {h} : kind[o] # "implicit"
    /\ leaked => strong = 0

(* The weak count is locked by one Arc, and then there is no Weak.           *)
OneLocker ==
    \A h \in Handles : stage[h] \in {"locked", "unlock", "unlockmut"} =>
        /\ weak = USIZE_MAX /\ forgottenWeak = 0
        /\ \A o \in Handles \ {h} :
              kind[o] # "weak" /\ stage[o] \notin {"locked", "unlock", "unlockmut"}

(* Who has found that it is alone, and has not yet said so.                  *)
Alones ==
    \A h \in Handles : stage[h] \in {"unlockmut", "mut", "restore"} =>
        /\ stage[h] # "unlockmut" => weak = 1
        /\ forgotten = 0 /\ forgottenWeak = 0
        /\ \A o \in Handles \ {h} : kind[o] = "none" /\ stage[o] = "idle"

(* The value is there for every Arc and for whoever is about to take it, and *)
(* for nobody else.                                                          *)
DataLive ==
    data = "live" <=>
        \/ strong > 0
        \/ \E h \in Handles : stage[h] \in {"cyclicadd", "dropdata", "moveout", "makemut", "restore"}

(* The allocation is freed once, when neither count is left.                 *)
FreedOnce ==
    /\ weak = 0 => freed \/ \E h \in Handles : stage[h] = "free"
    /\ freed => weak = 0 /\ \A h \in Handles : stage[h] # "free"
    /\ \A h \in Handles : stage[h] = "free" =>
          weak = 0 /\ ~freed /\ \A o \in Handles \ {h} : stage[o] # "free"

(* How many handles a function takes to a value.                             *)
Count(f, v) == Cardinality({h \in Handles : f[h] = v})

(* The Weak that the Arcs share is there.                                    *)
HasImplicit == strong > 0 \/ leaked \/ \E h \in Handles : kind[h] = "implicit"

(* The two counts and the limit, in terms of Count.                          *)
Counts ==
    /\ strong = Count(kind, "strong") + forgotten
    /\ ~Locking => weak = Count(kind, "weak") + forgottenWeak
                          + (IF HasImplicit THEN 1 ELSE 0)
    /\ strong <= MAX_REFCOUNT + 1 + Count(stage, "abort")
    /\ weak <= USIZE_MAX /\ (weak = USIZE_MAX <=> Locking)

(* What holds until the weak count overflows.                                *)
IInv ==
    /\ ArcTypeOK /\ Counts
    /\ Shape /\ Borrows /\ OneHolder /\ OneLocker /\ Alones /\ DataLive /\ FreedOnce

(* Enough Weaks have been forgotten for the weak count to overflow.          *)
TooManyWeaks == forgottenWeak \in Nat /\ forgottenWeak + Cardinality(Handles) + 1 >= USIZE_MAX

Inv == IF overflowed THEN TooManyWeaks ELSE IInv

-----------------------------------------------------------------------------
(* What a count says about the handles.                                      *)
LEMMA CountFacts ==
    ASSUME NEW f, NEW v
    PROVE  /\ Count(f, v) \in Nat /\ Count(f, v) <= Cardinality(Handles)
           /\ Count(f, v) = 0 <=> \A h \in Handles : f[h] # v
           /\ Count(f, v) = 1 => \A h, o \in Handles : f[h] = v /\ f[o] = v => h = o
<1> DEFINE S == {h \in Handles : f[h] = v}
<1>1. IsFiniteSet(S) /\ Cardinality(S) <= Cardinality(Handles)
    BY ArcAssumption, FS_Subset, Zenon
<1>2. Cardinality(S) \in Nat
    BY <1>1, FS_CardinalityType, Zenon
<1>3. Cardinality(S) = 0 <=> S = {}
    BY <1>1, FS_EmptySet, Zenon
<1>4. Cardinality(S) = 1 <=> \E x : S = {x}
    BY <1>1, FS_Singleton, Zenon
<1>5. Cardinality(S) = 1 => \A h, o \in Handles : f[h] = v /\ f[o] = v => h = o
    BY <1>4
<1> QED
    BY <1>1, <1>2, <1>3, <1>5, Zenon DEF Count

(* Two functions that agree except on one handle.                            *)
Agree(f, g, h) == \A i \in Handles \ {h} : g[i] = f[i]

(* What changing one handle does to a count.                                 *)
LEMMA CountUpdate ==
    ASSUME NEW f, NEW g, NEW h \in Handles, NEW v, Agree(f, g, h)
    PROVE  Count(g, v) = Count(f, v) + (IF g[h] = v THEN 1 ELSE 0) - (IF f[h] = v THEN 1 ELSE 0)
<1> DEFINE S == {i \in Handles : f[i] = v}
           T == {i \in Handles : g[i] = v}
<1>1. IsFiniteSet(S) /\ Cardinality(S) \in Nat
    BY ArcAssumption, FS_Subset, FS_CardinalityType, Zenon
<1>2. ASSUME g[h] = v
      PROVE  Cardinality(T) = Cardinality(S) + 1 - (IF f[h] = v THEN 1 ELSE 0)
    <2>1. T = S \cup {h} /\ (h \in S <=> f[h] = v)
        BY <1>2, Zenon DEF Agree
    <2>2. Cardinality(S \cup {h}) = IF h \in S THEN Cardinality(S) ELSE Cardinality(S) + 1
        BY <1>1, FS_AddElement, Zenon
    <2> HIDE DEF S, T
    <2> QED
        BY <1>1, <2>1, <2>2
<1>3. ASSUME g[h] # v
      PROVE  Cardinality(T) = Cardinality(S) - (IF f[h] = v THEN 1 ELSE 0)
    <2>1. T = S \ {h} /\ (h \in S <=> f[h] = v)
        BY <1>3 DEF Agree
    <2>2. Cardinality(S \ {h}) = IF h \in S THEN Cardinality(S) - 1 ELSE Cardinality(S)
        BY <1>1, FS_RemoveElement, Zenon
    <2> HIDE DEF S, T
    <2> QED
        BY <1>1, <2>1, <2>2
<1>4. Count(f, v) = Cardinality(S) /\ Count(g, v) = Cardinality(T)
    BY Zenon DEF Count
<1> HIDE DEF S, T
<1> QED
    BY <1>1, <1>2, <1>3, <1>4

(* The counts after a step that changes one handle.                          *)
LEMMA StepCounts ==
    ASSUME NEW h \in Handles, Agree(kind, kind', h), Agree(stage, stage', h)
    PROVE  /\ Count(kind, "strong")' = Count(kind, "strong")
                 + (IF kind'[h] = "strong" THEN 1 ELSE 0) - (IF kind[h] = "strong" THEN 1 ELSE 0)
           /\ Count(kind, "weak")' = Count(kind, "weak")
                 + (IF kind'[h] = "weak" THEN 1 ELSE 0) - (IF kind[h] = "weak" THEN 1 ELSE 0)
           /\ Count(stage, "abort")' = Count(stage, "abort")
                 + (IF stage'[h] = "abort" THEN 1 ELSE 0) - (IF stage[h] = "abort" THEN 1 ELSE 0)
BY CountUpdate

(* The types of what each handle has.                                        *)
Locals ==
    /\ kind \in [Handles -> {"strong", "weak", "implicit", "none"}] /\ stage \in [Handles -> PCs]
    /\ from \in [Handles -> Handles \cup {None}] /\ cur \in [Handles -> 0 .. USIZE_MAX]

(* What the invariant says about the handles without counting them.          *)
Derived ==
    /\ strong = 0 => forgotten = 0
    /\ \A h \in Handles : kind[h] = "strong" =>
          /\ strong > 0
          /\ strong = 1 => forgotten = 0 /\ \A o \in Handles \ {h} : kind[o] # "strong"
    /\ ~Locking /\ weak = 0 => ~HasImplicit /\ \A h \in Handles : kind[h] = "none"
    /\ ~Locking /\ weak = 1 /\ HasImplicit => forgottenWeak = 0 /\ \A h \in Handles : kind[h] # "weak"
    /\ ~Locking /\ weak = 1 /\ ~HasImplicit => \A h \in Handles : kind[h] = "weak" =>
          forgottenWeak = 0 /\ \A o \in Handles \ {h} : kind[o] = "none"

(* The invariant gives it.                                                   *)
LEMMA Derive == IInv => Derived
<1> SUFFICES ASSUME IInv PROVE Derived
    BY Zenon
<1> USE CountFacts DEF IInv, ArcTypeOK
<1>1. ASSUME NEW h \in Handles, kind[h] = "strong"
      PROVE  strong > 0 /\ (strong = 1 => forgotten = 0 /\ \A o \in Handles \ {h} : kind[o] # "strong")
    BY <1>1 DEF Counts
<1>2. strong = 0 => forgotten = 0
    BY DEF Counts
<1>3. ASSUME ~Locking, weak = 0
      PROVE  ~HasImplicit /\ \A h \in Handles : kind[h] = "none"
    <2>1. Count(kind, "weak") = 0 /\ ~HasImplicit
        BY <1>3 DEF Counts
    <2> QED
        BY <1>1, <2>1 DEF HasImplicit
<1>4. ~Locking /\ weak = 1 /\ HasImplicit => forgottenWeak = 0 /\ \A h \in Handles : kind[h] # "weak"
    BY DEF Counts
<1>5. ASSUME ~Locking, weak = 1, ~HasImplicit, NEW h \in Handles, kind[h] = "weak"
      PROVE  forgottenWeak = 0 /\ \A o \in Handles \ {h} : kind[o] = "none"
    <2>1. Count(kind, "weak") = 1 /\ forgottenWeak = 0
        BY <1>5 DEF Counts
    <2> QED
        BY <1>1, <1>5, <2>1 DEF HasImplicit
<1> QED
    BY <1>1, <1>2, <1>3, <1>4, <1>5, Zenon DEF Derived

(* The range of every count, before and after a step.                        *)
LEMMA Ranges ==
    /\ Cardinality(Handles) \in Nat
    /\ Count(kind, "strong") \in 0 .. Cardinality(Handles) /\ Count(kind, "strong")' \in 0 .. Cardinality(Handles)
    /\ Count(kind, "weak") \in 0 .. Cardinality(Handles) /\ Count(kind, "weak")' \in 0 .. Cardinality(Handles)
    /\ Count(stage, "abort") \in 0 .. Cardinality(Handles) /\ Count(stage, "abort")' \in 0 .. Cardinality(Handles)
BY CountFacts, ArcAssumption, FS_CardinalityType

(* The bounds of the two counts follow from the handles.                     *)
LEMMA Bounds ==
    ASSUME Counts', forgotten' \in Nat, forgottenWeak' \in Nat
    PROVE  strong' \in 0 .. USIZE_MAX /\ weak' \in 0 .. USIZE_MAX
BY Ranges, ArcAssumption DEF Counts

(* A step that changes nothing keeps the invariant.                          *)
LEMMA Stutter == IInv /\ UNCHANGED arcVars => IInv'
BY DEF IInv, arcVars, inner, local, ghost, ArcTypeOK, Counts, HasImplicit, Count, Locking,
       Shape, Borrows, OneHolder, OneLocker, Alones, DataLive, FreedOnce

(* Every step that does not overflow the weak count keeps it.                *)
LEMMA Step == IInv /\ ~overflowed' /\ ArcNext => IInv'
<1> SUFFICES ASSUME IInv, ~overflowed', ArcNext PROVE IInv'
    BY Zenon
<1>0. Derived
    BY Derive, Zenon
<1> USE ArcAssumption DEF IInv, ArcTypeOK, local, ghost
<1>1. ASSUME NEW h \in Handles, NEW n \in Handles, Clone(h, n) PROVE IInv'
    <2>1. /\ Agree(kind, kind', n) /\ Agree(stage, stage', n) /\ Locals'
          /\ kind[n] = "none" /\ stage[n] = "idle" /\ kind'[n] = "strong" /\ stage'[n] = (IF strong > MAX_REFCOUNT THEN "abort" ELSE "idle")
        BY <1>1, Zenon DEF Clone, Overflows, Set, Free, HasArc, Agree, Locals, PCs, Shape
    <2>2. /\ Count(kind, "strong")' = Count(kind, "strong") + 1
          /\ Count(kind, "weak")' = Count(kind, "weak")
          /\ Count(stage, "abort")' = Count(stage, "abort") + (IF strong > MAX_REFCOUNT THEN 1 ELSE 0)
        BY <2>1, StepCounts, Ranges
    <2>3. Locking' = Locking /\ HasImplicit' = HasImplicit
        BY <1>1, <1>0, CountFacts DEF Clone, Overflows, Set, Free, HasArc, Derived, Locking,
            HasImplicit, OneHolder, OneLocker, Shape
    <2>4. Counts'
        BY <1>1, <1>0, <2>2, <2>3, Ranges DEF Clone, Overflows, Set, Free, HasArc, Counts
    <2>5. ArcTypeOK'
        BY <1>1, <2>1, <2>4, Bounds, Zenon DEF Clone, Overflows, Set, Free, HasArc, Locals
    <2>6. (Shape /\ Borrows /\ OneHolder /\ OneLocker /\ Alones /\ DataLive /\ FreedOnce)'
        BY <1>1, <1>0 DEF Clone, Overflows, Set, Free, HasArc, Derived, HasImplicit, Locking,
            Shape, Borrows, OneHolder, OneLocker, Alones, DataLive, FreedOnce
    <2> QED
        BY <2>4, <2>5, <2>6, Zenon
<1>2. ASSUME NEW h \in Handles, NEW n \in Handles, CloneWeak(h, n) PROVE IInv'
    <2>1. /\ Agree(kind, kind', n) /\ Agree(stage, stage', n) /\ Locals'
          /\ kind[n] = "none" /\ stage[n] = "idle" /\ kind'[n] = "weak" /\ stage'[n] = (IF weak > MAX_REFCOUNT THEN "abort" ELSE "idle")
        BY <1>2, Zenon DEF CloneWeak, Overflows, Set, Free, HasWeak, Agree, Locals, PCs, Shape
    <2>2. /\ Count(kind, "strong")' = Count(kind, "strong")
          /\ Count(kind, "weak")' = Count(kind, "weak") + 1
          /\ Count(stage, "abort")' = Count(stage, "abort") + (IF weak > MAX_REFCOUNT THEN 1 ELSE 0)
        BY <2>1, StepCounts, Ranges
    <2>3. ~Locking /\ Locking' = Locking /\ HasImplicit' = HasImplicit
        BY <1>2, <1>0, CountFacts DEF CloneWeak, Overflows, Set, Free, HasWeak, Derived, Locking,
            HasImplicit, OneHolder, OneLocker, Shape
    <2>7. /\ weak # USIZE_MAX /\ weak' = weak + 1 /\ weak' # USIZE_MAX
          /\ overflowed' \in BOOLEAN
        BY <1>2, <2>3, Zenon DEF CloneWeak, CountWeak, Counts
    <2>4. Counts'
        BY <1>2, <1>0, <2>2, <2>3, <2>7, Ranges DEF CloneWeak, Overflows, Set, Free, HasWeak, Counts
    <2>5. ArcTypeOK'
        BY <1>2, <2>1, <2>4, <2>7, Bounds, Zenon DEF CloneWeak, Overflows, Set, Free, HasWeak, Locals
    <2>6. (Shape /\ Borrows /\ OneHolder /\ OneLocker /\ Alones /\ DataLive /\ FreedOnce)'
        BY <1>2, <1>0, <2>7 DEF CloneWeak, Overflows, Set, Free, HasWeak, Derived, HasImplicit, Locking,
            Shape, Borrows, OneHolder, OneLocker, Alones, DataLive, FreedOnce
    <2> QED
        BY <2>4, <2>5, <2>6, Zenon
<1>3. ASSUME NEW h \in Handles, NEW n \in Handles, Downgrade(h, n) PROVE IInv'
    <2>1. /\ Agree(kind, kind', n) /\ Agree(stage, stage', n) /\ Locals'
          /\ kind'[n] = kind[n] /\ stage[n] # "abort" /\ stage'[n] # "abort"
        BY <1>3, Zenon DEF Downgrade, Borrow, StepTo, Free, HasArc, inner, Agree, Locals, PCs, Shape
    <2>2. /\ Count(kind, "strong")' = Count(kind, "strong")
          /\ Count(kind, "weak")' = Count(kind, "weak")
          /\ Count(stage, "abort")' = Count(stage, "abort")
        BY <2>1, StepCounts, Ranges
    <2>3. Locking' = Locking /\ HasImplicit' = HasImplicit
        BY <1>3, <1>0, CountFacts, Zenon DEF Downgrade, Borrow, StepTo, Free, HasArc, inner, Derived,
            Locking, HasImplicit, OneHolder, OneLocker, Shape
    <2>4. Counts'
        BY <1>3, <1>0, <2>2, <2>3, Ranges, Zenon DEF Downgrade, Borrow, StepTo, Free, HasArc, inner, Counts
    <2>5. ArcTypeOK'
        BY <1>3, <2>1, <2>4, Bounds, Zenon DEF Downgrade, Borrow, StepTo, Free, HasArc, inner, Locals
    <2>6. (Shape /\ Borrows /\ OneHolder /\ OneLocker /\ Alones /\ DataLive /\ FreedOnce)'
        BY <1>3, <1>0 DEF Downgrade, Borrow, StepTo, Free, HasArc, inner, Derived, HasImplicit,
            Locking, Shape, Borrows, OneHolder, OneLocker, Alones, DataLive, FreedOnce
    <2> QED
        BY <2>4, <2>5, <2>6, Zenon
<1>4. ASSUME NEW h \in Handles, NEW n \in Handles, Upgrade(h, n) PROVE IInv'
    <2>1. /\ Agree(kind, kind', n) /\ Agree(stage, stage', n) /\ Locals'
          /\ kind'[n] = kind[n] /\ stage[n] # "abort" /\ stage'[n] # "abort"
        BY <1>4, Zenon DEF Upgrade, Borrow, StepTo, Free, HasWeak, inner, Agree, Locals, PCs, Shape
    <2>2. /\ Count(kind, "strong")' = Count(kind, "strong")
          /\ Count(kind, "weak")' = Count(kind, "weak")
          /\ Count(stage, "abort")' = Count(stage, "abort")
        BY <2>1, StepCounts, Ranges
    <2>3. Locking' = Locking /\ HasImplicit' = HasImplicit
        BY <1>4, <1>0, CountFacts, Zenon DEF Upgrade, Borrow, StepTo, Free, HasWeak, inner, Derived,
            Locking, HasImplicit, OneHolder, OneLocker, Shape
    <2>4. Counts'
        BY <1>4, <1>0, <2>2, <2>3, Ranges, Zenon DEF Upgrade, Borrow, StepTo, Free, HasWeak, inner, Counts
    <2>5. ArcTypeOK'
        BY <1>4, <2>1, <2>4, Bounds, Zenon DEF Upgrade, Borrow, StepTo, Free, HasWeak, inner, Locals
    <2>6. (Shape /\ Borrows /\ OneHolder /\ OneLocker /\ Alones /\ DataLive /\ FreedOnce)'
        BY <1>4, <1>0 DEF Upgrade, Borrow, StepTo, Free, HasWeak, inner, Derived, HasImplicit,
            Locking, Shape, Borrows, OneHolder, OneLocker, Alones, DataLive, FreedOnce
    <2> QED
        BY <2>4, <2>5, <2>6, Zenon
<1>5. ASSUME NEW h \in Handles, NEW n \in Handles, WeakCount(h, n) PROVE IInv'
    <2>1. /\ Agree(kind, kind', n) /\ Agree(stage, stage', n) /\ Locals'
          /\ kind'[n] = kind[n] /\ stage[n] # "abort" /\ stage'[n] # "abort"
        BY <1>5, Zenon DEF WeakCount, Borrow, StepTo, Free, HasWeak, inner, Agree, Locals, PCs, Shape
    <2>2. /\ Count(kind, "strong")' = Count(kind, "strong")
          /\ Count(kind, "weak")' = Count(kind, "weak")
          /\ Count(stage, "abort")' = Count(stage, "abort")
        BY <2>1, StepCounts, Ranges
    <2>3. Locking' = Locking /\ HasImplicit' = HasImplicit
        BY <1>5, <1>0, CountFacts, Zenon DEF WeakCount, Borrow, StepTo, Free, HasWeak, inner, Derived,
            Locking, HasImplicit, OneHolder, OneLocker, Shape
    <2>4. Counts'
        BY <1>5, <1>0, <2>2, <2>3, Ranges, Zenon DEF WeakCount, Borrow, StepTo, Free, HasWeak, inner, Counts
    <2>5. ArcTypeOK'
        BY <1>5, <2>1, <2>4, Bounds, Zenon DEF WeakCount, Borrow, StepTo, Free, HasWeak, inner, Locals
    <2>6. (Shape /\ Borrows /\ OneHolder /\ OneLocker /\ Alones /\ DataLive /\ FreedOnce)'
        BY <1>5, <1>0 DEF WeakCount, Borrow, StepTo, Free, HasWeak, inner, Derived, HasImplicit,
            Locking, Shape, Borrows, OneHolder, OneLocker, Alones, DataLive, FreedOnce
    <2> QED
        BY <2>4, <2>5, <2>6, Zenon
<1>6. ASSUME NEW h \in Handles, Abort(h) PROVE IInv'
    <2>1. /\ Agree(kind, kind', h) /\ Agree(stage, stage', h) /\ Locals'
          /\ kind'[h] = kind[h] /\ stage'[h] = stage[h]
        BY <1>6, Zenon DEF Abort, inner, Agree, Locals, PCs, Shape
    <2>2. /\ Count(kind, "strong")' = Count(kind, "strong")
          /\ Count(kind, "weak")' = Count(kind, "weak")
          /\ Count(stage, "abort")' = Count(stage, "abort")
        BY <2>1, StepCounts, Ranges
    <2>3. Locking' = Locking /\ HasImplicit' = HasImplicit
        BY <1>6, <1>0, CountFacts, Zenon DEF Abort, inner, Derived, Locking, HasImplicit, OneHolder,
            OneLocker, Shape
    <2>4. Counts'
        BY <1>6, <1>0, <2>2, <2>3, Ranges, Zenon DEF Abort, inner, Counts
    <2>5. ArcTypeOK'
        BY <1>6, <2>1, <2>4, Bounds, Zenon DEF Abort, inner, Locals
    <2>6. (Shape /\ Borrows /\ OneHolder /\ OneLocker /\ Alones /\ DataLive /\ FreedOnce)'
        BY <1>6, <1>0 DEF Abort, inner, Derived, HasImplicit, Locking, Shape, Borrows, OneHolder,
            OneLocker, Alones, DataLive, FreedOnce
    <2> QED
        BY <2>4, <2>5, <2>6, Zenon
<1>7. ASSUME NEW h \in Handles, Forget(h) PROVE IInv'
    <2>1. /\ Agree(kind, kind', h) /\ Agree(stage, stage', h) /\ Locals'
          /\ kind[h] = "strong" /\ kind'[h] = "none" /\ stage[h] # "abort" /\ stage'[h] # "abort"
        BY <1>7, Zenon DEF Forget, Set, OwnsArc, HasArc, Borrowed, inner, Agree, Locals, PCs, Shape
    <2>2. /\ Count(kind, "strong")' = Count(kind, "strong") - 1
          /\ Count(kind, "weak")' = Count(kind, "weak")
          /\ Count(stage, "abort")' = Count(stage, "abort")
        BY <2>1, StepCounts, Ranges
    <2>3. Locking' = Locking /\ HasImplicit' = HasImplicit
        BY <1>7, <1>0, CountFacts, Zenon DEF Forget, Set, OwnsArc, HasArc, Borrowed, inner, Derived,
            Locking, HasImplicit, OneHolder, OneLocker, Shape
    <2>4. Counts'
        BY <1>7, <1>0, <2>2, <2>3, Ranges DEF Forget, Set, OwnsArc, HasArc, Borrowed, inner, Counts
    <2>5. ArcTypeOK'
        BY <1>7, <2>1, <2>4, Bounds DEF Forget, Set, OwnsArc, HasArc, Borrowed, inner, Locals
    <2>6. (Shape /\ Borrows /\ OneHolder /\ OneLocker /\ Alones /\ DataLive /\ FreedOnce)'
        BY <1>7, <1>0 DEF Forget, Set, OwnsArc, HasArc, Borrowed, inner, Derived, HasImplicit,
            Locking, Shape, Borrows, OneHolder, OneLocker, Alones, DataLive, FreedOnce
    <2> QED
        BY <2>4, <2>5, <2>6, Zenon
<1>8. ASSUME NEW h \in Handles, ForgetWeak(h) PROVE IInv'
    <2>1. /\ Agree(kind, kind', h) /\ Agree(stage, stage', h) /\ Locals'
          /\ kind[h] = "weak" /\ kind'[h] = "none" /\ stage[h] # "abort" /\ stage'[h] # "abort"
        BY <1>8, Zenon DEF ForgetWeak, Set, OwnsWeak, HasWeak, Borrowed, inner, Agree, Locals, PCs, Shape
    <2>2. /\ Count(kind, "strong")' = Count(kind, "strong")
          /\ Count(kind, "weak")' = Count(kind, "weak") - 1
          /\ Count(stage, "abort")' = Count(stage, "abort")
        BY <2>1, StepCounts, Ranges
    <2>3. ~Locking /\ Locking' = Locking /\ HasImplicit' = HasImplicit
        BY <1>8, <1>0, CountFacts, Zenon DEF ForgetWeak, Set, OwnsWeak, HasWeak, Borrowed, inner, Derived,
            Locking, HasImplicit, OneHolder, OneLocker, Shape
    <2>4. Counts'
        BY <1>8, <1>0, <2>2, <2>3, Ranges DEF ForgetWeak, Set, OwnsWeak, HasWeak, Borrowed, inner,
            Counts
    <2>5. ArcTypeOK'
        BY <1>8, <2>1, <2>4, Bounds DEF ForgetWeak, Set, OwnsWeak, HasWeak, Borrowed, inner, Locals
    <2>6. (Shape /\ Borrows /\ OneHolder /\ OneLocker /\ Alones /\ DataLive /\ FreedOnce)'
        BY <1>8, <1>0 DEF ForgetWeak, Set, OwnsWeak, HasWeak, Borrowed, inner, Derived,
            HasImplicit, Locking, Shape, Borrows, OneHolder, OneLocker, Alones, DataLive, FreedOnce
    <2> QED
        BY <2>4, <2>5, <2>6, Zenon
<1>9. ASSUME NEW h \in Handles, DowngradeExchange(h) PROVE IInv'
    <2>1. /\ Agree(kind, kind', h) /\ Agree(stage, stage', h) /\ Locals'
          /\ kind[h] = "none" /\ kind'[h] = (IF cur[h] # USIZE_MAX /\ weak = cur[h] THEN "weak" ELSE "none")
          /\ stage[h] # "abort" /\ stage'[h] # "abort"
        BY <1>9 DEF DowngradeExchange, Locked, Return, Set, Agree, Locals, PCs, Shape
    <2>2. /\ Count(kind, "strong")' = Count(kind, "strong")
          /\ Count(kind, "weak")' = Count(kind, "weak") + (IF cur[h] # USIZE_MAX /\ weak = cur[h] THEN 1 ELSE 0)
          /\ Count(stage, "abort")' = Count(stage, "abort")
      <3>1. CASE cur[h] # USIZE_MAX /\ weak = cur[h]
          BY <3>1, <2>1, StepCounts, Ranges
      <3>2. CASE ~(cur[h] # USIZE_MAX /\ weak = cur[h])
          BY <3>2, <2>1, StepCounts, Ranges
      <3> QED
          BY <3>1, <3>2, Zenon
    <2>3. Locking' = Locking /\ HasImplicit' = HasImplicit
        BY <1>9, <1>0, CountFacts DEF DowngradeExchange, Locked, Return, Set, Derived, Locking,
            HasImplicit, OneHolder, OneLocker, Shape
    <2>7. /\ IF cur[h] # USIZE_MAX /\ weak = cur[h] THEN weak' = weak + 1 /\ weak' # USIZE_MAX
             ELSE weak' = weak
          /\ overflowed' \in BOOLEAN
        BY <1>9, Zenon DEF DowngradeExchange, Locked, CountWeak
    <2>4. Counts'
        BY <1>9, <1>0, <2>2, <2>3, <2>7, Ranges DEF DowngradeExchange, Locked, Return, Set, Counts
    <2>5. ArcTypeOK'
        BY <1>9, <2>1, <2>4, <2>7, Bounds, Zenon DEF DowngradeExchange, Locked, Return, Set, Locals
    <2>6. (Shape /\ Borrows /\ OneHolder /\ OneLocker /\ Alones /\ DataLive /\ FreedOnce)'
        BY <1>9, <1>0, <2>7 DEF DowngradeExchange, Locked, Return, Set, Derived, HasImplicit, Locking,
            Shape, Borrows, OneHolder, OneLocker, Alones, DataLive, FreedOnce
    <2> QED
        BY <2>4, <2>5, <2>6, Zenon
<1>10. ASSUME NEW h \in Handles, UpgradeExchange(h) PROVE IInv'
    <2>1. /\ Agree(kind, kind', h) /\ Agree(stage, stage', h) /\ Locals'
          /\ kind[h] = "none" /\ kind'[h] = (IF cur[h] # 0 /\ cur[h] <= MAX_REFCOUNT /\ strong = cur[h] THEN "strong" ELSE "none")
          /\ stage[h] # "abort" /\ (stage'[h] = "abort" <=> cur[h] > MAX_REFCOUNT)
        BY <1>10 DEF UpgradeExchange, Dead, Overflows, Return, StepTo, Set, Agree, Locals, PCs, Shape
    <2>2. /\ Count(kind, "strong")' = Count(kind, "strong") + (IF cur[h] # 0 /\ cur[h] <= MAX_REFCOUNT /\ strong = cur[h] THEN 1 ELSE 0)
          /\ Count(kind, "weak")' = Count(kind, "weak")
          /\ Count(stage, "abort")' = Count(stage, "abort") + (IF cur[h] > MAX_REFCOUNT THEN 1 ELSE 0)
        BY <2>1, StepCounts, Ranges
    <2>3. Locking' = Locking /\ HasImplicit' = HasImplicit
        BY <1>10, <1>0, CountFacts DEF UpgradeExchange, Dead, Overflows, Return, StepTo, Set,
            Derived, Locking, HasImplicit, OneHolder, OneLocker, Shape
    <2>4. Counts'
        BY <1>10, <1>0, <2>2, <2>3, Ranges DEF UpgradeExchange, Dead, Overflows, Return, StepTo, Set,
            Counts
    <2>5. ArcTypeOK'
        BY <1>10, <2>1, <2>4, Bounds, Zenon DEF UpgradeExchange, Dead, Overflows, Return, StepTo, Set, Locals
    <2>6. (Shape /\ Borrows /\ OneHolder /\ OneLocker /\ Alones /\ DataLive /\ FreedOnce)'
        BY <1>10, <1>0 DEF UpgradeExchange, Dead, Overflows, Return, StepTo, Set, Derived,
            HasImplicit, Locking, Shape, Borrows, OneHolder, OneLocker, Alones, DataLive, FreedOnce
    <2> QED
        BY <2>4, <2>5, <2>6, Zenon
<1>11. ASSUME NEW h \in Handles, WeakCountEnds(h) PROVE IInv'
    <2>1. /\ Agree(kind, kind', h) /\ Agree(stage, stage', h) /\ Locals'
          /\ kind[h] = "none" /\ kind'[h] = "none" /\ stage[h] # "abort" /\ stage'[h] # "abort"
        BY <1>11 DEF WeakCountEnds, Return, Set, inner, Agree, Locals, PCs, Shape
    <2>2. /\ Count(kind, "strong")' = Count(kind, "strong")
          /\ Count(kind, "weak")' = Count(kind, "weak")
          /\ Count(stage, "abort")' = Count(stage, "abort")
        BY <2>1, StepCounts, Ranges
    <2>3. Locking' = Locking /\ HasImplicit' = HasImplicit
        BY <1>11, <1>0, CountFacts, Zenon DEF WeakCountEnds, Return, Set, inner, Derived, Locking,
            HasImplicit, OneHolder, OneLocker, Shape
    <2>4. Counts'
        BY <1>11, <1>0, <2>2, <2>3, Ranges, Zenon DEF WeakCountEnds, Return, Set, inner, Counts
    <2>5. ArcTypeOK'
        BY <1>11, <2>1, <2>4, Bounds, Zenon DEF WeakCountEnds, Return, Set, inner, Locals
    <2>6. (Shape /\ Borrows /\ OneHolder /\ OneLocker /\ Alones /\ DataLive /\ FreedOnce)'
        BY <1>11, <1>0 DEF WeakCountEnds, Return, Set, inner, Derived, HasImplicit, Locking, Shape,
            Borrows, OneHolder, OneLocker, Alones, DataLive, FreedOnce
    <2> QED
        BY <2>4, <2>5, <2>6, Zenon
<1>12. ASSUME NEW h \in Handles, Drop(h) PROVE IInv'
    <2>1. /\ Agree(kind, kind', h) /\ Agree(stage, stage', h) /\ Locals'
          /\ kind[h] = "strong" /\ kind'[h] \in {"implicit", "none"} /\ stage[h] # "abort" /\ stage'[h] # "abort"
        BY <1>12 DEF Drop, Set, OwnsArc, HasArc, Borrowed, Agree, Locals, PCs, Shape
    <2>2. /\ Count(kind, "strong")' = Count(kind, "strong") - 1
          /\ Count(kind, "weak")' = Count(kind, "weak")
          /\ Count(stage, "abort")' = Count(stage, "abort")
        BY <2>1, StepCounts, Ranges
    <2>3. Locking' = Locking /\ HasImplicit' = HasImplicit
        BY <1>12, <1>0, CountFacts DEF Drop, Set, OwnsArc, HasArc, Borrowed, Derived, Locking,
            HasImplicit, OneHolder, OneLocker, Shape
    <2>4. Counts'
        BY <1>12, <1>0, <2>2, <2>3, Ranges DEF Drop, Set, OwnsArc, HasArc, Borrowed, Counts
    <2>5. ArcTypeOK'
        BY <1>12, <2>1, <2>4, Bounds, Zenon DEF Drop, Set, OwnsArc, HasArc, Borrowed, Locals
    <2>6. (Shape /\ Borrows /\ OneHolder /\ OneLocker /\ Alones /\ DataLive /\ FreedOnce)'
        BY <1>12, <1>0 DEF Drop, Set, OwnsArc, HasArc, Borrowed, Derived, HasImplicit, Locking,
            Shape, Borrows, OneHolder, OneLocker, Alones, DataLive, FreedOnce
    <2> QED
        BY <2>4, <2>5, <2>6, Zenon
<1>13. ASSUME NEW h \in Handles, DropData(h) PROVE IInv'
    <2>1. /\ Agree(kind, kind', h) /\ Agree(stage, stage', h) /\ Locals'
          /\ kind[h] = "implicit" /\ kind'[h] \in {"implicit", "none"} /\ stage[h] # "abort" /\ stage'[h] # "abort"
        BY <1>13 DEF DropData, Set, StepTo, Agree, Locals, PCs, Shape
    <2>2. /\ Count(kind, "strong")' = Count(kind, "strong")
          /\ Count(kind, "weak")' = Count(kind, "weak")
          /\ Count(stage, "abort")' = Count(stage, "abort")
        BY <2>1, StepCounts, Ranges
    <2>3. Locking' = Locking /\ HasImplicit' = HasImplicit
        BY <1>13, <1>0, CountFacts DEF DropData, Set, StepTo, Derived, Locking, HasImplicit,
            OneHolder, OneLocker, Shape
    <2>4. Counts'
        BY <1>13, <1>0, <2>2, <2>3, Ranges, Zenon DEF DropData, Set, StepTo, Counts
    <2>5. ArcTypeOK'
        BY <1>13, <2>1, <2>4, Bounds, Zenon DEF DropData, Set, StepTo, Locals
    <2>6. (Shape /\ Borrows /\ OneHolder /\ OneLocker /\ Alones /\ DataLive /\ FreedOnce)'
        BY <1>13, <1>0 DEF DropData, Set, StepTo, Derived, HasImplicit, Locking, Shape, Borrows,
            OneHolder, OneLocker, Alones, DataLive, FreedOnce
    <2> QED
        BY <2>4, <2>5, <2>6, Zenon
<1>14. ASSUME NEW h \in Handles, DropWeak(h) PROVE IInv'
    <2>1. /\ Agree(kind, kind', h) /\ Agree(stage, stage', h) /\ Locals'
          /\ kind[h] \in {"weak", "implicit"} /\ kind'[h] = "none" /\ stage[h] # "abort" /\ stage'[h] # "abort"
        BY <1>14, Zenon DEF DropWeak, LastWeak, Set, OwnsWeak, HasWeak, Borrowed, Agree, Locals, PCs, Shape
    <2>2. /\ Count(kind, "strong")' = Count(kind, "strong")
          /\ Count(kind, "weak")' = Count(kind, "weak") - (IF kind[h] = "weak" THEN 1 ELSE 0)
          /\ Count(stage, "abort")' = Count(stage, "abort")
        BY <2>1, StepCounts, Ranges
    <2>3. ~Locking /\ ~Locking' /\ (kind[h] = "weak" => HasImplicit' = HasImplicit) /\ (kind[h] # "weak" => HasImplicit /\ ~HasImplicit')
        BY <1>14, <1>0, CountFacts DEF DropWeak, LastWeak, Set, OwnsWeak, HasWeak, Borrowed,
            Derived, Locking, HasImplicit, OneHolder, OneLocker, Shape
    <2>7. weak # 0 /\ weak' = weak - 1
        BY <1>14, <1>0, <2>1, <2>3, Zenon DEF DropWeak, Derived
    <2>4. Counts'
        <3>1. CASE kind[h] = "weak"
            BY <3>1, <1>14, <1>0, <2>2, <2>3, <2>7, Ranges DEF DropWeak, LastWeak, Set, OwnsWeak,
                HasWeak, Borrowed, Counts
        <3>2. CASE kind[h] # "weak"
            <4>1. /\ strong' = strong /\ weak' = weak - 1
                  /\ forgotten' = forgotten /\ forgottenWeak' = forgottenWeak
                BY <1>14, <2>7, Zenon DEF DropWeak
            <4>2. weak = Count(kind, "weak") + forgottenWeak + 1
                BY <2>3, <3>2, Zenon DEF Counts
            <4>3. weak' = Count(kind, "weak")' + forgottenWeak'
                BY <2>2, <3>2, <4>1, <4>2, Ranges
            <4>4. weak' # USIZE_MAX /\ strong' = Count(kind, "strong")' + forgotten'
                BY <2>2, <4>1, <4>3, Ranges DEF Counts
            <4> QED
                BY <2>2, <2>3, <3>2, <4>1, <4>3, <4>4 DEF Counts
        <3> QED
            BY <3>1, <3>2, Zenon
    <2>5. ArcTypeOK'
        BY <1>14, <2>1, <2>4, Bounds, Zenon DEF DropWeak, LastWeak, Set, OwnsWeak, HasWeak, Borrowed,
            Locals
    <2>6. (Shape /\ Borrows /\ OneHolder /\ OneLocker /\ Alones /\ DataLive /\ FreedOnce)'
        BY <1>14, <1>0, <2>7 DEF DropWeak, LastWeak, Set, OwnsWeak, HasWeak, Borrowed, Derived,
            HasImplicit, Locking, Shape, Borrows, OneHolder, OneLocker, Alones, DataLive, FreedOnce
    <2> QED
        BY <2>4, <2>5, <2>6, Zenon
<1>15. ASSUME NEW h \in Handles, Dealloc(h) PROVE IInv'
    <2>1. /\ Agree(kind, kind', h) /\ Agree(stage, stage', h) /\ Locals'
          /\ kind'[h] = kind[h] /\ stage[h] # "abort" /\ stage'[h] # "abort"
        BY <1>15, Zenon DEF Dealloc, StepTo, Agree, Locals, PCs, Shape
    <2>2. /\ Count(kind, "strong")' = Count(kind, "strong")
          /\ Count(kind, "weak")' = Count(kind, "weak")
          /\ Count(stage, "abort")' = Count(stage, "abort")
        BY <2>1, StepCounts, Ranges
    <2>3. Locking' = Locking /\ HasImplicit' = HasImplicit
        BY <1>15, <1>0, CountFacts, Zenon DEF Dealloc, StepTo, Derived, Locking, HasImplicit, OneHolder,
            OneLocker, Shape
    <2>4. Counts'
        BY <1>15, <1>0, <2>2, <2>3, Ranges, Zenon DEF Dealloc, StepTo, Counts
    <2>5. ArcTypeOK'
        BY <1>15, <2>1, <2>4, Bounds, Zenon DEF Dealloc, StepTo, Locals
    <2>6. (Shape /\ Borrows /\ OneHolder /\ OneLocker /\ Alones /\ DataLive /\ FreedOnce)'
        BY <1>15, <1>0 DEF Dealloc, StepTo, Derived, HasImplicit, Locking, Shape, Borrows, OneHolder,
            OneLocker, Alones, DataLive, FreedOnce
    <2> QED
        BY <2>4, <2>5, <2>6, Zenon
<1>16. ASSUME NEW h \in Handles, CyclicWrite(h) PROVE IInv'
    <2>1. /\ Agree(kind, kind', h) /\ Agree(stage, stage', h) /\ Locals'
          /\ kind'[h] = kind[h] /\ stage[h] # "abort" /\ stage'[h] # "abort"
        BY <1>16, Zenon DEF CyclicWrite, StepTo, OwnsWeak, HasWeak, Borrowed, Agree, Locals, PCs, Shape
    <2>2. /\ Count(kind, "strong")' = Count(kind, "strong")
          /\ Count(kind, "weak")' = Count(kind, "weak")
          /\ Count(stage, "abort")' = Count(stage, "abort")
        BY <2>1, StepCounts, Ranges
    <2>3. Locking' = Locking /\ HasImplicit' = HasImplicit
        BY <1>16, <1>0, CountFacts, Zenon DEF CyclicWrite, StepTo, OwnsWeak, HasWeak, Borrowed, Derived,
            Locking, HasImplicit, OneHolder, OneLocker, Shape
    <2>4. Counts'
        BY <1>16, <1>0, <2>2, <2>3, Ranges, Zenon DEF CyclicWrite, StepTo, OwnsWeak, HasWeak, Borrowed,
            Counts
    <2>5. ArcTypeOK'
        BY <1>16, <2>1, <2>4, Bounds, Zenon DEF CyclicWrite, StepTo, OwnsWeak, HasWeak, Borrowed, Locals
    <2>6. (Shape /\ Borrows /\ OneHolder /\ OneLocker /\ Alones /\ DataLive /\ FreedOnce)'
        BY <1>16, <1>0 DEF CyclicWrite, StepTo, OwnsWeak, HasWeak, Borrowed, Derived, HasImplicit,
            Locking, Shape, Borrows, OneHolder, OneLocker, Alones, DataLive, FreedOnce
    <2> QED
        BY <2>4, <2>5, <2>6, Zenon
<1>17. ASSUME NEW h \in Handles, CyclicAdd(h) PROVE IInv'
    <2>1. /\ Agree(kind, kind', h) /\ Agree(stage, stage', h) /\ Locals'
          /\ kind[h] = "implicit" /\ kind'[h] = "strong" /\ stage[h] # "abort" /\ stage'[h] # "abort"
        BY <1>17, Zenon DEF CyclicAdd, Set, Agree, Locals, PCs, Shape
    <2>2. /\ Count(kind, "strong")' = Count(kind, "strong") + 1
          /\ Count(kind, "weak")' = Count(kind, "weak")
          /\ Count(stage, "abort")' = Count(stage, "abort")
        BY <2>1, StepCounts, Ranges
    <2>3. strong = 0 /\ Locking' = Locking /\ HasImplicit' = HasImplicit
        BY <1>17, <1>0, CountFacts DEF CyclicAdd, Set, Derived, Locking, HasImplicit, OneHolder,
            OneLocker, Shape
    <2>4. Counts'
        BY <1>17, <1>0, <2>2, <2>3, Ranges DEF CyclicAdd, Set, Counts
    <2>5. ArcTypeOK'
        BY <1>17, <2>1, <2>4, Bounds, Zenon DEF CyclicAdd, Set, Locals
    <2>6. (Shape /\ Borrows /\ OneHolder /\ OneLocker /\ Alones /\ DataLive /\ FreedOnce)'
        BY <1>17, <1>0 DEF CyclicAdd, Set, Derived, HasImplicit, Locking, Shape, Borrows,
            OneHolder, OneLocker, Alones, DataLive, FreedOnce
    <2> QED
        BY <2>4, <2>5, <2>6, Zenon
<1>18. ASSUME NEW h \in Handles, TryUnwrap(h) PROVE IInv'
    <2>1. /\ Agree(kind, kind', h) /\ Agree(stage, stage', h) /\ Locals'
          /\ kind[h] = "strong" /\ kind'[h] = (IF strong = 1 THEN "implicit" ELSE "strong")
          /\ stage[h] # "abort" /\ stage'[h] # "abort"
        BY <1>18 DEF TryUnwrap, Set, OwnsArc, HasArc, Borrowed, Agree, Locals, PCs, Shape
    <2>2. /\ Count(kind, "strong")' = Count(kind, "strong") - (IF strong = 1 THEN 1 ELSE 0)
          /\ Count(kind, "weak")' = Count(kind, "weak")
          /\ Count(stage, "abort")' = Count(stage, "abort")
        BY <2>1, StepCounts, Ranges
    <2>3. Locking' = Locking /\ HasImplicit' = HasImplicit
        BY <1>18, <1>0, CountFacts DEF TryUnwrap, Set, OwnsArc, HasArc, Borrowed, Derived, Locking,
            HasImplicit, OneHolder, OneLocker, Shape
    <2>4. Counts'
        BY <1>18, <1>0, <2>2, <2>3, Ranges DEF TryUnwrap, Set, OwnsArc, HasArc, Borrowed, Counts
    <2>5. ArcTypeOK'
        BY <1>18, <2>1, <2>4, Bounds, Zenon DEF TryUnwrap, Set, OwnsArc, HasArc, Borrowed, Locals
    <2>6. (Shape /\ Borrows /\ OneHolder /\ OneLocker /\ Alones /\ DataLive /\ FreedOnce)'
        BY <1>18, <1>0 DEF TryUnwrap, Set, OwnsArc, HasArc, Borrowed, Derived, HasImplicit,
            Locking, Shape, Borrows, OneHolder, OneLocker, Alones, DataLive, FreedOnce
    <2> QED
        BY <2>4, <2>5, <2>6, Zenon
<1>19. ASSUME NEW h \in Handles, MoveOut(h) PROVE IInv'
    <2>1. /\ Agree(kind, kind', h) /\ Agree(stage, stage', h) /\ Locals'
          /\ kind'[h] = kind[h] /\ stage[h] # "abort" /\ stage'[h] # "abort"
        BY <1>19, Zenon DEF MoveOut, StepTo, Agree, Locals, PCs, Shape
    <2>2. /\ Count(kind, "strong")' = Count(kind, "strong")
          /\ Count(kind, "weak")' = Count(kind, "weak")
          /\ Count(stage, "abort")' = Count(stage, "abort")
        BY <2>1, StepCounts, Ranges
    <2>3. Locking' = Locking /\ HasImplicit' = HasImplicit
        BY <1>19, <1>0, CountFacts DEF MoveOut, StepTo, Derived, Locking, HasImplicit, OneHolder,
            OneLocker, Shape
    <2>4. Counts'
        BY <1>19, <1>0, <2>2, <2>3, Ranges, Zenon DEF MoveOut, StepTo, Counts
    <2>5. ArcTypeOK'
        BY <1>19, <2>1, <2>4, Bounds, Zenon DEF MoveOut, StepTo, Locals
    <2>6. (Shape /\ Borrows /\ OneHolder /\ OneLocker /\ Alones /\ DataLive /\ FreedOnce)'
        BY <1>19, <1>0 DEF MoveOut, StepTo, Derived, HasImplicit, Locking, Shape, Borrows, OneHolder,
            OneLocker, Alones, DataLive, FreedOnce
    <2> QED
        BY <2>4, <2>5, <2>6, Zenon
<1>20. ASSUME NEW h \in Handles, GetMut(h) PROVE IInv'
    <2>1. /\ Agree(kind, kind', h) /\ Agree(stage, stage', h) /\ Locals'
          /\ kind'[h] = kind[h] /\ stage[h] # "abort" /\ stage'[h] # "abort"
        BY <1>20 DEF GetMut, StepTo, OwnsArc, HasArc, Borrowed, Agree, Locals, PCs, Shape
    <2>2. /\ Count(kind, "strong")' = Count(kind, "strong")
          /\ Count(kind, "weak")' = Count(kind, "weak")
          /\ Count(stage, "abort")' = Count(stage, "abort")
        BY <2>1, StepCounts, Ranges
    <2>3. (weak = 1 => Locking') /\ (weak # 1 => Locking' = Locking) /\ HasImplicit' = HasImplicit
        BY <1>20, <1>0, CountFacts DEF GetMut, StepTo, OwnsArc, HasArc, Borrowed, Derived, Locking,
            HasImplicit, OneHolder, OneLocker, Shape
    <2>4. Counts'
        BY <1>20, <1>0, <2>2, <2>3, Ranges DEF GetMut, StepTo, OwnsArc, HasArc, Borrowed, Counts
    <2>5. ArcTypeOK'
        BY <1>20, <2>1, <2>4, Bounds, Zenon DEF GetMut, StepTo, OwnsArc, HasArc, Borrowed, Locals
    <2>6. (Shape /\ Borrows /\ OneHolder /\ OneLocker /\ Alones /\ DataLive /\ FreedOnce)'
        BY <1>20, <1>0 DEF GetMut, StepTo, OwnsArc, HasArc, Borrowed, Derived, HasImplicit, Locking,
            Shape, Borrows, OneHolder, OneLocker, Alones, DataLive, FreedOnce
    <2> QED
        BY <2>4, <2>5, <2>6, Zenon
<1>21. ASSUME NEW h \in Handles, GetMutLoad(h) PROVE IInv'
    <2>1. /\ Agree(kind, kind', h) /\ Agree(stage, stage', h) /\ Locals'
          /\ kind'[h] = kind[h] /\ stage[h] # "abort" /\ stage'[h] # "abort"
        BY <1>21, Zenon DEF GetMutLoad, Unique, StepTo, inner, Agree, Locals, PCs, Shape
    <2>2. /\ Count(kind, "strong")' = Count(kind, "strong")
          /\ Count(kind, "weak")' = Count(kind, "weak")
          /\ Count(stage, "abort")' = Count(stage, "abort")
        BY <2>1, StepCounts, Ranges
    <2>3. Locking' = Locking /\ HasImplicit' = HasImplicit
        BY <1>21, <1>0, CountFacts DEF GetMutLoad, Unique, StepTo, inner, Derived, Locking,
            HasImplicit, OneHolder, OneLocker, Shape
    <2>4. Counts'
        BY <1>21, <1>0, <2>2, <2>3, Ranges, Zenon DEF GetMutLoad, Unique, StepTo, inner, Counts
    <2>5. ArcTypeOK'
        BY <1>21, <2>1, <2>4, Bounds, Zenon DEF GetMutLoad, Unique, StepTo, inner, Locals
    <2>6. strong = 1 => forgotten = 0 /\ forgottenWeak = 0 /\ \A o \in Handles \ {h} : kind[o] = "none"
        BY <1>21, <1>0 DEF GetMutLoad, Unique, StepTo, inner, Derived, HasImplicit, Locking, Shape,
            OneHolder, OneLocker
    <2>7. strong = 1 => \A o \in Handles \ {h} : stage[o] = "idle"
      <3> SUFFICES ASSUME strong = 1, NEW o \in Handles \ {h}, stage[o] # "idle" PROVE FALSE
          BY Zenon
      <3>1. stage[h] = "locked" /\ weak # 0
          BY <1>21, ArcAssumption DEF GetMutLoad, OneLocker
      <3>2. stage[o] # "free"
          BY <3>1, Zenon DEF FreedOnce
      <3>3. kind[o] = "none" /\ stage[o] \in {"downgrade", "upgrade", "count", "abort"}
          BY <2>6, <3>2, Zenon DEF PCs, Shape
      <3>4. from[o] \in Handles /\ (kind[from[o]] # "none" \/ stage[from[o]] = "cyclic") /\ from[o] # h
          BY <3>1, <3>3, Zenon DEF Borrows
      <3> QED
          BY <2>6, <3>4, Zenon DEF Shape
    <2>8. (Shape /\ Borrows /\ OneHolder /\ OneLocker /\ Alones /\ DataLive /\ FreedOnce)'
        BY <1>21, <1>0, <2>6, <2>7 DEF GetMutLoad, Unique, StepTo, inner, Derived, HasImplicit,
            Locking, Shape, Borrows, OneHolder, OneLocker, Alones, DataLive, FreedOnce
    <2> QED
        BY <2>4, <2>5, <2>8, Zenon
<1>22. ASSUME NEW h \in Handles, GetMutUnlock(h) PROVE IInv'
    <2>1. /\ Agree(kind, kind', h) /\ Agree(stage, stage', h) /\ Locals'
          /\ kind'[h] = kind[h] /\ stage[h] # "abort" /\ stage'[h] # "abort"
        BY <1>22, Zenon DEF GetMutUnlock, StepTo, Agree, Locals, PCs, Shape
    <2>2. /\ Count(kind, "strong")' = Count(kind, "strong")
          /\ Count(kind, "weak")' = Count(kind, "weak")
          /\ Count(stage, "abort")' = Count(stage, "abort")
        BY <2>1, StepCounts, Ranges
    <2>3. ~Locking' /\ forgottenWeak = 0 /\ Count(kind, "weak") = 0 /\ HasImplicit'
        BY <1>22, <1>0, CountFacts DEF GetMutUnlock, StepTo, Derived, Locking, HasImplicit,
            OneHolder, OneLocker, Shape
    <2>4. Counts'
        BY <1>22, <1>0, <2>2, <2>3, Ranges DEF GetMutUnlock, StepTo, Counts
    <2>5. ArcTypeOK'
        BY <1>22, <2>1, <2>4, Bounds, Zenon DEF GetMutUnlock, StepTo, Locals
    <2>6. (Shape /\ Borrows /\ OneHolder /\ OneLocker /\ Alones /\ DataLive /\ FreedOnce)'
        BY <1>22, <1>0 DEF GetMutUnlock, StepTo, Derived, HasImplicit, Locking, Shape, Borrows,
            OneHolder, OneLocker, Alones, DataLive, FreedOnce
    <2> QED
        BY <2>4, <2>5, <2>6, Zenon
<1>23. ASSUME NEW h \in Handles, MakeMut(h) PROVE IInv'
    <2>1. /\ Agree(kind, kind', h) /\ Agree(stage, stage', h) /\ Locals'
          /\ kind[h] = "strong" /\ kind'[h] = (IF strong = 1 THEN "implicit" ELSE "strong")
          /\ stage[h] # "abort" /\ stage'[h] # "abort"
        BY <1>23 DEF MakeMut, StepTo, Set, OwnsArc, HasArc, Borrowed, Agree, Locals, PCs, Shape
    <2>2. /\ Count(kind, "strong")' = Count(kind, "strong") - (IF strong = 1 THEN 1 ELSE 0)
          /\ Count(kind, "weak")' = Count(kind, "weak")
          /\ Count(stage, "abort")' = Count(stage, "abort")
        BY <2>1, StepCounts, Ranges
    <2>3. Locking' = Locking /\ HasImplicit' = HasImplicit
        BY <1>23, <1>0, CountFacts DEF MakeMut, StepTo, Set, OwnsArc, HasArc, Borrowed, Derived,
            Locking, HasImplicit, OneHolder, OneLocker, Shape
    <2>4. Counts'
        BY <1>23, <1>0, <2>2, <2>3, Ranges DEF MakeMut, StepTo, Set, OwnsArc, HasArc, Borrowed, Counts
    <2>5. ArcTypeOK'
        BY <1>23, <2>1, <2>4, Bounds, Zenon DEF MakeMut, StepTo, Set, OwnsArc, HasArc, Borrowed, Locals
    <2>6. (Shape /\ Borrows /\ OneHolder /\ OneLocker /\ Alones /\ DataLive /\ FreedOnce)'
        BY <1>23, <1>0 DEF MakeMut, StepTo, Set, OwnsArc, HasArc, Borrowed, Derived, HasImplicit,
            Locking, Shape, Borrows, OneHolder, OneLocker, Alones, DataLive, FreedOnce
    <2> QED
        BY <2>4, <2>5, <2>6, Zenon
<1>24. ASSUME NEW h \in Handles, MakeMutLoad(h) PROVE IInv'
    <2>1. /\ Agree(kind, kind', h) /\ Agree(stage, stage', h) /\ Locals'
          /\ kind'[h] = kind[h] /\ stage[h] # "abort" /\ stage'[h] # "abort"
        BY <1>24, Zenon DEF MakeMutLoad, Alone, StepTo, inner, Agree, Locals, PCs, Shape
    <2>2. /\ Count(kind, "strong")' = Count(kind, "strong")
          /\ Count(kind, "weak")' = Count(kind, "weak")
          /\ Count(stage, "abort")' = Count(stage, "abort")
        BY <2>1, StepCounts, Ranges
    <2>3. Locking' = Locking /\ HasImplicit' = HasImplicit
        BY <1>24, <1>0, CountFacts, Zenon DEF MakeMutLoad, Alone, StepTo, inner, Derived, Locking,
            HasImplicit, OneHolder, OneLocker, Shape
    <2>4. Counts'
        BY <1>24, <1>0, <2>2, <2>3, Ranges, Zenon DEF MakeMutLoad, Alone, StepTo, inner, Counts
    <2>5. ArcTypeOK'
        BY <1>24, <2>1, <2>4, Bounds, Zenon DEF MakeMutLoad, Alone, StepTo, inner, Locals
    <2>6. weak = 1 => forgotten = 0 /\ forgottenWeak = 0 /\ \A o \in Handles \ {h} : kind[o] = "none"
        BY <1>24, <1>0 DEF MakeMutLoad, Alone, StepTo, inner, Derived, HasImplicit, Locking, Shape,
            OneHolder, OneLocker
    <2>7. weak = 1 => \A o \in Handles \ {h} : stage[o] = "idle"
      <3> SUFFICES ASSUME weak = 1, NEW o \in Handles \ {h}, stage[o] # "idle" PROVE FALSE
          BY Zenon
      <3>1. stage[h] = "makemut" /\ weak # 0
          BY <1>24, ArcAssumption DEF MakeMutLoad, OneLocker
      <3>2. stage[o] # "free"
          BY <3>1, Zenon DEF FreedOnce
      <3>3. kind[o] = "none" /\ stage[o] \in {"downgrade", "upgrade", "count", "abort"}
          BY <2>6, <3>2, Zenon DEF PCs, Shape
      <3>4. from[o] \in Handles /\ (kind[from[o]] # "none" \/ stage[from[o]] = "cyclic") /\ from[o] # h
          BY <3>1, <3>3, Zenon DEF Borrows
      <3> QED
          BY <2>6, <3>4, Zenon DEF Shape
    <2>8. (Shape /\ Borrows /\ OneHolder /\ OneLocker /\ Alones /\ DataLive /\ FreedOnce)'
        BY <1>24, <1>0, <2>6, <2>7 DEF MakeMutLoad, Alone, StepTo, inner, Derived, HasImplicit,
            Locking, Shape, Borrows, OneHolder, OneLocker, Alones, DataLive, FreedOnce
    <2> QED
        BY <2>4, <2>5, <2>8, Zenon
<1>25. ASSUME NEW h \in Handles, MakeMutRestore(h) PROVE IInv'
    <2>1. /\ Agree(kind, kind', h) /\ Agree(stage, stage', h) /\ Locals'
          /\ kind[h] = "implicit" /\ kind'[h] = "strong" /\ stage[h] # "abort" /\ stage'[h] # "abort"
        BY <1>25, Zenon DEF MakeMutRestore, Set, Agree, Locals, PCs, Shape
    <2>2. /\ Count(kind, "strong")' = Count(kind, "strong") + 1
          /\ Count(kind, "weak")' = Count(kind, "weak")
          /\ Count(stage, "abort")' = Count(stage, "abort")
        BY <2>1, StepCounts, Ranges
    <2>3. strong = 0 /\ Locking' = Locking /\ HasImplicit' = HasImplicit
        BY <1>25, <1>0, CountFacts DEF MakeMutRestore, Set, Derived, Locking, HasImplicit,
            OneHolder, OneLocker, Shape
    <2>4. Counts'
        BY <1>25, <1>0, <2>2, <2>3, Ranges DEF MakeMutRestore, Set, Counts
    <2>5. ArcTypeOK'
        BY <1>25, <2>1, <2>4, Bounds, Zenon DEF MakeMutRestore, Set, Locals
    <2>6. (Shape /\ Borrows /\ OneHolder /\ OneLocker /\ Alones /\ DataLive /\ FreedOnce)'
        BY <1>25, <1>0 DEF MakeMutRestore, Set, Derived, HasImplicit, Locking, Shape, Borrows,
            OneHolder, OneLocker, Alones, DataLive, FreedOnce
    <2> QED
        BY <2>4, <2>5, <2>6, Zenon
<1>26. ASSUME NEW h \in Handles, EndMut(h) PROVE IInv'
    <2>1. /\ Agree(kind, kind', h) /\ Agree(stage, stage', h) /\ Locals'
          /\ kind'[h] = kind[h] /\ stage[h] # "abort" /\ stage'[h] # "abort"
        BY <1>26, Zenon DEF EndMut, StepTo, inner, Agree, Locals, PCs, Shape
    <2>2. /\ Count(kind, "strong")' = Count(kind, "strong")
          /\ Count(kind, "weak")' = Count(kind, "weak")
          /\ Count(stage, "abort")' = Count(stage, "abort")
        BY <2>1, StepCounts, Ranges
    <2>3. Locking' = Locking /\ HasImplicit' = HasImplicit
        BY <1>26, <1>0, CountFacts, Zenon DEF EndMut, StepTo, inner, Derived, Locking, HasImplicit,
            OneHolder, OneLocker, Shape
    <2>4. Counts'
        BY <1>26, <1>0, <2>2, <2>3, Ranges, Zenon DEF EndMut, StepTo, inner, Counts
    <2>5. ArcTypeOK'
        BY <1>26, <2>1, <2>4, Bounds, Zenon DEF EndMut, StepTo, inner, Locals
    <2>6. (Shape /\ Borrows /\ OneHolder /\ OneLocker /\ Alones /\ DataLive /\ FreedOnce)'
        BY <1>26, <1>0 DEF EndMut, StepTo, inner, Derived, HasImplicit, Locking, Shape, Borrows,
            OneHolder, OneLocker, Alones, DataLive, FreedOnce
    <2> QED
        BY <2>4, <2>5, <2>6, Zenon
<1> QED
    BY <1>1, <1>2, <1>3, <1>4, <1>5, <1>6, <1>7, <1>8, <1>9, <1>10, <1>11, <1>12, <1>13, <1>14,
        <1>15, <1>16, <1>17, <1>18, <1>19, <1>20, <1>21, <1>22, <1>23, <1>24, <1>25, <1>26, Zenon DEF ArcNext, Pair, Single

(* The weak count goes up with a new Weak, and Weaks are only ever forgotten. *)
LEMMA WeaksCounted ==
    ASSUME ArcNext
    PROVE  \/ overflowed' = overflowed /\ (forgottenWeak' = forgottenWeak \/ forgottenWeak' = forgottenWeak + 1)
           \/ /\ CountWeak /\ forgottenWeak' = forgottenWeak
              /\ \E n \in Handles : /\ stage[n] = "downgrade" \/ kind[n] = "none"
                                    /\ kind' = [kind EXCEPT ![n] = "weak"]
<1>1. ASSUME NEW h \in Handles, NEW n \in Handles, CloneWeak(h, n)
      PROVE  /\ CountWeak /\ forgottenWeak' = forgottenWeak /\ kind[n] = "none"
             /\ kind' = [kind EXCEPT ![n] = "weak"]
    BY <1>1, Zenon DEF CloneWeak, Free, Set
<1>2. ASSUME NEW n \in Handles, DowngradeExchange(n)
      PROVE  /\ forgottenWeak' = forgottenWeak
             /\ \/ overflowed' = overflowed
                \/ CountWeak /\ stage[n] = "downgrade" /\ kind' = [kind EXCEPT ![n] = "weak"]
    BY <1>2, Zenon DEF DowngradeExchange, Return, Set
<1>3. ASSUME NEW h \in Handles, ForgetWeak(h)
      PROVE  overflowed' = overflowed /\ forgottenWeak' = forgottenWeak + 1
    BY <1>3, Zenon DEF ForgetWeak
<1>4. CASE UNCHANGED <<overflowed, forgottenWeak>>
    BY <1>4, Zenon
<1>5. ASSUME NEW h \in Handles, NEW n \in Handles,
             Clone(h, n) \/ Downgrade(h, n) \/ Upgrade(h, n) \/ WeakCount(h, n)
      PROVE  UNCHANGED <<overflowed, forgottenWeak>>
    BY <1>5, Zenon DEF Clone, Downgrade, Upgrade, WeakCount, ghost
<1>6. ASSUME NEW h \in Handles, Single(h)
      PROVE  DowngradeExchange(h) \/ ForgetWeak(h) \/ UNCHANGED <<overflowed, forgottenWeak>>
    BY <1>6, Zenon DEF Single, Abort, Forget, UpgradeExchange, WeakCountEnds, Drop, DropData, DropWeak,
        Dealloc, CyclicWrite, CyclicAdd, TryUnwrap, MoveOut, GetMut, GetMutLoad, GetMutUnlock,
        MakeMut, MakeMutLoad, MakeMutRestore, EndMut, ghost
<1> QED
    BY <1>1, <1>2, <1>3, <1>4, <1>5, <1>6, Zenon DEF ArcNext, Pair

(* An overflow takes usize::MAX Weaks, and all but those that have handles   *)
(* have been forgotten.                                                      *)
LEMMA Overflow == ASSUME IInv, ArcNext, ~overflowed, overflowed' PROVE TooManyWeaks'
<1>1. PICK n \in Handles : /\ CountWeak /\ forgottenWeak' = forgottenWeak
                           /\ stage[n] = "downgrade" \/ kind[n] = "none"
                           /\ kind' = [kind EXCEPT ![n] = "weak"]
    BY WeaksCounted, Zenon
<1>2. kind[n] = "none" /\ kind'[n] = "weak" /\ Agree(kind, kind', n)
    BY <1>1, Zenon DEF IInv, ArcTypeOK, Shape, Agree
<1>3. Count(kind, "weak")' = Count(kind, "weak") + 1
  <2>1. Count(kind, "weak")' = Count(kind, "weak") + (IF kind'[n] = "weak" THEN 1 ELSE 0)
                               - (IF kind[n] = "weak" THEN 1 ELSE 0)
      BY <1>2, CountUpdate
  <2> QED
      BY <1>2, <2>1, Ranges
<1>4. weak' = USIZE_MAX /\ weak' = (IF weak = USIZE_MAX THEN 0 ELSE weak + 1)
    BY <1>1, Zenon DEF CountWeak
<1>5. weak \in Nat /\ weak + 1 = USIZE_MAX /\ USIZE_MAX \in Nat /\ forgottenWeak \in Nat
    BY <1>4, Ranges, ArcAssumption DEF IInv, ArcTypeOK
<1>6. ~Locking
    BY <1>5 DEF IInv, Counts
<1>7. weak = Count(kind, "weak") + forgottenWeak + (IF HasImplicit THEN 1 ELSE 0)
    BY <1>6, Zenon DEF IInv, Counts
<1> QED
    BY <1>1, <1>3, <1>5, <1>7, Ranges DEF TooManyWeaks

(* Having overflowed it has overflowed.                                      *)
LEMMA Overflown == ASSUME overflowed, TooManyWeaks, ArcNext PROVE overflowed' /\ TooManyWeaks'
<1>1. overflowed'
    BY WeaksCounted, Zenon DEF CountWeak
<1>2. forgottenWeak' = forgottenWeak \/ forgottenWeak' = forgottenWeak + 1
    BY WeaksCounted, Zenon
<1> QED
    BY <1>1, <1>2, Ranges, ArcAssumption DEF TooManyWeaks

(* The inductive invariant holds throughout.                                 *)
THEOREM InductiveInvariant == ArcSpec => []Inv
<1>1. ArcInit => Inv
    <2> SUFFICES ASSUME ArcInit PROVE IInv
        BY Zenon DEF ArcInit, Inv
    <2>1. PICK h \in Handles, cyclic \in BOOLEAN :
              /\ strong = (IF cyclic THEN 0 ELSE 1) /\ data = (IF cyclic THEN "uninit" ELSE "live")
              /\ kind = [i \in Handles |-> IF i # h THEN "none" ELSE IF cyclic THEN "implicit" ELSE "strong"]
              /\ stage = [i \in Handles |-> IF i = h /\ cyclic THEN "cyclic" ELSE "idle"]
        BY Zenon DEF ArcInit
    <2>2. ArcTypeOK /\ Shape /\ Borrows /\ OneHolder /\ OneLocker /\ Alones /\ DataLive /\ FreedOnce
        <3>1. ArcTypeOK
            <4>1. USIZE_MAX \in Nat /\ USIZE_MAX >= 1
                BY Ranges, ArcAssumption
            <4>2. strong \in 0 .. USIZE_MAX /\ data \in {"uninit", "live", "gone"}
                BY <2>1, <4>1
            <4>3. Locals
                BY <2>1, <4>1 DEF ArcInit, Locals, PCs
            <4>4. weak = 1 /\ forgotten = 0 /\ forgottenWeak = 0
                BY Zenon DEF ArcInit
            <4>5. weak \in 0 .. USIZE_MAX /\ forgotten \in Nat /\ forgottenWeak \in Nat
                BY <4>1, <4>4, ArcAssumption
            <4>6. freed \in BOOLEAN /\ leaked \in BOOLEAN /\ overflowed \in BOOLEAN /\ aborted \in BOOLEAN
                BY Zenon DEF ArcInit
            <4> QED
                BY <4>2, <4>3, <4>5, <4>6, Zenon DEF ArcTypeOK, Locals
        <3>2. weak = 1 /\ ~freed /\ ~leaked /\ \A n \in Handles : from[n] = None
            BY Zenon DEF ArcInit
        <3>3. \A n \in Handles :
                  IF n = h /\ cyclic THEN kind[n] = "implicit" /\ stage[n] = "cyclic"
                  ELSE stage[n] = "idle" /\ kind[n] = (IF n = h THEN "strong" ELSE "none")
            BY <2>1, Zenon
        <3>4. Shape /\ Borrows /\ OneHolder /\ OneLocker /\ Alones
            BY <2>1, <3>2, <3>3, Zenon DEF Shape, Borrows, OneHolder, OneLocker, Alones
        <3>5. DataLive /\ FreedOnce
            BY <2>1, <3>2, <3>3 DEF DataLive, FreedOnce
        <3> QED
            BY <3>1, <3>4, <3>5, Zenon
    <2>3. Agree([i \in Handles |-> "none"], kind, h) /\ Count([i \in Handles |-> "none"], "strong") = 0
        BY <2>1, CountFacts, Zenon DEF Agree
    <2>4. Count(kind, "strong") = strong
        <3>1. Count(kind, "strong") = 0 + (IF kind[h] = "strong" THEN 1 ELSE 0) - 0
            BY <2>3, CountUpdate
        <3> QED
            BY <2>1, <3>1
    <2>5. Count(kind, "weak") = 0 /\ Count(stage, "abort") = 0
        BY <2>1, CountFacts, Zenon
    <2>6. ~Locking /\ HasImplicit
        BY <2>1 DEF Locking, HasImplicit
    <2>7. Counts
        BY <2>1, <2>4, <2>5, <2>6, Ranges, ArcAssumption DEF ArcInit, Counts
    <2> QED
        BY <2>2, <2>7, Zenon DEF IInv
<1>2. Inv /\ [ArcNext]_arcVars => Inv'
  <2>1. Inv /\ UNCHANGED arcVars => Inv'
    <3>1. UNCHANGED arcVars => overflowed' = overflowed /\ forgottenWeak' = forgottenWeak
        BY Zenon DEF arcVars, ghost
    <3>2. UNCHANGED arcVars /\ TooManyWeaks => TooManyWeaks'
        BY <3>1 DEF TooManyWeaks
    <3>3. UNCHANGED arcVars => (overflowed <=> overflowed')
        BY <3>1
    <3> QED
        BY <3>2, <3>3, Stutter, Zenon DEF Inv
  <2> QED
      BY <2>1, Step, Overflow, Overflown, Zenon DEF Inv
<1> QED
    BY <1>1, <1>2, PTL DEF ArcSpec

(* The counts are those of the handles (Arc's clone, downgrade, upgrade and  *)
(* drop, get_mut's lock and make_mut's temporary zero included).             *)
THEOREM CountsCorrect == ArcSpec => []CountsMatch
<1>1. Inv => CountsMatch
    BY Zenon DEF Inv, IInv, Counts, CountsMatch, Count, HasImplicit, Implicit, ArcHandles, WeakHandles, Holders
<1> QED
    BY <1>1, InductiveInvariant, PTL

(* The strong count never wraps around, however many threads race past       *)
(* clone's check; the weak count is taken for locked only while get_mut has  *)
(* locked it, until as many Weaks have been forgotten as downgrade, which    *)
(* has no limit, needs to count into usize::MAX.                             *)
THEOREM CountsBounded == ArcSpec => []NeverWraps
<1>1. Inv => NeverWraps
    BY Zenon DEF Inv, TooManyWeaks, IInv, Counts, NeverWraps, Count, Aborting
<1> QED
    BY <1>1, InductiveInvariant, PTL

(* No handle outlives the allocation and no Arc the value.                   *)
THEOREM MemorySafe == ArcSpec => []NoUseAfterFree
<1>1. Inv => NoUseAfterFree
    <2> SUFFICES ASSUME IInv PROVE NoUseAfterFree
        BY Zenon DEF Inv, NoUseAfterFree
    <2>1. Derived
        BY Derive, Zenon
    <2>2. ASSUME freed, NEW h \in Handles PROVE kind[h] = "none" /\ stage[h] = "idle"
        <3>1. weak = 0 /\ ~Locking
            BY <2>2, Ranges, ArcAssumption DEF IInv, FreedOnce, OneLocker, Locking
        <3>2. \A o \in Handles : kind[o] = "none"
            BY <2>1, <3>1, Zenon DEF Derived
        <3> QED
            BY <2>2, <3>1, <3>2, Zenon DEF IInv, ArcTypeOK, PCs, Shape, Borrows, FreedOnce
    <2>3. ArcHandles # {} => data = "live"
        BY <2>1, Zenon DEF IInv, Derived, DataLive, ArcHandles
    <2> QED
        BY <2>2, <2>3, Zenon DEF NoUseAfterFree, IInv, DataLive
<1> QED
    BY <1>1, InductiveInvariant, PTL

(* get_mut and make_mut hand out a mutable reference only to the last handle. *)
THEOREM Exclusive == ArcSpec => []ExclusiveAccess
<1>1. Inv => ExclusiveAccess
    BY Zenon DEF Inv, IInv, Alones, ExclusiveAccess
<1> QED
    BY <1>1, InductiveInvariant, PTL

(* When the last handle is gone the value and the allocation are gone too.   *)
THEOREM NoLeak == ArcSpec => []NothingLeaks
<1>1. Inv => NothingLeaks
    <2> SUFFICES ASSUME IInv, \A h \in Handles : Free(h), forgotten + forgottenWeak = 0, ~leaked
                 PROVE  freed /\ data # "live"
        BY Zenon DEF Inv, NothingLeaks
    <2>1. Count(kind, "strong") = 0 /\ Count(kind, "weak") = 0
        BY CountFacts, Zenon DEF Free
    <2>2. forgotten = 0 /\ forgottenWeak = 0 /\ ~Locking
        BY DEF IInv, ArcTypeOK, Free, Locking
    <2>3. strong = 0 /\ weak = 0
        BY <2>1, <2>2 DEF IInv, Counts, HasImplicit, Free
    <2> QED
        BY <2>3 DEF IInv, FreedOnce, DataLive, Free
<1> QED
    BY <1>1, InductiveInvariant, PTL
-----------------------------------------------------------------------------
(* From here an Arc can still be made when there is none.                    *)
Revivable == {"cyclic", "cyclicadd", "makemut", "restore"}

(* There is no Arc and there will be none.                                   *)
Over == strong = 0 /\ \A h \in Handles : stage[h] \notin Revivable

(* A Weak that counts has read its own reference and the shared one, unless  *)
(* no Arc can appear before it looks for one.                                *)
CountInv ==
    \A n \in Handles : stage[n] = "count" =>
        cur[n] # USIZE_MAX /\ (cur[n] >= 2 \/ stage[from[n]] = "cyclic" \/ Over)

(* What a step of a handle does to the others, to a count in progress, to    *)
(* new_cyclic's Weak while it is lent, and to an allocation without Arcs.    *)
Effect(h) ==
    /\ \A n \in Handles \ {h} : stage'[n] = stage[n] /\ from'[n] = from[n] /\ cur'[n] = cur[n]
    /\ stage[h] = "count" => stage'[h] = "idle"
    /\ stage'[h] = "count" =>
          /\ stage[h] = "idle" /\ from'[h] \in Handles /\ HasWeak(from'[h])
          /\ cur'[h] = weak /\ UNCHANGED <<strong, kind>>
    /\ stage[h] = "cyclic" /\ Borrowed(h) => stage'[h] = "cyclic"
    /\ strong = 0 /\ stage[h] \notin Revivable => strong' = 0 /\ stage'[h] \notin Revivable

(* Every operation of Arc and Weak has only these effects.                   *)
LEMMA Effects ==
    ASSUME IInv, NEW h \in Handles, Single(h) \/ \E x \in Handles : Pair(x, h)
    PROVE  Effect(h)
<1>1. /\ stage \in [Handles -> PCs] /\ from \in [Handles -> Handles \cup {None}]
      /\ cur \in [Handles -> 0 .. USIZE_MAX] /\ Shape
    BY Zenon DEF IInv, ArcTypeOK
<1>2. kind[h] = "strong" => strong # 0
    BY Derive DEF Derived
<1>3. kind[h] # "strong" => stage[h] \notin {"locked", "unlock", "unlockmut", "replace", "mut"}
    BY <1>1, Zenon DEF Shape
<1> USE DEF Effect, Revivable, inner, local, ghost
<1>4. CASE Abort(h)
    BY <1>1, <1>2, <1>3, <1>4, Zenon DEF Abort
<1>5. CASE Forget(h)
    BY <1>1, <1>2, <1>3, <1>5, Zenon DEF Forget, Set, OwnsArc, HasArc
<1>6. CASE ForgetWeak(h)
    BY <1>1, <1>2, <1>3, <1>6, Zenon DEF ForgetWeak, Set, OwnsWeak, HasWeak
<1>7. CASE DowngradeExchange(h)
    BY <1>1, <1>2, <1>3, <1>7, Zenon DEF DowngradeExchange, Return, Set
<1>8. CASE UpgradeExchange(h)
    BY <1>1, <1>2, <1>3, <1>8, Zenon DEF UpgradeExchange, Return, Set, StepTo, Dead
<1>9. CASE WeakCountEnds(h)
    BY <1>1, <1>2, <1>3, <1>9, Zenon DEF WeakCountEnds, Return, Set
<1>10. CASE Drop(h)
    BY <1>1, <1>2, <1>3, <1>10, Zenon DEF Drop, Set, OwnsArc, HasArc
<1>11. CASE DropData(h)
    BY <1>1, <1>2, <1>3, <1>11, Zenon DEF DropData, Set, StepTo
<1>12. CASE DropWeak(h)
    BY <1>1, <1>2, <1>3, <1>12, Zenon DEF DropWeak, Set, OwnsWeak, HasWeak
<1>13. CASE Dealloc(h)
    BY <1>1, <1>2, <1>3, <1>13, Zenon DEF Dealloc, StepTo
<1>14. CASE CyclicWrite(h)
    BY <1>1, <1>2, <1>3, <1>14, Zenon DEF CyclicWrite, StepTo, OwnsWeak
<1>15. CASE CyclicAdd(h)
    BY <1>1, <1>2, <1>3, <1>15, Zenon DEF CyclicAdd, Set
<1>16. CASE TryUnwrap(h)
    BY <1>1, <1>2, <1>3, <1>16, Zenon DEF TryUnwrap, Set, OwnsArc, HasArc
<1>17. CASE MoveOut(h)
    BY <1>1, <1>2, <1>3, <1>17, Zenon DEF MoveOut, StepTo
<1>18. CASE GetMut(h)
    BY <1>1, <1>2, <1>3, <1>18, Zenon DEF GetMut, StepTo, OwnsArc, HasArc
<1>19. CASE GetMutLoad(h)
    BY <1>1, <1>2, <1>3, <1>19, Zenon DEF GetMutLoad, StepTo
<1>20. CASE GetMutUnlock(h)
    BY <1>1, <1>2, <1>3, <1>20, Zenon DEF GetMutUnlock, StepTo
<1>21. CASE MakeMut(h)
    BY <1>1, <1>2, <1>3, <1>21, Zenon DEF MakeMut, Set, StepTo, OwnsArc, HasArc
<1>22. CASE MakeMutLoad(h)
    BY <1>1, <1>2, <1>3, <1>22, Zenon DEF MakeMutLoad, StepTo
<1>23. CASE MakeMutRestore(h)
    BY <1>1, <1>2, <1>3, <1>23, Zenon DEF MakeMutRestore, Set
<1>24. CASE EndMut(h)
    BY <1>1, <1>2, <1>3, <1>24, Zenon DEF EndMut, StepTo
<1>25. ASSUME NEW x \in Handles, Clone(x, h) PROVE Effect(h)
  <2>1. strong # 0
      BY <1>25, Derive DEF Derived, Clone, HasArc
  <2> QED
      BY <1>1, <1>25, <2>1, Zenon DEF Clone, Set, Free, HasArc
<1>26. ASSUME NEW x \in Handles, CloneWeak(x, h) PROVE Effect(h)
    BY <1>1, <1>26, Zenon DEF CloneWeak, Set, Free, HasWeak
<1>27. ASSUME NEW x \in Handles, Downgrade(x, h) PROVE Effect(h)
    BY <1>1, <1>27, Zenon DEF Downgrade, Borrow, StepTo, Free, HasArc
<1>28. ASSUME NEW x \in Handles, Upgrade(x, h) PROVE Effect(h)
    BY <1>1, <1>28, Zenon DEF Upgrade, Borrow, StepTo, Free, HasWeak
<1>29. ASSUME NEW x \in Handles, WeakCount(x, h) PROVE Effect(h)
    BY <1>1, <1>29, Zenon DEF WeakCount, Borrow, StepTo, Free
<1> QED
    BY <1>4, <1>5, <1>6, <1>7, <1>8, <1>9, <1>10, <1>11, <1>12, <1>13, <1>14, <1>15, <1>16, <1>17,
        <1>18, <1>19, <1>20, <1>21, <1>22, <1>23, <1>24, <1>25, <1>26, <1>27, <1>28, <1>29, Zenon DEF Single, Pair

(* Every step keeps it.                                                      *)
LEMMA CountKept == IInv /\ CountInv /\ [ArcNext]_arcVars => CountInv'
<1> SUFFICES ASSUME IInv, CountInv, [ArcNext]_arcVars, NEW n \in Handles, stage'[n] = "count"
             PROVE  cur'[n] # USIZE_MAX /\ (cur'[n] >= 2 \/ stage'[from'[n]] = "cyclic" \/ Over')
    BY Zenon DEF CountInv
<1>1. CASE UNCHANGED arcVars
    BY <1>1, Zenon DEF CountInv, Over, arcVars, inner, local
<1>2. ASSUME NEW h \in Handles, Single(h) \/ \E x \in Handles : Pair(x, h)
      PROVE  cur'[n] # USIZE_MAX /\ (cur'[n] >= 2 \/ stage'[from'[n]] = "cyclic" \/ Over')
  <2>1. Effect(h)
      BY <1>2, Effects
  <2>2. CASE n # h
    <3>1. stage[n] = "count" /\ from'[n] = from[n] /\ cur'[n] = cur[n]
        BY <2>1, <2>2, Zenon DEF Effect
    <3>2. CASE cur[n] >= 2
        BY <3>1, <3>2, Zenon DEF CountInv
    <3>3. CASE stage[from[n]] = "cyclic"
      <4>1. from[n] \in Handles /\ Borrowed(from[n])
          BY <3>1, ArcAssumption, Zenon DEF IInv, ArcTypeOK, Borrows, Borrowed
      <4> QED
          BY <2>1, <3>1, <3>3, <4>1, Zenon DEF Effect, CountInv
    <3>4. CASE Over
        BY <2>1, <3>1, <3>4, Zenon DEF Effect, Over, CountInv
    <3> QED
        BY <3>1, <3>2, <3>3, <3>4, Zenon DEF CountInv
  <2>3. CASE n = h
    <3>1. /\ from'[n] \in Handles /\ HasWeak(from'[n]) /\ cur'[n] = weak /\ UNCHANGED <<strong, kind>>
          /\ stage[n] = "idle"
        BY <2>1, <2>3, Zenon DEF Effect
    <3>2. ~Locking
      <4>1. kind[from'[n]] = "weak" \/ stage[from'[n]] = "cyclic"
          BY <3>1, Zenon DEF HasWeak
      <4>2. stage[from'[n]] = "cyclic" => strong = 0
          BY <3>1, Zenon DEF IInv, Shape, OneHolder
      <4>3. \A i \in Handles : kind[i] = "strong" => strong # 0
          BY Derive DEF Derived
      <4> QED
          BY <3>1, <4>1, <4>2, <4>3, Zenon DEF IInv, Shape, OneLocker, Locking
    <3>3. weak # USIZE_MAX /\ weak \in Nat
        BY <3>2 DEF IInv, ArcTypeOK, Counts
    <3>4. CASE stage[from'[n]] = "cyclic"
        BY <2>1, <2>3, <3>1, <3>3, <3>4, Zenon DEF Effect
    <3>5. CASE stage[from'[n]] # "cyclic"
      <4>1. kind[from'[n]] = "weak"
          BY <3>1, <3>5, Zenon DEF HasWeak
      <4>2. Count(kind, "weak") \in Nat /\ Count(kind, "weak") # 0
          BY <3>1, <4>1, CountFacts, Zenon
      <4>3. CASE HasImplicit
          BY <3>1, <3>2, <3>3, <4>2, <4>3 DEF IInv, ArcTypeOK, Counts
      <4>4. CASE ~HasImplicit
        <5>1. strong = 0 /\ \A i \in Handles : stage[i] \notin Revivable
            BY <4>4 DEF HasImplicit, IInv, ArcTypeOK, Shape, Revivable
        <5>2. Over'
            BY <2>1, <5>1, Zenon DEF Effect, Over
        <5> QED
            BY <3>1, <3>3, <5>2, Zenon
      <4> QED
          BY <4>3, <4>4, Zenon
    <3> QED
        BY <3>4, <3>5, Zenon
  <2> QED
      BY <2>2, <2>3, Zenon
<1> QED
    BY <1>1, <1>2, Zenon DEF ArcNext

(* What Weak::weak_count says is true whenever it finds an Arc: the count it *)
(* has read includes its own Weak and the one that the Arcs share, so that   *)
(* one less is never an underflow nor the locked value.                      *)
THEOREM CountedTruly == ArcSpec => []WeakCountIsTrue
<1>1. ArcInit => CountInv
  <2>1. ArcInit => \A n \in Handles : stage[n] # "count"
      BY DEF ArcInit
  <2> QED
      BY <2>1, Zenon DEF CountInv
<1>2. Inv /\ (overflowed \/ CountInv) => WeakCountIsTrue
  <2> SUFFICES ASSUME IInv, CountInv, NEW n \in Handles, stage[n] = "count", strong > 0
               PROVE  cur[n] \in 2 .. USIZE_MAX - 1
      BY Zenon DEF Inv, WeakCountIsTrue
  <2>1. strong # 0 /\ USIZE_MAX \in Nat /\ cur[n] \in 0 .. USIZE_MAX
      BY ArcAssumption DEF IInv, ArcTypeOK
  <2>2. stage[from[n]] # "cyclic"
    <3>1. from[n] \in Handles
        BY Zenon DEF IInv, ArcTypeOK, Borrows
    <3> QED
        BY <2>1, <3>1, Zenon DEF IInv, Shape, OneHolder
  <2>3. cur[n] # USIZE_MAX /\ cur[n] >= 2
      BY <2>1, <2>2, Zenon DEF CountInv, Over
  <2> QED
      BY <2>1, <2>3
<1>3. Inv /\ (overflowed \/ CountInv) /\ [ArcNext]_arcVars => (overflowed \/ CountInv)'
  <2>1. UNCHANGED arcVars => overflowed' = overflowed
      BY Zenon DEF arcVars, ghost
  <2>2. UNCHANGED arcVars /\ overflowed => overflowed'
      BY <2>1
  <2> QED
      BY <2>2, CountKept, Overflown, Zenon DEF Inv
<1> QED
    BY <1>1, <1>2, <1>3, InductiveInvariant, PTL DEF ArcSpec
=============================================================================
