--------------------------- MODULE TeardownProofs ---------------------------
(* Proofs about the end of threads and processes, for any sets of threads,   *)
(* locals, keys and closures and any number of iterations.                   *)
EXTENDS Teardown, FiniteSetTheorems, SequenceTheorems, TLAPS

(* Where a thread is on its way to the key.                                  *)
Owning == {"exchange", "destroy", "lost", "store"}
HasZero == {"again", "destroy"}
Locking == {"synccreate", "store"}
TlsPCs == Owning \cup HasZero \cup Locking
          \cup {"user", "key", "create", "lock", "register", "exit", "dtors", "ended"}

KeyTypes ==
    /\ key \in OsKeys /\ live \subseteq OsKeys /\ mine \in [Threads -> OsKeys]
    /\ pc \in [Threads -> TlsPCs]

(* A thread has a key of its own exactly between creating it and giving it   *)
(* up, ...                                                                   *)
OwnKeys ==
    /\ \A t \in Threads : mine[t] # 0 <=> pc[t] \in Owning
    /\ \A t \in Threads : mine[t] # 0 => mine[t] \in live /\ mine[t] # key
    /\ \A t, u \in Threads : mine[t] # 0 /\ mine[u] = mine[t] => t = u

(* ... and the keys there are are these, the one in use, ...                 *)
UsedKeys ==
    /\ key # 0 => key \in live
    /\ \A k \in live : k = 0 \/ k = key \/ \E t \in Threads : mine[t] = k

(* ... and 0 while the thread that got it has not destroyed it.              *)
ZeroKey ==
    /\ \A t \in Threads : pc[t] \in HasZero => 0 \in live
    /\ 0 \in live => \E t \in Threads : pc[t] \in HasZero
    /\ \A t, u \in Threads : pc[t] \in HasZero /\ pc[u] \in HasZero => t = u

(* Whoever creates with INIT_LOCK held is alone, and finds no key.           *)
Synchronization ==
    \A t \in Threads :
        /\ pc[t] \in Locking => initLock = t /\ key = 0 /\ synchronized
        /\ pc[t] = "lock" => synchronized
        /\ pc[t] \in {"create", "again", "destroy", "exchange", "lost"} => ~synchronized
        /\ pc[t] = "lost" => key # 0

(* Nothing is registered without a key.                                      *)
KeyFirst ==
    key = 0 => \A t \in Threads :
        /\ pc[t] \notin {"register", "dtors"} /\ slot[t] = <<>> /\ stack[t] = <<>>
        /\ \A l \in Locals : dtor_state[t][l] # "Registered"

KeyInv == KeyTypes /\ OwnKeys /\ UsedKeys /\ ZeroKey /\ Synchronization /\ KeyFirst

-----------------------------------------------------------------------------
(* A step that concerns no key keeps the agreement on the key.               *)
LEMMA Quiet ==
    ASSUME KeyInv, NEW t \in Threads, NEW at \in {"user", "key", "create", "lock", "register", "exit", "dtors", "ended"},
           pc[t] \notin Owning \cup HasZero \cup Locking,
           UNCHANGED keyVars, pc' = [pc EXCEPT ![t] = at],
           at = "create" => ~synchronized, at = "lock" => synchronized,
           KeyFirst'
    PROVE  KeyInv'
<1> USE DEF KeyInv, keyVars, Owning, HasZero, Locking, TlsPCs
<1>1. KeyTypes'
    BY Zenon DEF KeyTypes
<1>2. OwnKeys'
    BY Zenon DEF KeyTypes, OwnKeys
<1>3. UsedKeys'
    BY Zenon DEF UsedKeys
<1>4. ZeroKey'
    BY DEF KeyTypes, ZeroKey
<1>5. Synchronization'
    BY Zenon DEF KeyTypes, Synchronization
<1> QED
    BY <1>1, <1>2, <1>3, <1>4, <1>5, Zenon

(* Every step of a thread keeps the agreement on the key.                    *)
LEMMA KeyStep == KeyInv /\ TlsNext => KeyInv'
<1> SUFFICES ASSUME KeyInv, NEW t \in Threads,
                    \/ TlsStep(t) \/ InitEnds(t) \/ InitPanics(t) \/ DtorEnds(t) \/ ThreadEnds(t)
                    \/ \E l \in Locals : Access(t, l)
             PROVE  KeyInv'
    BY Zenon DEF TlsNext
<1> USE DEF Go, Has, Owning, HasZero, Locking
<1>1. CASE LoadKey(t)
  <2>1. KeyFirst'
      BY <1>1, Zenon DEF LoadKey, keyVars, localVars, KeyInv, KeyTypes, KeyFirst
  <2>2. /\ pc' = [pc EXCEPT ![t] = pc'[t]] /\ UNCHANGED keyVars /\ pc[t] \notin Owning \cup HasZero \cup Locking
        /\ pc'[t] \in {"user", "key", "create", "lock", "register", "exit", "dtors", "ended"}
        /\ (pc'[t] = "create" => ~synchronized) /\ (pc'[t] = "lock" => synchronized)
      BY <1>1, Zenon DEF LoadKey, keyVars, localVars, KeyInv, KeyTypes, TlsPCs
  <2> QED
      BY <2>1, <2>2, Quiet, Zenon
<1>2. CASE Register(t)
  <2>1. KeyFirst'
      BY <1>2, Zenon DEF Register, Enter, keyVars, KeyInv, KeyTypes, KeyFirst
  <2>2. /\ pc' = [pc EXCEPT ![t] = pc'[t]] /\ UNCHANGED keyVars /\ pc[t] \notin Owning \cup HasZero \cup Locking
        /\ pc'[t] \in {"user", "key", "create", "lock", "register", "exit", "dtors", "ended"}
        /\ (pc'[t] = "create" => ~synchronized) /\ (pc'[t] = "lock" => synchronized)
      BY <1>2, Zenon DEF Register, Enter, keyVars, KeyInv, KeyTypes, TlsPCs
  <2> QED
      BY <2>1, <2>2, Quiet, Zenon
<1>3. CASE OsExit(t)
  <2>1. KeyFirst'
      BY <1>3, Zenon DEF OsExit, keyVars, KeyInv, KeyTypes, KeyFirst
  <2>2. /\ pc' = [pc EXCEPT ![t] = pc'[t]] /\ UNCHANGED keyVars /\ pc[t] \notin Owning \cup HasZero \cup Locking
        /\ pc'[t] \in {"user", "key", "create", "lock", "register", "exit", "dtors", "ended"}
        /\ (pc'[t] = "create" => ~synchronized) /\ (pc'[t] = "lock" => synchronized)
      BY <1>3, Zenon DEF OsExit, keyVars, KeyInv, KeyTypes, TlsPCs
  <2> QED
      BY <2>1, <2>2, Quiet, Zenon
<1>4. CASE DestroyValue(t)
  <2>1. KeyFirst'
      BY <1>4, Zenon DEF DestroyValue, AfterDrop, Enter, keyVars, KeyInv, KeyTypes, KeyFirst
  <2>2. /\ pc' = [pc EXCEPT ![t] = pc'[t]] /\ UNCHANGED keyVars /\ pc[t] \notin Owning \cup HasZero \cup Locking
        /\ pc'[t] \in {"user", "key", "create", "lock", "register", "exit", "dtors", "ended"}
        /\ (pc'[t] = "create" => ~synchronized) /\ (pc'[t] = "lock" => synchronized)
      BY <1>4, Zenon DEF DestroyValue, AfterDrop, Enter, keyVars, KeyInv, KeyTypes, TlsPCs
  <2> QED
      BY <2>1, <2>2, Quiet, Zenon
<1>5. CASE NextList(t)
  <2>1. KeyFirst'
      BY <1>5, Zenon DEF NextList, keyVars, KeyInv, KeyTypes, KeyFirst
  <2>2. /\ pc' = [pc EXCEPT ![t] = pc'[t]] /\ UNCHANGED keyVars /\ pc[t] \notin Owning \cup HasZero \cup Locking
        /\ pc'[t] \in {"user", "key", "create", "lock", "register", "exit", "dtors", "ended"}
        /\ (pc'[t] = "create" => ~synchronized) /\ (pc'[t] = "lock" => synchronized)
      BY <1>5, Zenon DEF NextList, keyVars, KeyInv, KeyTypes, TlsPCs
  <2> QED
      BY <2>1, <2>2, Quiet, Zenon
<1>6. CASE InitEnds(t) \/ InitPanics(t)
  <2>1. KeyFirst'
      BY <1>6, Zenon DEF InitEnds, InitPanics, In, Return, Top, keyVars, KeyInv, KeyTypes, KeyFirst
  <2>2. /\ pc' = [pc EXCEPT ![t] = pc'[t]] /\ UNCHANGED keyVars /\ pc[t] \notin Owning \cup HasZero \cup Locking
        /\ pc'[t] \in {"user", "key", "create", "lock", "register", "exit", "dtors", "ended"}
        /\ (pc'[t] = "create" => ~synchronized) /\ (pc'[t] = "lock" => synchronized)
      BY <1>6, Zenon DEF InitEnds, InitPanics, In, Return, Top, keyVars, KeyInv, KeyTypes, TlsPCs
  <2> QED
      BY <2>1, <2>2, Quiet, Zenon
<1>7. CASE DtorEnds(t)
  <2>1. KeyFirst'
      BY <1>7, Zenon DEF DtorEnds, In, Return, Top, keyVars, KeyInv, KeyTypes, KeyFirst
  <2>2. /\ pc' = [pc EXCEPT ![t] = pc'[t]] /\ UNCHANGED keyVars /\ pc[t] \notin Owning \cup HasZero \cup Locking
        /\ pc'[t] \in {"user", "key", "create", "lock", "register", "exit", "dtors", "ended"}
        /\ (pc'[t] = "create" => ~synchronized) /\ (pc'[t] = "lock" => synchronized)
      BY <1>7, Zenon DEF DtorEnds, In, Return, Top, keyVars, KeyInv, KeyTypes, TlsPCs
  <2> QED
      BY <2>1, <2>2, Quiet, Zenon
<1>8. CASE ThreadEnds(t)
  <2>1. KeyFirst'
      BY <1>8, Zenon DEF ThreadEnds, keyVars, localVars, KeyInv, KeyTypes, KeyFirst
  <2>2. /\ pc' = [pc EXCEPT ![t] = pc'[t]] /\ UNCHANGED keyVars /\ pc[t] \notin Owning \cup HasZero \cup Locking
        /\ pc'[t] \in {"user", "key", "create", "lock", "register", "exit", "dtors", "ended"}
        /\ (pc'[t] = "create" => ~synchronized) /\ (pc'[t] = "lock" => synchronized)
      BY <1>8, Zenon DEF ThreadEnds, keyVars, localVars, KeyInv, KeyTypes, TlsPCs
  <2> QED
      BY <2>1, <2>2, Quiet, Zenon
<1>9. CASE \E l \in Locals : Access(t, l)
  <2>1. KeyFirst'
      BY <1>9 DEF Access, Enter, keyVars, KeyInv, KeyTypes, KeyFirst
  <2>2. /\ pc' = [pc EXCEPT ![t] = pc'[t]] /\ UNCHANGED keyVars /\ pc[t] \notin Owning \cup HasZero \cup Locking
        /\ pc'[t] \in {"user", "key", "create", "lock", "register", "exit", "dtors", "ended"}
        /\ (pc'[t] = "create" => ~synchronized) /\ (pc'[t] = "lock" => synchronized)
      BY <1>9, Zenon DEF Access, Enter, keyVars, KeyInv, KeyTypes, TlsPCs
  <2> QED
      BY <2>1, <2>2, Quiet, Zenon
<1>10. CASE CreateFirst(t)
  <2>1. KeyTypes'
      BY <1>10, ZeroIsAKey, Zenon DEF CreateFirst, Create, localVars, KeyInv, KeyTypes, TlsPCs
  <2>2. OwnKeys'
      BY <1>10 DEF CreateFirst, Create, localVars, KeyInv, KeyTypes, TlsPCs, OwnKeys, UsedKeys, ZeroKey, Synchronization
  <2>3. UsedKeys'
      BY <1>10 DEF CreateFirst, Create, localVars, KeyInv, KeyTypes, TlsPCs, OwnKeys, UsedKeys, Synchronization
  <2>4. ZeroKey'
      BY <1>10 DEF CreateFirst, Create, localVars, KeyInv, KeyTypes, TlsPCs, OwnKeys, ZeroKey
  <2>5. Synchronization'
      BY <1>10, Zenon DEF CreateFirst, Create, localVars, KeyInv, KeyTypes, TlsPCs, OwnKeys, Synchronization
  <2>6. KeyFirst'
      BY <1>10 DEF CreateFirst, Create, localVars, KeyInv, KeyTypes, TlsPCs, OwnKeys, KeyFirst, Synchronization
  <2> QED
      BY <2>1, <2>2, <2>3, <2>4, <2>5, <2>6, Zenon DEF KeyInv
<1>11. CASE CreateAgain(t)
  <2>1. KeyTypes'
      BY <1>11, ZeroIsAKey, Zenon DEF CreateAgain, Create, localVars, KeyInv, KeyTypes, TlsPCs
  <2>2. OwnKeys'
      BY <1>11 DEF CreateAgain, Create, localVars, KeyInv, KeyTypes, TlsPCs, OwnKeys, UsedKeys, ZeroKey, Synchronization
  <2>3. UsedKeys'
      BY <1>11 DEF CreateAgain, Create, localVars, KeyInv, KeyTypes, TlsPCs, OwnKeys, UsedKeys, Synchronization
  <2>4. ZeroKey'
      BY <1>11 DEF CreateAgain, Create, localVars, KeyInv, KeyTypes, TlsPCs, OwnKeys, ZeroKey
  <2>5. Synchronization'
      BY <1>11, Zenon DEF CreateAgain, Create, localVars, KeyInv, KeyTypes, TlsPCs, OwnKeys, Synchronization
  <2>6. KeyFirst'
      BY <1>11, Zenon DEF CreateAgain, Create, localVars, KeyInv, KeyTypes, TlsPCs, OwnKeys, KeyFirst, Synchronization
  <2> QED
      BY <2>1, <2>2, <2>3, <2>4, <2>5, <2>6, Zenon DEF KeyInv
<1>12. CASE DestroyFirst(t)
  <2>1. KeyTypes'
      BY <1>12, ZeroIsAKey, Zenon DEF DestroyFirst, localVars, KeyInv, KeyTypes, TlsPCs
  <2>2. OwnKeys'
      BY <1>12 DEF DestroyFirst, localVars, KeyInv, KeyTypes, TlsPCs, OwnKeys, UsedKeys, ZeroKey, Synchronization
  <2>3. UsedKeys'
      BY <1>12, Zenon DEF DestroyFirst, localVars, KeyInv, KeyTypes, TlsPCs, OwnKeys, UsedKeys, Synchronization
  <2>4. ZeroKey'
      BY <1>12, Zenon DEF DestroyFirst, localVars, KeyInv, KeyTypes, TlsPCs, OwnKeys, ZeroKey
  <2>5. Synchronization'
      BY <1>12, Zenon DEF DestroyFirst, localVars, KeyInv, KeyTypes, TlsPCs, OwnKeys, Synchronization
  <2>6. KeyFirst'
      BY <1>12 DEF DestroyFirst, localVars, KeyInv, KeyTypes, TlsPCs, OwnKeys, KeyFirst, Synchronization
  <2> QED
      BY <2>1, <2>2, <2>3, <2>4, <2>5, <2>6, Zenon DEF KeyInv
<1>13. CASE Exchange(t)
  <2>1. KeyTypes'
      BY <1>13, ZeroIsAKey, Zenon DEF Exchange, localVars, KeyInv, KeyTypes, TlsPCs
  <2>2. OwnKeys'
      BY <1>13 DEF Exchange, localVars, KeyInv, KeyTypes, TlsPCs, OwnKeys, UsedKeys, ZeroKey, Synchronization
  <2>3. UsedKeys'
      BY <1>13 DEF Exchange, localVars, KeyInv, KeyTypes, TlsPCs, OwnKeys, UsedKeys, Synchronization
  <2>4. ZeroKey'
      BY <1>13 DEF Exchange, localVars, KeyInv, KeyTypes, TlsPCs, OwnKeys, ZeroKey
  <2>5. Synchronization'
      BY <1>13, Zenon DEF Exchange, localVars, KeyInv, KeyTypes, TlsPCs, OwnKeys, Synchronization
  <2>6. KeyFirst'
      BY <1>13, Zenon DEF Exchange, localVars, KeyInv, KeyTypes, TlsPCs, OwnKeys, KeyFirst, Synchronization
  <2> QED
      BY <2>1, <2>2, <2>3, <2>4, <2>5, <2>6, Zenon DEF KeyInv
<1>14. CASE DestroyMine(t)
  <2>1. KeyTypes'
      BY <1>14, ZeroIsAKey, Zenon DEF DestroyMine, localVars, KeyInv, KeyTypes, TlsPCs
  <2>2. OwnKeys'
      BY <1>14 DEF DestroyMine, localVars, KeyInv, KeyTypes, TlsPCs, OwnKeys, UsedKeys, ZeroKey, Synchronization
  <2>3. UsedKeys'
      BY <1>14, Zenon DEF DestroyMine, localVars, KeyInv, KeyTypes, TlsPCs, OwnKeys, UsedKeys, Synchronization
  <2>4. ZeroKey'
      BY <1>14, Zenon DEF DestroyMine, localVars, KeyInv, KeyTypes, TlsPCs, OwnKeys, ZeroKey
  <2>5. Synchronization'
      BY <1>14, Zenon DEF DestroyMine, localVars, KeyInv, KeyTypes, TlsPCs, OwnKeys, Synchronization
  <2>6. KeyFirst'
      BY <1>14, Zenon DEF DestroyMine, localVars, KeyInv, KeyTypes, TlsPCs, OwnKeys, KeyFirst, Synchronization
  <2> QED
      BY <2>1, <2>2, <2>3, <2>4, <2>5, <2>6, Zenon DEF KeyInv
<1>15. CASE LockInit(t)
  <2>1. KeyTypes'
      BY <1>15, ZeroIsAKey, Zenon DEF LockInit, localVars, KeyInv, KeyTypes, TlsPCs
  <2>2. OwnKeys'
      BY <1>15 DEF LockInit, localVars, KeyInv, KeyTypes, TlsPCs, OwnKeys, UsedKeys, ZeroKey, Synchronization
  <2>3. UsedKeys'
      BY <1>15, Zenon DEF LockInit, localVars, KeyInv, KeyTypes, TlsPCs, OwnKeys, UsedKeys, Synchronization
  <2>4. ZeroKey'
      BY <1>15 DEF LockInit, localVars, KeyInv, KeyTypes, TlsPCs, OwnKeys, ZeroKey
  <2>5. Synchronization'
      BY <1>15, NobodyIsNoThread, Zenon DEF LockInit, localVars, KeyInv, KeyTypes, TlsPCs, OwnKeys, Synchronization
  <2>6. KeyFirst'
      BY <1>15 DEF LockInit, localVars, KeyInv, KeyTypes, TlsPCs, OwnKeys, KeyFirst, Synchronization
  <2> QED
      BY <2>1, <2>2, <2>3, <2>4, <2>5, <2>6, Zenon DEF KeyInv
<1>16. CASE SyncCreate(t)
  <2>1. KeyTypes'
      BY <1>16, ZeroIsAKey, Zenon DEF SyncCreate, Create, localVars, KeyInv, KeyTypes, TlsPCs
  <2>2. OwnKeys'
      BY <1>16 DEF SyncCreate, Create, localVars, KeyInv, KeyTypes, TlsPCs, OwnKeys, UsedKeys, ZeroKey, Synchronization
  <2>3. UsedKeys'
      BY <1>16 DEF SyncCreate, Create, localVars, KeyInv, KeyTypes, TlsPCs, OwnKeys, UsedKeys, Synchronization
  <2>4. ZeroKey'
      BY <1>16 DEF SyncCreate, Create, localVars, KeyInv, KeyTypes, TlsPCs, OwnKeys, ZeroKey
  <2>5. Synchronization'
      BY <1>16, Zenon DEF SyncCreate, Create, localVars, KeyInv, KeyTypes, TlsPCs, OwnKeys, Synchronization
  <2>6. KeyFirst'
      BY <1>16 DEF SyncCreate, Create, localVars, KeyInv, KeyTypes, TlsPCs, OwnKeys, KeyFirst, Synchronization
  <2> QED
      BY <2>1, <2>2, <2>3, <2>4, <2>5, <2>6, Zenon DEF KeyInv
<1>17. CASE StoreKey(t)
  <2>1. KeyTypes'
      BY <1>17, ZeroIsAKey, Zenon DEF StoreKey, localVars, KeyInv, KeyTypes, TlsPCs
  <2>2. OwnKeys'
      BY <1>17 DEF StoreKey, localVars, KeyInv, KeyTypes, TlsPCs, OwnKeys, UsedKeys, ZeroKey, Synchronization
  <2>3. UsedKeys'
      BY <1>17, Zenon DEF StoreKey, localVars, KeyInv, KeyTypes, TlsPCs, OwnKeys, UsedKeys, Synchronization
  <2>4. ZeroKey'
      BY <1>17 DEF StoreKey, localVars, KeyInv, KeyTypes, TlsPCs, OwnKeys, ZeroKey
  <2>5. Synchronization'
      BY <1>17, Zenon DEF StoreKey, localVars, KeyInv, KeyTypes, TlsPCs, OwnKeys, Synchronization
  <2>6. KeyFirst'
      BY <1>17, Zenon DEF StoreKey, localVars, KeyInv, KeyTypes, TlsPCs, OwnKeys, KeyFirst, Synchronization
  <2> QED
      BY <2>1, <2>2, <2>3, <2>4, <2>5, <2>6, Zenon DEF KeyInv
<1> QED
    BY <1>1, <1>2, <1>3, <1>4, <1>5, <1>6, <1>7, <1>8, <1>9, <1>10, <1>11, <1>12, <1>13, <1>14, <1>15, <1>16, <1>17, Zenon
    DEF TlsStep

-----------------------------------------------------------------------------
(* Lists in which nothing occurs twice: what they hold, and how often.       *)
Holds(s, x) == \E i \in 1 .. Len(s) : s[i] = x
Distinct(s) == \A i, j \in 1 .. Len(s) : s[i] = s[j] => i = j

(* The empty list holds nothing.                                             *)
LEMMA EmptyList == \A x : ~Holds(<<>>, x) /\ Distinct(<<>>)
BY DEF Holds, Distinct

(* Append adds one element, and keeps a list without repetitions so.         *)
LEMMA AppendList ==
    ASSUME NEW S, NEW s \in Seq(S), NEW x \in S
    PROVE  /\ \A y : Holds(Append(s, x), y) <=> Holds(s, y) \/ y = x
           /\ Distinct(s) /\ ~Holds(s, x) => Distinct(Append(s, x))
           /\ Append(s, x) \in Seq(S)
<1>1. ASSUME NEW y PROVE Holds(Append(s, x), y) <=> Holds(s, y) \/ y = x
  <2>1. Holds(Append(s, x), y) => Holds(s, y) \/ y = x
      BY DEF Holds
  <2>2. Holds(s, y) => Holds(Append(s, x), y)
      BY DEF Holds
  <2>3. Append(s, x)[Len(s) + 1] = x /\ Len(s) + 1 \in 1 .. Len(Append(s, x))
      OBVIOUS
  <2> QED
      BY <2>1, <2>2, <2>3, Zenon DEF Holds
<1>2. Distinct(s) /\ ~Holds(s, x) => Distinct(Append(s, x))
    BY DEF Holds, Distinct
<1> QED
    BY <1>1, <1>2

(* Tail takes the first element away.                                        *)
LEMMA TailList ==
    ASSUME NEW S, NEW s \in Seq(S), s # <<>>
    PROVE  /\ Head(s) \in S /\ Holds(s, Head(s)) /\ Tail(s) \in Seq(S)
           /\ \A y : Holds(s, y) => y = Head(s) \/ Holds(Tail(s), y)
           /\ \A y : Holds(Tail(s), y) => Holds(s, y)
           /\ Distinct(s) => Distinct(Tail(s)) /\ ~Holds(Tail(s), Head(s))
<1>1. Len(s) \in Nat /\ Len(s) >= 1 /\ Head(s) = s[1]
    OBVIOUS
<1>2. Head(s) \in S /\ Tail(s) \in Seq(S) /\ Holds(s, Head(s))
    BY <1>1 DEF Holds
<1>3. /\ Len(Tail(s)) = Len(s) - 1
      /\ \A i \in 1 .. Len(s) - 1 : Tail(s)[i] = s[i + 1]
    BY <1>1
<1>4. ASSUME NEW y, Holds(s, y) PROVE y = Head(s) \/ Holds(Tail(s), y)
  <2>1. PICK i \in 1 .. Len(s) : s[i] = y
      BY <1>4, Zenon DEF Holds
  <2>2. i # 1 => i - 1 \in 1 .. Len(s) - 1 /\ Tail(s)[i - 1] = y
      BY <1>1, <1>3, <2>1
  <2> QED
      BY <1>1, <1>3, <2>1, <2>2, Zenon DEF Holds
<1>5. ASSUME NEW y, Holds(Tail(s), y) PROVE Holds(s, y)
  <2>1. PICK i \in 1 .. Len(s) - 1 : s[i + 1] = y
      BY <1>3, <1>5, Zenon DEF Holds
  <2> QED
      BY <1>1, <2>1 DEF Holds
<1>6. ASSUME Distinct(s) PROVE Distinct(Tail(s)) /\ ~Holds(Tail(s), Head(s))
    BY <1>1, <1>3, <1>6 DEF Holds, Distinct
<1> QED
    BY <1>2, <1>4, <1>5, <1>6, Zenon

(* Such a list holds a thing once or not at all.                             *)
LEMMA CountList ==
    ASSUME NEW S, NEW s \in Seq(S), Distinct(s), NEW x
    PROVE  Cardinality({i \in 1 .. Len(s) : s[i] = x}) = IF Holds(s, x) THEN 1 ELSE 0
<1>1. CASE ~Holds(s, x)
  <2>1. {i \in 1 .. Len(s) : s[i] = x} = {}
      BY <1>1, Zenon DEF Holds
  <2> QED
      BY <1>1, <2>1, FS_EmptySet, Zenon
<1>2. CASE Holds(s, x)
  <2>1. PICK i \in 1 .. Len(s) : s[i] = x
      BY <1>2, Zenon DEF Holds
  <2>2. {j \in 1 .. Len(s) : s[j] = x} = {i}
      BY <2>1, Zenon DEF Distinct
  <2> QED
      BY <1>2, <2>2, FS_Singleton, Zenon
<1> QED
    BY <1>1, <1>2, Zenon

(* One list after another.                                                   *)
LEMMA ConcatList ==
    ASSUME NEW S, NEW s \in Seq(S), NEW r \in Seq(S), Distinct(s), Distinct(r),
           \A x : ~(Holds(s, x) /\ Holds(r, x))
    PROVE  /\ Distinct(s \o r) /\ s \o r \in Seq(S)
           /\ \A x : Holds(s \o r, x) <=> Holds(s, x) \/ Holds(r, x)
<1>1. /\ Len(s) \in Nat /\ Len(r) \in Nat /\ Len(s \o r) = Len(s) + Len(r)
      /\ \A i \in 1 .. Len(s) : (s \o r)[i] = s[i]
      /\ \A i \in 1 .. Len(r) : (s \o r)[Len(s) + i] = r[i]
      /\ \A i \in 1 .. Len(s) + Len(r) : i > Len(s) => i - Len(s) \in 1 .. Len(r) /\ (s \o r)[i] = r[i - Len(s)]
    OBVIOUS
<1>2. ASSUME NEW x PROVE Holds(s \o r, x) <=> Holds(s, x) \/ Holds(r, x)
  <2>1. ASSUME Holds(s \o r, x) PROVE Holds(s, x) \/ Holds(r, x)
      BY <1>1, <2>1 DEF Holds
  <2>2. ASSUME Holds(s, x) PROVE Holds(s \o r, x)
      BY <1>1, <2>2 DEF Holds
  <2>3. ASSUME Holds(r, x) PROVE Holds(s \o r, x)
    <3>1. PICK i \in 1 .. Len(r) : r[i] = x
        BY <2>3, Zenon DEF Holds
    <3>2. Len(s) + i \in 1 .. Len(s) + Len(r)
        BY <1>1
    <3> QED
        BY <1>1, <3>1, <3>2, Zenon DEF Holds
  <2> QED
      BY <2>1, <2>2, <2>3, Zenon
<1>3. ASSUME NEW i \in 1 .. Len(s \o r), NEW j \in 1 .. Len(s \o r), (s \o r)[i] = (s \o r)[j] PROVE i = j
  <2>1. CASE i <= Len(s) /\ j <= Len(s)
      BY <1>1, <1>3, <2>1 DEF Distinct
  <2>2. CASE i > Len(s) /\ j > Len(s)
    <3>1. i - Len(s) = j - Len(s)
        BY <1>1, <1>3, <2>2 DEF Distinct
    <3> QED
        BY <1>1, <3>1
  <2>3. CASE i <= Len(s) /\ j > Len(s)
    <3>1. Holds(s, (s \o r)[i])
        BY <1>1, <2>3 DEF Holds
    <3>2. Holds(r, (s \o r)[j])
        BY <1>1, <2>3, Zenon DEF Holds
    <3> QED
        BY <1>3, <3>1, <3>2, Zenon
  <2>4. CASE i > Len(s) /\ j <= Len(s)
    <3>1. Holds(r, (s \o r)[i])
        BY <1>1, <2>4, Zenon DEF Holds
    <3>2. Holds(s, (s \o r)[j])
        BY <1>1, <2>4 DEF Holds
    <3> QED
        BY <1>3, <3>1, <3>2, Zenon
  <2> QED
      BY <1>1, <2>1, <2>2, <2>3, <2>4
<1> QED
    BY <1>2, <1>3 DEF Distinct

-----------------------------------------------------------------------------
(* Where cleanup is: only one caller is in it, DONE is set in its last       *)
(* round, and afterwards nothing is left.                                    *)
CleanupInv ==
    /\ cpc \in [Callers -> {"idle", "once", "swap", "run", "end"}]
    /\ iter \in Nat /\ done \in BOOLEAN /\ exited \in BOOLEAN
    /\ cleanupOnce \in {"incomplete", "running", "complete"}
    /\ \A t \in Callers : cpc[t] \in {"swap", "run"} => cleanupOnce = "running"
    /\ \A t, u \in Callers : cpc[t] \in {"swap", "run"} /\ cpc[u] \in {"swap", "run"} => t = u
    /\ cleanupOnce = "incomplete" => ~done /\ batch = <<>> /\ iter = 1
    /\ \A t \in Callers : cpc[t] = "swap" => ~done /\ batch = <<>> /\ iter \in 1 .. ITERS
    /\ \A t \in Callers : cpc[t] = "run" => iter \in 1 .. ITERS /\ (done <=> iter = ITERS)
    /\ cleanupOnce = "complete" => done /\ batch = <<>>
    /\ done => queue = <<>>
    /\ \A t \in Callers : cpc[t] = "end" => cleanupOnce = "complete"
    /\ exited => cleanupOnce = "complete"

(* Exactly the accepted closures that have not run are in the two lists.     *)
ClosuresInv ==
    /\ queue \in Seq(Closures) /\ batch \in Seq(Closures)
    /\ told \in [Closures -> {"none", "accepted", "refused"}] /\ ran \in [Closures -> {0, 1}]
    /\ Distinct(queue) /\ Distinct(batch)
    /\ \A c : ~(Holds(queue, c) /\ Holds(batch, c))
    /\ \A c \in Closures : Holds(queue, c) \/ Holds(batch, c) <=> told[c] = "accepted" /\ ran[c] = 0
    /\ \A c \in Closures : ran[c] = 1 => told[c] = "accepted"

ExitInv == CleanupInv /\ ClosuresInv

(* Every step of the process's end keeps that.                               *)
LEMMA CleanupStep == ExitInv /\ ExitNext => ExitInv'
<1> SUFFICES ASSUME ExitInv, ExitNext PROVE ExitInv'
    BY Zenon
<1> USE DEF ExitInv, CGo
<1>1. ASSUME NEW c \in Closures, Push(c) PROVE ExitInv'
  <2>1. CleanupInv'
      BY <1>1, Zenon DEF Push, CleanupInv
  <2>2. ClosuresInv'
    <3>1. CASE done
        BY <1>1, <3>1, Zenon DEF Push, ClosuresInv
    <3>2. CASE ~done
      <4>1. queue' = Append(queue, c) /\ batch' = batch /\ told' = [told EXCEPT ![c] = "accepted"] /\ ran' = ran
          BY <1>1, <3>2, Zenon DEF Push
      <4>2. ~Holds(queue, c) /\ ~Holds(batch, c) /\ ran[c] = 0
          BY <1>1, Zenon DEF Push, ClosuresInv
      <4>3. /\ \A y : Holds(queue', y) <=> Holds(queue, y) \/ y = c
            /\ Distinct(queue') /\ queue' \in Seq(Closures)
          BY <4>1, <4>2, AppendList, Zenon DEF ClosuresInv
      <4> QED
          BY <4>1, <4>2, <4>3, Zenon DEF ClosuresInv
    <3> QED
        BY <3>1, <3>2, Zenon
  <2> QED
      BY <2>1, <2>2, Zenon
<1>2. ASSUME NEW t \in Callers, CallCleanup(t) \/ OnceEnds(t) \/ Exit(t) PROVE ExitInv'
  <2>1. CleanupInv'
    <3>1. CASE CallCleanup(t)
      <4>1. CASE cleanupOnce = "incomplete"
          BY <3>1, <4>1, SomeIterations DEF CallCleanup, CleanupInv
      <4>2. CASE cleanupOnce # "incomplete"
          BY <3>1, <4>2, Zenon DEF CallCleanup, CleanupInv
      <4> QED
          BY <4>1, <4>2, Zenon
    <3>2. CASE OnceEnds(t)
        BY <3>2, Zenon DEF OnceEnds, CleanupInv
    <3>3. CASE Exit(t)
        BY <3>3, Zenon DEF Exit, CleanupInv
    <3> QED
        BY <1>2, <3>1, <3>2, <3>3, Zenon
  <2>2. ClosuresInv'
      BY <1>2 DEF CallCleanup, OnceEnds, Exit, ClosuresInv
  <2> QED
      BY <2>1, <2>2, Zenon
<1>3. ASSUME NEW t \in Callers, SwapQueue(t) PROVE ExitInv'
  <2>1. batch = <<>> /\ ~done
      BY <1>3, Zenon DEF SwapQueue, CleanupInv
  <2>2. CleanupInv'
      BY <1>3, <2>1, Zenon DEF SwapQueue, LastRound, CleanupInv
  <2>3. ClosuresInv'
    <3>1. batch' = queue /\ queue' = <<>> /\ told' = told /\ ran' = ran
        BY <1>3, Zenon DEF SwapQueue
    <3> QED
        BY <2>1, <3>1, EmptyList, Zenon DEF ClosuresInv
  <2> QED
      BY <2>2, <2>3, Zenon
<1>4. ASSUME NEW t \in Callers, RunClosure(t) PROVE ExitInv'
  <2> DEFINE c == Head(batch)
  <2>1. CleanupInv'
      BY <1>4, Zenon DEF RunClosure, CleanupInv
  <2>2. /\ batch # <<>> /\ batch' = Tail(batch) /\ queue' = queue /\ told' = told
        /\ ran' = [ran EXCEPT ![c] = ran[c] + 1]
      BY <1>4, Zenon DEF RunClosure
  <2>3. /\ c \in Closures /\ Holds(batch, c) /\ batch' \in Seq(Closures) /\ Distinct(batch') /\ ~Holds(batch', c)
        /\ \A y : Holds(batch, y) => y = c \/ Holds(batch', y)
        /\ \A y : Holds(batch', y) => Holds(batch, y)
      BY <2>2, TailList, Zenon DEF ClosuresInv
  <2> HIDE DEF c
  <2>4. ran[c] = 0 /\ told[c] = "accepted" /\ ~Holds(queue, c)
      BY <2>3, Zenon DEF ClosuresInv
  <2>5. ran' = [ran EXCEPT ![c] = 1]
      BY <2>2, <2>4
  <2>6. ClosuresInv'
      BY <2>2, <2>3, <2>4, <2>5 DEF ClosuresInv
  <2> QED
      BY <2>1, <2>6, Zenon
<1>5. ASSUME NEW t \in Callers, EndRound(t) PROVE ExitInv'
  <2>1. CleanupInv'
      BY <1>5, SomeIterations DEF EndRound, CleanupInv
  <2>2. ClosuresInv'
      BY <1>5, Zenon DEF EndRound, ClosuresInv
  <2> QED
      BY <2>1, <2>2, Zenon
<1> QED
    BY <1>1, <1>2, <1>3, <1>4, <1>5, Zenon DEF ExitNext, ExitStep

-----------------------------------------------------------------------------
(* The destructors ahead of a thread are those of the registered locals,     *)
(* once each, and only a registered local has a value.                       *)
Frames == {"init", "dtor"} \X Locals

ListTypes ==
    /\ slot \in [Threads -> Seq(Locals)] /\ running \in [Threads -> Seq(Locals)]
    /\ inner \in [Threads -> [Locals -> BOOLEAN]] /\ target \in [Threads -> Locals]
    /\ dtor_state \in [Threads -> [Locals -> {"Unregistered", "Registered", "RunningOrHasRun"}]]
    /\ stack \in [Threads -> Seq(Frames)]

ListInv(s, r, d, v) ==
    /\ Distinct(s) /\ Distinct(r)
    /\ \A l : ~(Holds(s, l) /\ Holds(r, l))
    /\ \A l \in Locals : d[l] = "Registered" <=> Holds(s, l) \/ Holds(r, l)
    /\ \A l \in Locals : v[l] => d[l] = "Registered"

(* A thread at p with stack k has no list to go through before its end but   *)
(* in a destructor, which is the first frame; an initialiser that runs has   *)
(* its local registered, and a local about to be registered is not.          *)
Ending == {"exit", "dtors", "ended"}
StackInv(p, k, s, r, d, l) ==
    /\ p \in Ending => k = <<>>
    /\ k = <<>> /\ p # "dtors" => r = <<>>
    /\ p = "ended" => s = <<>>
    /\ \A i \in 1 .. Len(k) : k[i][1] = "dtor" => i = 1
    /\ \A i \in 1 .. Len(k) : k[i][1] = "init" => d[k[i][2]] = "Registered"
    /\ k # <<>> /\ k[1][1] = "init" => r = <<>>
    /\ p \notin Ending \cup {"user"} => d[l] = "Unregistered"

ThreadInv(t) ==
    /\ ListInv(slot[t], running[t], dtor_state[t], inner[t])
    /\ StackInv(pc[t], stack[t], slot[t], running[t], dtor_state[t], target[t])

LocalInv == pc \in [Threads -> TlsPCs] /\ ListTypes /\ \A t \in Threads : ThreadInv(t)

(* A step changes nothing of another thread's.                               *)
LEMMA Elsewhere ==
    ASSUME LocalInv, NEW t \in Threads, NEW u \in Threads, u # t,
           slot'[u] = slot[u], running'[u] = running[u], dtor_state'[u] = dtor_state[u], inner'[u] = inner[u],
           pc'[u] = pc[u], stack'[u] = stack[u], target'[u] = target[u]
    PROVE  ThreadInv(u)'
<1>1. ThreadInv(u)
    BY Zenon DEF LocalInv
<1> QED
    BY <1>1, Zenon DEF ThreadInv

(* A stack with a frame more, and without its last frame.                    *)
LEMMA MoreFrames ==
    ASSUME NEW S, NEW k \in Seq(S), NEW f \in S
    PROVE  LET k2 == Append(k, f)
           IN  /\ Len(k) \in Nat /\ Len(k2) = Len(k) + 1 /\ k2[Len(k) + 1] = f /\ k2 # <<>> /\ k2 \in Seq(S)
               /\ \A i \in 1 .. Len(k) : k2[i] = k[i]
               /\ k = <<>> <=> Len(k) = 0
OBVIOUS

(* What popping the last frame leaves.                                       *)
LEMMA LastFrame ==
    ASSUME NEW S, NEW k \in Seq(S), k # <<>>
    PROVE  LET k2 == SubSeq(k, 1, Len(k) - 1)
           IN  /\ Len(k) \in Nat \ {0} /\ k[Len(k)] \in S /\ k2 \in Seq(S) /\ Len(k2) = Len(k) - 1
               /\ \A i \in 1 .. Len(k) - 1 : k2[i] = k[i]
               /\ k2 = <<>> <=> Len(k) = 1
<1>1. Len(k) \in Nat /\ Len(k) # 0 /\ k[Len(k)] \in S
    OBVIOUS
<1> DEFINE k2 == SubSeq(k, 1, Len(k) - 1)
<1>2. \A i \in 1 .. Len(k) - 1 : k[i] \in S
    BY <1>1
<1>3. k2 \in Seq(S) /\ Len(k2) = Len(k) - 1 /\ \A i \in 1 .. Len(k) - 1 : k2[i] = k[i]
  <2> DEFINE n == Len(k) - 1
  <2>1. 1 \in Int /\ n \in Int /\ \A i \in 1 .. n : k[i] \in S
      BY <1>1, <1>2
  <2> HIDE DEF n
  <2>2. /\ SubSeq(k, 1, n) \in Seq(S) /\ Len(SubSeq(k, 1, n)) = (IF 1 <= n THEN n - 1 + 1 ELSE 0)
        /\ \A i \in 1 .. n - 1 + 1 : SubSeq(k, 1, n)[i] = k[1 + i - 1]
      BY <2>1, SubSeqProperties
  <2>3. \A i \in 1 .. n : SubSeq(k, 1, n)[i] = k[i]
    <3> SUFFICES ASSUME NEW i \in 1 .. n PROVE SubSeq(k, 1, n)[i] = k[i]
        BY Zenon
    <3>1. i \in 1 .. n - 1 + 1 /\ 1 + i - 1 = i
        BY <2>1
    <3> QED
        BY <2>2, <3>1, Zenon
  <2>4. Len(SubSeq(k, 1, n)) = n
    <3>1. n \in Nat
        BY <1>1 DEF n
    <3> QED
        BY <2>2, <3>1
  <2> QED
      BY <2>2, <2>3, <2>4, Zenon DEF n
<1>4. k2 = <<>> <=> Len(k) = 1
  <2>1. \A q \in Seq(S) : q = <<>> <=> Len(q) = 0
      OBVIOUS
  <2> HIDE DEF k2
  <2> QED
      BY <1>1, <1>3, <2>1
<1> QED
    BY <1>1, <1>3, <1>4, Zenon

(* User code calls an initialiser.                                           *)
LEMMA InitEntered ==
    ASSUME NEW k \in Seq(Frames), NEW l \in Locals, NEW p, NEW s, NEW s2, NEW r, NEW d, NEW d2, NEW x, NEW y,
           StackInv(p, k, s, r, d, x), p \notin Ending, d2[l] = "Registered",
           \A m \in Locals : d[m] = "Registered" => d2[m] = "Registered"
    PROVE  /\ StackInv("user", Append(k, <<"init", l>>), s2, r, d2, y)
           /\ Append(k, <<"init", l>>) \in Seq(Frames)
<1> DEFINE f == <<"init", l>>
           k2 == Append(k, f)
<1>1. f \in Frames /\ f[1] = "init" /\ f[2] = l
    BY Zenon DEF Frames
<1> HIDE DEF f
<1>2. /\ Len(k) \in Nat /\ Len(k2) = Len(k) + 1 /\ k2[Len(k) + 1] = f /\ k2 # <<>> /\ k2 \in Seq(Frames)
      /\ \A i \in 1 .. Len(k) : k2[i] = k[i]
      /\ k = <<>> <=> Len(k) = 0
    BY <1>1, MoreFrames, Zenon
<1> HIDE DEF k2
<1>3. /\ \A i \in 1 .. Len(k) : k[i][1] = "dtor" => i = 1
      /\ \A i \in 1 .. Len(k) : k[i][1] = "init" => d[k[i][2]] = "Registered"
      /\ k # <<>> /\ k[1][1] = "init" => r = <<>>
      /\ k = <<>> => r = <<>>
    BY Zenon DEF StackInv, Ending
<1>4. \A i \in 1 .. Len(k2) : k2[i][1] = "dtor" => i = 1
    BY <1>1, <1>2, <1>3
<1>5. \A i \in 1 .. Len(k2) : k2[i][1] = "init" => d2[k2[i][2]] = "Registered"
  <2>1. \A i \in 1 .. Len(k) : k[i] \in Frames
      OBVIOUS
  <2>2. \A i \in 1 .. Len(k) : k[i][2] \in Locals
      BY <2>1, Zenon DEF Frames
  <2> QED
      BY <1>1, <1>2, <1>3, <2>2
<1>6. k2[1][1] = "init" => r = <<>>
    BY <1>2, <1>3
<1>7. StackInv("user", k2, s2, r, d2, y)
    BY <1>2, <1>4, <1>5, <1>6, Zenon DEF StackInv, Ending
<1> QED
    BY <1>2, <1>7, Zenon DEF k2, f

(* A step that only moves a thread.                                          *)
LEMMA Moves ==
    ASSUME LocalInv, NEW t \in Threads, NEW at \in TlsPCs, pc' = [pc EXCEPT ![t] = at], UNCHANGED localVars,
           StackInv(at, stack[t], slot[t], running[t], dtor_state[t], target[t])
    PROVE  LocalInv'
<1>1. ASSUME NEW u \in Threads, u # t PROVE ThreadInv(u)'
    BY <1>1, Elsewhere, Zenon DEF LocalInv, localVars
<1>2. pc'[t] = at
    BY Zenon DEF LocalInv
<1>3. ThreadInv(t)'
  <2>1. UNCHANGED <<stack, slot, running, dtor_state, inner, target>>
      BY Zenon DEF localVars
  <2>2. ListInv(slot[t], running[t], dtor_state[t], inner[t])
      BY Zenon DEF LocalInv, ThreadInv
  <2>3. /\ ListInv(slot'[t], running'[t], dtor_state'[t], inner'[t])
        /\ StackInv(pc'[t], stack'[t], slot'[t], running'[t], dtor_state'[t], target'[t])
      BY <1>2, <2>1, <2>2, Zenon
  <2> QED
      BY <2>3, Zenon DEF ThreadInv, ListInv, StackInv, Distinct, Holds
<1> QED
    BY <1>1, <1>3, Zenon DEF LocalInv, ListTypes, localVars

(* Every step of a thread keeps its lists right.                             *)
LEMMA LocalStep == LocalInv /\ TlsNext => LocalInv'
<1> SUFFICES ASSUME LocalInv, NEW t \in Threads,
                    \/ TlsStep(t) \/ InitEnds(t) \/ InitPanics(t) \/ DtorEnds(t) \/ ThreadEnds(t)
                    \/ \E l \in Locals : Access(t, l)
             PROVE  LocalInv'
    BY Zenon DEF TlsNext
<1> USE DEF Go, Ending
<1> DEFINE KeySteps == \/ LoadKey(t) \/ CreateFirst(t) \/ CreateAgain(t) \/ DestroyFirst(t) \/ Exchange(t) \/ DestroyMine(t)
                       \/ LockInit(t) \/ SyncCreate(t) \/ StoreKey(t)
<1>1. CASE KeySteps
  <2>1. /\ pc[t] \notin Ending \cup {"user"} /\ UNCHANGED localVars
        /\ \E at \in TlsPCs \ (Ending \cup {"user"}) : pc' = [pc EXCEPT ![t] = at]
      BY <1>1, Zenon DEF LoadKey, CreateFirst, CreateAgain, DestroyFirst, Exchange, DestroyMine, LockInit, SyncCreate,
                  StoreKey, TlsPCs, Owning, HasZero, Locking
  <2>2. PICK at \in TlsPCs \ (Ending \cup {"user"}) : pc' = [pc EXCEPT ![t] = at]
      BY <2>1, Zenon
  <2>3. StackInv(at, stack[t], slot[t], running[t], dtor_state[t], target[t])
      BY <2>1, Zenon DEF LocalInv, ThreadInv, StackInv
  <2> QED
      BY <2>1, <2>2, <2>3, Moves, Zenon
<1>2. CASE ThreadEnds(t)
  <2>1. StackInv("exit", stack[t], slot[t], running[t], dtor_state[t], target[t])
      BY <1>2, Zenon DEF ThreadEnds, LocalInv, ThreadInv, StackInv
  <2> QED
      BY <1>2, <2>1, Moves, Zenon DEF ThreadEnds, TlsPCs
<1> DEFINE s == slot[t]
           r == running[t]
           d == dtor_state[t]
           v == inner[t]
           k == stack[t]
<1>3. s \in Seq(Locals) /\ r \in Seq(Locals) /\ v \in [Locals -> BOOLEAN] /\ target[t] \in Locals
      /\ d \in [Locals -> {"Unregistered", "Registered", "RunningOrHasRun"}]
      /\ k \in Seq(Frames)
      /\ ListInv(s, r, d, v) /\ StackInv(pc[t], k, s, r, d, target[t])
    BY Zenon DEF LocalInv, ListTypes, ThreadInv
<1>4. ASSUME ListTypes', pc' \in [Threads -> TlsPCs],
             ListInv(slot'[t], running'[t], dtor_state'[t], inner'[t]),
             StackInv(pc'[t], stack'[t], slot'[t], running'[t], dtor_state'[t], target'[t]),
             \A u \in Threads \ {t} :
                 /\ slot'[u] = slot[u] /\ running'[u] = running[u] /\ dtor_state'[u] = dtor_state[u]
                 /\ inner'[u] = inner[u] /\ pc'[u] = pc[u] /\ stack'[u] = stack[u] /\ target'[u] = target[u]
      PROVE  LocalInv'
  <2>1. ThreadInv(t)'
      BY <1>4, Zenon DEF ThreadInv, ListInv, StackInv
  <2>2. ASSUME NEW u \in Threads, u # t PROVE ThreadInv(u)'
      BY <1>4, <2>2, Elsewhere, Zenon
  <2> QED
      BY <1>4, <2>1, <2>2, Zenon DEF LocalInv
<1>5. ASSUME NEW l \in Locals, Access(t, l) PROVE LocalInv'
  <2>1. CASE d[l] = "Unregistered"
    <3>1. /\ target' = [target EXCEPT ![t] = l] /\ pc' = [pc EXCEPT ![t] = "key"] /\ pc[t] = "user"
          /\ UNCHANGED <<stack, slot, running, inner, dtor_state>>
        BY <1>5, <2>1, Zenon DEF Access
    <3>2. StackInv("key", k, s, r, d, l)
        BY <1>3, <2>1, <3>1, Zenon DEF StackInv
    <3> QED
        BY <1>3, <1>4, <3>1, <3>2, Zenon DEF LocalInv, ListTypes, TlsPCs
  <2>2. CASE d[l] = "Registered"
    <3>1. /\ stack' = [stack EXCEPT ![t] = Append(k, <<"init", l>>)] /\ pc[t] = "user"
          /\ UNCHANGED <<target, pc, slot, running, inner, dtor_state>>
        BY <1>5, <2>2, Zenon DEF Access, Enter
    <3> DEFINE k2 == Append(k, <<"init", l>>)
    <3>2. StackInv("user", k2, s, r, d, target[t]) /\ k2 \in Seq(Frames)
      <4>1. StackInv("user", k, s, r, d, target[t]) /\ "user" \notin Ending /\ k \in Seq(Frames)
          BY <1>3, <3>1, Zenon
      <4>2. d[l] = "Registered" /\ \A m \in Locals : d[m] = "Registered" => d[m] = "Registered"
          BY <2>2, Zenon
      <4> DEFINE x == target[t]
      <4> HIDE DEF d, s, r, k, x, Ending
      <4>3. StackInv("user", k, s, r, d, x)
          BY <4>1, Zenon DEF x
      <4>4. StackInv("user", k2, s, r, d, x) /\ k2 \in Seq(Frames)
          BY <4>1, <4>2, <4>3, InitEntered, SMTT(20)
      <4> QED
          BY <4>4, Zenon DEF x
    <3> HIDE DEF k2
    <3>3. stack' = [stack EXCEPT ![t] = k2]
        BY <3>1, Zenon DEF k2
    <3> QED
        BY <1>3, <1>4, <3>1, <3>2, <3>3, Zenon DEF LocalInv, ListTypes
  <2> QED
      BY <1>5, <2>1, <2>2, Zenon DEF Access
<1>6. CASE Register(t)
  <2> DEFINE l == target[t]
             s2 == Append(s, l)
             d2 == [d EXCEPT ![l] = "Registered"]
             k2 == Append(k, <<"init", l>>)
  <2>1. /\ slot' = [slot EXCEPT ![t] = s2] /\ dtor_state' = [dtor_state EXCEPT ![t] = d2]
        /\ stack' = [stack EXCEPT ![t] = k2] /\ pc' = [pc EXCEPT ![t] = "user"] /\ pc[t] = "register"
        /\ UNCHANGED <<running, inner, target>>
      BY <1>6, Zenon DEF Register, Enter
  <2>2. l \in Locals /\ d[l] = "Unregistered" /\ ~Holds(s, l) /\ ~Holds(r, l)
      BY <1>3, <2>1, Zenon DEF StackInv, ListInv
  <2>3. Distinct(s2) /\ s2 \in Seq(Locals) /\ \A y : Holds(s2, y) <=> Holds(s, y) \/ y = l
    <3>1. s \in Seq(Locals) /\ Distinct(s)
        BY <1>3, Zenon DEF ListInv
    <3> HIDE DEF s, l
    <3> QED
        BY <2>2, <3>1, AppendList, Zenon
  <2>4. ListInv(s2, r, d2, v)
    <3> HIDE DEF s2, l
    <3> QED
        BY <1>3, <2>2, <2>3, Zenon DEF ListInv
  <2>5. d2[l] = "Registered" /\ (\A m \in Locals : d[m] = "Registered" => d2[m] = "Registered")
        /\ d2 \in [Locals -> {"Unregistered", "Registered", "RunningOrHasRun"}]
      BY <1>3, <2>2, Zenon
  <2>6. StackInv("user", k2, s2, r, d2, l) /\ k2 \in Seq(Frames)
    <3> HIDE DEF s2, d2
    <3>1. StackInv("register", k, s, r, d, l) /\ "register" \notin Ending /\ k \in Seq(Frames)
        BY <1>3, <2>1, Zenon
    <3>2. l \in Locals /\ d2[l] = "Registered" /\ \A m \in Locals : d[m] = "Registered" => d2[m] = "Registered"
        BY <2>2, <2>5, Zenon
    <3> HIDE DEF k, s, r, d, l, Ending
    <3> QED
        BY <3>1, <3>2, InitEntered, SMTT(20)
  <2> HIDE DEF s2, d2, k2
  <2> QED
      BY <1>3, <1>4, <2>1, <2>2, <2>3, <2>4, <2>5, <2>6 DEF LocalInv, ListTypes, TlsPCs
<1>7. CASE InitEnds(t) \/ InitPanics(t)
  <2> DEFINE n == Len(k)
             k2 == SubSeq(k, 1, n - 1)
             l == k[n][2]
             v2 == [v EXCEPT ![l] = TRUE]
  <2>1. /\ k # <<>> /\ k[n][1] = "init" /\ pc[t] = "user" /\ stack' = [stack EXCEPT ![t] = k2]
        /\ inner' = inner \/ inner' = [inner EXCEPT ![t] = v2]
        /\ UNCHANGED <<slot, running, dtor_state, target, pc>>
      BY <1>7, Zenon DEF InitEnds, InitPanics, In, Top, Return
  <2>2. /\ n \in Nat \ {0} /\ l \in Locals
        /\ k2 \in Seq(Frames) /\ Len(k2) = n - 1
        /\ \A i \in 1 .. n - 1 : k2[i] = k[i]
        /\ k2 = <<>> <=> n = 1
    <3>1. /\ n \in Nat \ {0} /\ k[n] \in Frames /\ k2 \in Seq(Frames) /\ Len(k2) = n - 1
          /\ \A i \in 1 .. n - 1 : k2[i] = k[i]
          /\ k2 = <<>> <=> n = 1
        BY <1>3, <2>1, LastFrame, Zenon
    <3>2. k[n] \in Frames => k[n][2] \in Locals
        BY Zenon DEF Frames
    <3> QED
        BY <3>1, <3>2, Zenon
  <2>3. d[l] = "Registered"
    <3>1. \A i \in 1 .. n : k[i][1] = "init" => d[k[i][2]] = "Registered"
        BY <1>3, Zenon DEF StackInv
    <3> HIDE DEF n
    <3>2. n \in 1 .. n
        BY <2>2
    <3> QED
        BY <2>1, <3>1, <3>2, Zenon
  <2>4. StackInv("user", k2, s, r, d, target[t])
    <3>1. k2 = <<>> => r = <<>>
        BY <1>3, <2>1, <2>2, Zenon DEF StackInv
    <3>2. k2 # <<>> => k2[1] = k[1]
        BY <2>2
    <3>3. /\ \A i \in 1 .. Len(k2) : k2[i][1] = "dtor" => i = 1
          /\ \A i \in 1 .. Len(k2) : k2[i][1] = "init" => d[k2[i][2]] = "Registered"
      <4>1. /\ \A i \in 1 .. n : k[i][1] = "dtor" => i = 1
            /\ \A i \in 1 .. n : k[i][1] = "init" => d[k[i][2]] = "Registered"
          BY <1>3, Zenon DEF StackInv
      <4>2. \A i \in 1 .. Len(k2) : i \in 1 .. n /\ i \in 1 .. n - 1
          BY <2>2
      <4> HIDE DEF k2, n
      <4> QED
          BY <2>2, <4>1, <4>2, Zenon
    <3> HIDE DEF k2, n
    <3> QED
        BY <1>3, <2>1, <3>1, <3>2, <3>3, Zenon DEF StackInv
  <2>5. ListInv(s, r, d, v) /\ ListInv(s, r, d, v2)
    <3> HIDE DEF l
    <3> QED
        BY <1>3, <2>2, <2>3, Zenon DEF ListInv
  <2>6. ListTypes' /\ inner'[t] \in {v, v2}
    <3>1. stack' \in [Threads -> Seq(Frames)]
        BY <2>1, <2>2, Zenon DEF LocalInv, ListTypes
    <3>2. v2 \in [Locals -> BOOLEAN]
        BY <1>3, Zenon
    <3> HIDE DEF v2, k2
    <3>3. inner' \in [Threads -> [Locals -> BOOLEAN]] /\ inner'[t] \in {v, v2}
      <4>1. inner \in [Threads -> [Locals -> BOOLEAN]] /\ inner[t] = v
          BY Zenon DEF LocalInv, ListTypes
      <4>2. inner' = inner \/ inner' = [inner EXCEPT ![t] = v2]
          BY <2>1, Zenon
      <4> QED
          BY <3>2, <4>1, <4>2, Zenon
    <3> QED
        BY <2>1, <3>1, <3>3, Zenon DEF LocalInv, ListTypes
  <2>7. \A u \in Threads \ {t} : inner'[u] = inner[u] /\ stack'[u] = stack[u]
      BY <2>1, Zenon DEF LocalInv, ListTypes
  <2>8. stack'[t] = k2
      BY <2>1, Zenon DEF LocalInv, ListTypes
  <2> HIDE DEF k2, v2
  <2> QED
      BY <1>4, <2>1, <2>4, <2>5, <2>6, <2>7, <2>8, Zenon DEF LocalInv
<1>8. CASE OsExit(t)
  <2>1. pc[t] = "exit" /\ k = <<>> /\ r = <<>> /\ UNCHANGED <<inner, dtor_state, stack, target>>
      BY <1>3, <1>8, Zenon DEF OsExit, StackInv
  <2>2. CASE s = <<>>
    <3>1. StackInv("ended", k, s, r, d, target[t])
        BY <1>3, <2>1, <2>2, Zenon DEF StackInv
    <3> QED
        BY <1>3, <1>4, <1>8, <2>1, <2>2, <3>1, Zenon DEF OsExit, LocalInv, ListTypes, TlsPCs
  <2>3. CASE s # <<>>
    <3>1. running' = [running EXCEPT ![t] = s] /\ slot' = [slot EXCEPT ![t] = <<>>] /\ pc' = [pc EXCEPT ![t] = "dtors"]
        BY <1>8, <2>3, Zenon DEF OsExit
    <3>2. ListInv(<<>>, s, d, v)
        BY <1>3, <2>1, EmptyList, Zenon DEF ListInv
    <3>3. StackInv("dtors", k, <<>>, s, d, target[t])
        BY <1>3, <2>1, Zenon DEF StackInv
    <3> QED
        BY <1>3, <1>4, <2>1, <3>1, <3>2, <3>3, Zenon DEF LocalInv, ListTypes, TlsPCs
  <2> QED
      BY <2>2, <2>3, Zenon
<1>9. CASE NextList(t)
  <2>1. pc[t] = "dtors" /\ r = <<>> /\ k = <<>> /\ UNCHANGED <<inner, dtor_state, stack, target>>
        /\ slot' = [slot EXCEPT ![t] = <<>>]
      BY <1>3, <1>9, Zenon DEF NextList, StackInv
  <2>2. CASE s = <<>>
    <3>1. pc' = [pc EXCEPT ![t] = "exit"] /\ running' = running
        BY <1>9, <2>2, Zenon DEF NextList, Reload
    <3>2. StackInv("exit", k, <<>>, r, d, target[t]) /\ ListInv(<<>>, r, d, v)
        BY <1>3, <2>1, <2>2, Zenon DEF StackInv
    <3> QED
        BY <1>3, <1>4, <2>1, <3>1, <3>2, Zenon DEF LocalInv, ListTypes, TlsPCs
  <2>3. CASE s # <<>>
    <3>1. running' = [running EXCEPT ![t] = s] /\ pc' = pc
        BY <1>9, <2>3, Zenon DEF NextList, Reload
    <3>2. ListInv(<<>>, s, d, v)
        BY <1>3, <2>1, EmptyList, Zenon DEF ListInv
    <3>3. StackInv("dtors", k, <<>>, s, d, target[t])
        BY <1>3, <2>1, Zenon DEF StackInv
    <3> QED
        BY <1>3, <1>4, <2>1, <3>1, <3>2, <3>3, Zenon DEF LocalInv, ListTypes
  <2> QED
      BY <2>2, <2>3, Zenon
<1>10. CASE DestroyValue(t)
  <2> DEFINE l == Head(r)
             r2 == Tail(r)
             v2 == [v EXCEPT ![l] = FALSE]
             d2 == [d EXCEPT ![l] = "RunningOrHasRun"]
             k2 == Append(k, <<"dtor", l>>)
  <2>1. /\ pc[t] = "dtors" /\ r # <<>> /\ running' = [running EXCEPT ![t] = r2]
        /\ inner' = [inner EXCEPT ![t] = v2] /\ dtor_state' = [dtor_state EXCEPT ![t] = d2]
        /\ \/ stack' = stack /\ pc' = pc
           \/ stack' = [stack EXCEPT ![t] = k2] /\ pc' = [pc EXCEPT ![t] = "user"]
        /\ UNCHANGED <<slot, target>>
      BY <1>10, Zenon DEF DestroyValue, Taken, AfterDrop, Enter
  <2>2. k = <<>>
      BY <1>3, <2>1, Zenon DEF StackInv
  <2>3. /\ l \in Locals /\ Holds(r, l) /\ r2 \in Seq(Locals) /\ Distinct(r2) /\ ~Holds(r2, l)
        /\ \A y : Holds(r, y) => y = l \/ Holds(r2, y)
        /\ \A y : Holds(r2, y) => Holds(r, y)
      BY <1>3, <2>1, TailList DEF ListInv
  <2>4. v2 \in [Locals -> BOOLEAN] /\ d2 \in [Locals -> {"Unregistered", "Registered", "RunningOrHasRun"}]
      BY <1>3, Zenon
  <2>5. ListInv(s, r2, d2, v2)
    <3> HIDE DEF l, r2
    <3> QED
        BY <1>3, <2>3, Zenon DEF ListInv
  <2>6. StackInv("dtors", k, s, r2, d2, target[t])
      BY <1>3, <2>2 DEF StackInv
  <2>7. StackInv("user", k2, s, r2, d2, target[t])
      BY <1>3, <2>2, <2>3 DEF StackInv
  <2>8. k2 \in Seq(Frames)
    <3>1. <<"dtor", l>> \in Frames
        BY <2>3, Zenon DEF Frames
    <3> QED
        BY <1>3, <3>1, AppendProperties, Zenon
  <2> HIDE DEF l, r2, v2, d2, k2
  <2>9. CASE stack' = stack /\ pc' = pc
      BY <1>4, <2>1, <2>3, <2>4, <2>5, <2>6, <2>9, Zenon DEF LocalInv, ListTypes
  <2>10. CASE stack' = [stack EXCEPT ![t] = k2] /\ pc' = [pc EXCEPT ![t] = "user"]
      BY <1>4, <2>1, <2>3, <2>4, <2>5, <2>7, <2>8, <2>10, Zenon DEF LocalInv, ListTypes, TlsPCs
  <2> QED
      BY <2>1, <2>9, <2>10, Zenon
<1>11. CASE DtorEnds(t)
  <2>1. /\ k # <<>> /\ k[Len(k)][1] = "dtor" /\ stack' = [stack EXCEPT ![t] = SubSeq(k, 1, Len(k) - 1)]
        /\ pc' = [pc EXCEPT ![t] = "dtors"] /\ UNCHANGED <<slot, running, inner, dtor_state, target>>
      BY <1>11, Zenon DEF DtorEnds, In, Top, Return
  <2>2. Len(k) \in Nat \ {0} /\ (SubSeq(k, 1, Len(k) - 1) = <<>> <=> Len(k) = 1)
      BY <1>3, <2>1, LastFrame, Zenon
  <2>3. SubSeq(k, 1, Len(k) - 1) = <<>>
      BY <1>3, <2>1, <2>2 DEF StackInv
  <2>4. stack' = [stack EXCEPT ![t] = <<>>]
      BY <2>1, <2>3, Zenon
  <2>5. StackInv("dtors", <<>>, s, r, d, target[t])
      BY DEF StackInv
  <2> QED
    <3>1. stack' \in [Threads -> Seq(Frames)] /\ stack'[t] = <<>>
          /\ \A u \in Threads \ {t} : stack'[u] = stack[u]
        BY <2>4 DEF LocalInv, ListTypes
    <3>2. ListTypes' /\ pc' \in [Threads -> TlsPCs] /\ pc'[t] = "dtors"
        BY <2>1, <3>1, Zenon DEF LocalInv, ListTypes, TlsPCs
    <3> QED
        BY <1>3, <1>4, <2>1, <2>5, <3>1, <3>2, Zenon DEF LocalInv
<1> QED
    BY <1>1, <1>2, <1>5, <1>6, <1>7, <1>8, <1>9, <1>10, <1>11, Zenon DEF TlsStep

-----------------------------------------------------------------------------
IInv == KeyInv /\ LocalInv /\ ExitInv

(* The inductive invariant holds throughout.                                 *)
THEOREM InductiveInvariant == Spec => []IInv
<1>1. Init => IInv
  <2> SUFFICES ASSUME Init PROVE IInv
      BY Zenon
  <2> USE DEF Init, TlsInit, ExitInit
  <2>1. KeyInv
      BY ZeroIsAKey, Zenon DEF KeyInv, KeyTypes, OwnKeys, UsedKeys, ZeroKey, Synchronization, KeyFirst,
                        Owning, HasZero, Locking, TlsPCs
  <2>2. LocalInv
    <3>1. ListTypes /\ pc \in [Threads -> TlsPCs]
        BY SomeLocals DEF ListTypes, TlsPCs
    <3>2. ASSUME NEW t \in Threads PROVE ThreadInv(t)
      <4>1. ListInv(slot[t], running[t], dtor_state[t], inner[t])
          BY EmptyList, Zenon DEF ListInv
      <4>2. StackInv(pc[t], stack[t], slot[t], running[t], dtor_state[t], target[t])
          BY DEF StackInv, Ending
      <4> QED
          BY <4>1, <4>2, Zenon DEF ThreadInv
    <3> QED
        BY <3>1, <3>2, Zenon DEF LocalInv
  <2>3. ExitInv
    <3>1. CleanupInv
        BY Zenon DEF CleanupInv
    <3>2. ClosuresInv
        BY EmptyList DEF ClosuresInv
    <3> QED
        BY <3>1, <3>2, Zenon DEF ExitInv
  <2> QED
      BY <2>1, <2>2, <2>3, Zenon DEF IInv
<1>2. IInv /\ [Next]_vars => IInv'
  <2> SUFFICES ASSUME IInv, [Next]_vars PROVE IInv'
      BY Zenon
  <2>1. UNCHANGED tlsVars => KeyInv' /\ LocalInv'
    <3> SUFFICES ASSUME UNCHANGED tlsVars PROVE KeyInv' /\ LocalInv'
        BY Zenon
    <3> USE DEF tlsVars, keyVars, localVars
    <3>1. KeyInv'
        BY Zenon DEF IInv, KeyInv, KeyTypes, OwnKeys, UsedKeys, ZeroKey, Synchronization, KeyFirst
    <3>2. ListTypes' /\ pc' = pc /\ \A t \in Threads : ThreadInv(t)'
        BY Zenon DEF IInv, LocalInv, ListTypes, ThreadInv
    <3> QED
        BY <3>1, <3>2, Zenon DEF IInv, LocalInv
  <2>2. UNCHANGED exitVars => ExitInv'
      BY DEF IInv, ExitInv, exitVars, CleanupInv, ClosuresInv
  <2>3. CASE OfThread(TlsNext)
      BY <2>2, <2>3, KeyStep, LocalStep, Zenon DEF OfThread, IInv
  <2>4. CASE OfProcess(ExitNext)
      BY <2>1, <2>4, CleanupStep, Zenon DEF OfProcess, IInv
  <2>5. CASE UNCHANGED vars
      BY <2>1, <2>2, <2>5, Zenon DEF vars, IInv
  <2> QED
      BY <2>3, <2>4, <2>5, Zenon DEF Next
<1> QED
    BY <1>1, <1>2, PTL DEF Spec

(* StaticKey: however many threads race for the key and whichever keys the   *)
(* system hands out, they end with one key, not 0, and leak none.            *)
THEOREM KeyAgreed == Spec => []OneKey
<1>1. IInv => OneKey
  <2> SUFFICES ASSUME KeyInv PROVE OneKey
      BY Zenon DEF IInv
  <2> USE DEF KeyInv, KeyTypes
  <2>1. key # 0 => key \in live
      BY Zenon DEF UsedKeys
  <2>2. \A t \in Threads : pc[t] \in {"register", "dtors"} \/ slot[t] # <<>> => key # 0
      BY Zenon DEF KeyFirst
  <2>3. live \ {key, 0} = {mine[t] : t \in Threads} \ {0}
      BY DEF OwnKeys, UsedKeys
  <2>4. 0 \in live <=> \E t \in Threads : pc[t] \in {"again", "destroy"}
      BY Zenon DEF ZeroKey, HasZero
  <2>5. \A t, u \in Threads : mine[t] # 0 => mine[t] # key /\ (mine[u] = mine[t] => t = u)
      BY Zenon DEF OwnKeys
  <2> QED
      BY <2>1, <2>2, <2>3, <2>4, <2>5, Zenon DEF OneKey
<1> QED
    BY <1>1, InductiveInvariant, PTL

(* run_dtors: each value's destructor is ahead exactly once and runs before  *)
(* the thread has ended, whatever destructors initialise meanwhile.          *)
THEOREM DestroyedExactlyOnce == Spec => []DestroyedOnce
<1>1. IInv => DestroyedOnce
  <2> SUFFICES ASSUME LocalInv, NEW t \in Threads, NEW l \in Locals
               PROVE  /\ Ahead(t, l) = IF dtor_state[t][l] = "Registered" THEN 1 ELSE 0
                      /\ inner[t][l] => dtor_state[t][l] = "Registered"
                      /\ pc[t] = "ended" => ~inner[t][l] /\ Ahead(t, l) = 0
      BY Zenon DEF IInv, DestroyedOnce
  <2>1. /\ slot[t] \in Seq(Locals) /\ running[t] \in Seq(Locals)
        /\ ListInv(slot[t], running[t], dtor_state[t], inner[t])
        /\ StackInv(pc[t], stack[t], slot[t], running[t], dtor_state[t], target[t])
      BY Zenon DEF LocalInv, ListTypes, ThreadInv
  <2>2. /\ Cardinality({i \in 1 .. Len(slot[t]) : slot[t][i] = l}) = (IF Holds(slot[t], l) THEN 1 ELSE 0)
        /\ Cardinality({i \in 1 .. Len(running[t]) : running[t][i] = l}) = (IF Holds(running[t], l) THEN 1 ELSE 0)
      BY <2>1, CountList DEF ListInv
  <2>3. Ahead(t, l) = (IF Holds(slot[t], l) THEN 1 ELSE 0) + (IF Holds(running[t], l) THEN 1 ELSE 0)
      BY <2>2, Zenon DEF Ahead
  <2>4. /\ ~(Holds(slot[t], l) /\ Holds(running[t], l))
        /\ dtor_state[t][l] = "Registered" <=> Holds(slot[t], l) \/ Holds(running[t], l)
        /\ inner[t][l] => dtor_state[t][l] = "Registered"
      BY <2>1, Zenon DEF ListInv
  <2>5. pc[t] = "ended" => slot[t] = <<>> /\ running[t] = <<>>
      BY <2>1, Zenon DEF StackInv, Ending
  <2>6. pc[t] = "ended" => ~Holds(slot[t], l) /\ ~Holds(running[t], l)
      BY <2>5, EmptyList, Zenon
  <2> QED
      BY <2>3, <2>4, <2>6
<1> QED
    BY <1>1, InductiveInvariant, PTL

(* at_exit: an accepted closure runs exactly once before the process ends,   *)
(* whoever ends it and whatever closures register closures.                  *)
THEOREM AcceptedRunOnce == Spec => []AcceptedRun
<1>1. IInv => AcceptedRun
  <2> SUFFICES ASSUME ExitInv PROVE AcceptedRun
      BY Zenon DEF IInv
  <2> DEFINE both == queue \o batch
  <2>1. /\ Distinct(both) /\ both \in Seq(Closures)
        /\ \A c : Holds(both, c) <=> Holds(queue, c) \/ Holds(batch, c)
      BY ConcatList, Zenon DEF ExitInv, ClosuresInv
  <2>2. exited => both = <<>>
    <3>1. exited => queue = <<>> /\ batch = <<>>
        BY Zenon DEF ExitInv, CleanupInv
    <3> QED
        BY <3>1
  <2> HIDE DEF both
  <2>3. ASSUME NEW c \in Closures
        PROVE  ran[c] + Cardinality({i \in 1 .. Len(both) : both[i] = c}) = IF told[c] = "accepted" THEN 1 ELSE 0
    <3>1. Cardinality({i \in 1 .. Len(both) : both[i] = c}) = (IF Holds(both, c) THEN 1 ELSE 0)
        BY <2>1, CountList, Zenon
    <3>2. /\ ran[c] \in {0, 1} /\ (ran[c] = 1 => told[c] = "accepted")
          /\ Holds(both, c) <=> told[c] = "accepted" /\ ran[c] = 0
        BY <2>1, Zenon DEF ExitInv, ClosuresInv
    <3> QED
        BY <3>1, <3>2
  <2>4. \A t \in Callers : cpc[t] # "panicked"
      BY Zenon DEF ExitInv, CleanupInv
  <2> QED
      BY <2>2, <2>3, <2>4, Zenon DEF AcceptedRun, both
<1> QED
    BY <1>1, InductiveInvariant, PTL
=============================================================================
