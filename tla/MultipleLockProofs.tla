------------------------- MODULE MultipleLockProofs -------------------------
(***************************************************************************)
(* The proof that MultipleLock implements KeyLock until two calls race,    *)
(* for any number of goroutines, keys, refCounters and mutexes.            *)
(*                                                                         *)
(* As long as no call has met the removal of its key, a caller that is     *)
(* past its lookup has the refCounter its key maps to (Where); keys that   *)
(* are in use have different mutexes (Distinct), none of which is in the   *)
(* pool or in the hands of a caller of getLocker (Spares); and the state   *)
(* of a key's mutex tells who is inside (HeldRight).  A key whose mutex    *)
(* is back in the pool and that is not deleted yet is no longer in use     *)
(* here: its mutex may serve another key already.                          *)
(*                                                                         *)
(* The types hold after a race as well, by an account of what each         *)
(* goroutine has added to the counters and the mutexes (Bounded).          *)
(***************************************************************************)
EXTENDS MultipleLock, FiniteSetTheorems, TLAPS

PCs == {"idle", "get", "store", "add", "lock", "critical",
        "unget", "unstore", "unlock", "sub", "test", "put", "delete"}
Past == PCs \ {"idle", "get", "store"}
WithRef == {"add", "lock", "unlock", "sub", "test", "put", "delete"}
In == {"critical", "unget", "unstore", "unlock"}

Types ==
    /\ inUse \in [Keys -> Refs \cup {None}]
    /\ pool \in [Mutexes -> {0, 1}]
    /\ mutex \in [Refs -> Mutexes \cup {None}]
    /\ held \in [Mutexes -> Int]
    /\ pc \in [Procs -> PCs]
    /\ key \in [Procs -> Keys \cup {None}]
    /\ mode \in [Procs -> {"w", "r"}]
    /\ got \in [Procs -> Mutexes \cup {None}]
    /\ ref \in [Procs -> Refs \cup {None}]
    /\ fatal = FALSE

Where == \A p \in Procs :
    /\ pc[p] # "idle" => key[p] \in Keys
    /\ pc[p] \in Past => inUse[key[p]] \in Refs
    /\ pc[p] \in WithRef => ref[p] = inUse[key[p]]
    /\ pc[p] \in {"store", "unstore"} => got[p] \in Mutexes

Busy(k) == inUse[k] # None /\ \A p \in Procs : ~(pc[p] = "delete" /\ key[p] = k)

Distinct ==
    /\ \A k, l \in Keys : inUse[k] = inUse[l] /\ inUse[k] # None => k = l
    /\ \A k \in Keys : inUse[k] # None => mutex[inUse[k]] \in Mutexes
    /\ \A k, l \in Keys : Busy(k) /\ Busy(l) /\ mutex[inUse[k]] = mutex[inUse[l]] => k = l

Spare(m) == pool[m] = 1 \/ \E p \in Procs : got[p] = m

Spares ==
    /\ \A m \in Mutexes : Spare(m) => held[m] = 0
    /\ \A m \in Mutexes, k \in Keys : Spare(m) /\ Busy(k) => mutex[inUse[k]] # m
    /\ \A p \in Procs : got[p] \in Mutexes => pool[got[p]] = 0
    /\ \A p, q \in Procs : got[p] = got[q] /\ got[p] \in Mutexes => p = q

Inside(k) == {p \in Procs : key[p] = k /\ pc[p] \in In}
Writing(k) == \E p \in Inside(k) : mode[p] = "w"

HeldRight == \A k \in Keys : Busy(k) =>
    /\ Writing(k) => held[mutex[inUse[k]]] = -1 /\ \A p, q \in Inside(k) : p = q
    /\ ~Writing(k) => held[mutex[inUse[k]]] = Cardinality(Inside(k))

Sound == Types /\ Where /\ Distinct /\ Spares /\ HeldRight /\ ~Races

-----------------------------------------------------------------------------
LEMMA InitSound == Init => Sound
<1> SUFFICES ASSUME Init PROVE Sound
  BY Zenon
<1>1. Types
  BY DEF Init, Types, PCs
<1>2. Where /\ ~Races
  BY Zenon DEF Init, Where, Races, Past, WithRef
<1>3. Distinct /\ HeldRight
  BY Zenon DEF Init, Distinct, HeldRight, Busy
<1>4. Spares
  BY LockAssumption, Zenon DEF Init, Spares, Spare, Busy
<1> QED BY <1>1, <1>2, <1>3, <1>4, Zenon DEF Sound

\* A goroutine past its lookup whose key is being given up is alone on it.
LEMMA Alone ==
    ASSUME Sound, NEW p \in Procs, pc[p] \in Past
    PROVE  /\ key[p] \in Keys /\ inUse[key[p]] \in Refs /\ inUse[key[p]] # None
           /\ pc[p] # "delete" => Busy(key[p])
           /\ pc[p] \in {"put", "delete"} => Inside(key[p]) = {}
<1>1. key[p] \in Keys /\ inUse[key[p]] \in Refs /\ inUse[key[p]] # None
  BY LockAssumption, Zenon DEF Sound, Where, Past
<1>2. ASSUME pc[p] # "delete" PROVE Busy(key[p])
  BY <1>1, <1>2, Zenon DEF Sound, Races, Busy, Past
<1>3. ASSUME pc[p] \in {"put", "delete"} PROVE Inside(key[p]) = {}
  BY <1>3, Zenon DEF Sound, Races, Inside, In
<1> QED BY <1>1, <1>2, <1>3, Zenon

LEMMA InsideFinite == \A k : IsFiniteSet(Inside(k)) /\ Cardinality(Inside(k)) \in Nat
<1> TAKE k
<1>1. Inside(k) \subseteq Procs /\ IsFiniteSet(Procs)
  BY LockAssumption, Zenon DEF Inside
<1>2. IsFiniteSet(Inside(k))
  BY <1>1, FS_Subset, Zenon
<1> QED BY <1>2, FS_CardinalityType, Zenon

\* What a step leaves alone of the goroutines other than p.
Others(p) ==
    /\ pc' \in [Procs -> PCs] /\ key' \in [Procs -> Keys \cup {None}]
    /\ mode' \in [Procs -> {"w", "r"}] /\ ref' \in [Procs -> Refs \cup {None}]
    /\ got' \in [Procs -> Mutexes \cup {None}]
    /\ \A q \in Procs \ {p} : /\ pc'[q] = pc[q] /\ key'[q] = key[q] /\ mode'[q] = mode[q]
                              /\ ref'[q] = ref[q] /\ got'[q] = got[q]

\* Where, for one goroutine.
WhereOne(p) ==
    /\ pc[p] # "idle" => key[p] \in Keys
    /\ pc[p] \in Past => inUse[key[p]] \in Refs
    /\ pc[p] \in WithRef => ref[p] = inUse[key[p]]
    /\ pc[p] \in {"store", "unstore"} => got[p] \in Mutexes

LEMMA WhereStep ==
    ASSUME Where, NEW p \in Procs, Others(p), WhereOne(p)', inUse' = inUse
    PROVE  Where'
BY DEF Where, WhereOne, Others

\* A goroutine moves on without touching the mutexes or the map.
LEMMA Strolls ==
    ASSUME Sound, NEW p \in Procs, Others(p), WhereOne(p)', ~Races',
           UNCHANGED <<inUse, pool, mutex, held, got, fatal>>,
           pc[p] # "delete", pc'[p] # "delete", pc[p] \in In <=> pc'[p] \in In,
           pc[p] \in In => key'[p] = key[p] /\ mode'[p] = mode[p]
    PROVE  Sound'
<1>1. Types' /\ Where'
  BY WhereStep, Zenon DEF Sound, Types, Others
<1>2. \A k \in Keys : Busy(k)' <=> Busy(k)
  BY Zenon DEF Busy, Others
<1>3. Distinct' /\ Spares'
  BY <1>2, ZenonT(60) DEF Sound, Distinct, Spares, Spare
<1>4. HeldRight'
  <2>1. \A k \in Keys : Inside(k)' = Inside(k)
    BY ZenonT(60) DEF Inside, Others
  <2>2. \A k \in Keys : Writing(k)' <=> Writing(k)
    <3>1. \A k \in Keys : \A q \in Inside(k) : mode'[q] = mode[q]
      BY Zenon DEF Inside, Others
    <3> QED BY <2>1, <3>1, Zenon DEF Writing
  <2> SUFFICES ASSUME NEW k \in Keys, Busy(k)'
               PROVE  /\ Writing(k)' => held[mutex[inUse[k]]] = -1 /\ \A q, r \in Inside(k)' : q = r
                      /\ ~Writing(k)' => held[mutex[inUse[k]]] = Cardinality(Inside(k)')
    BY Zenon DEF HeldRight
  <2> QED BY <1>2, <2>1, <2>2, Zenon DEF Sound, HeldRight
<1> QED BY <1>1, <1>3, <1>4, Zenon DEF Sound

LEMMA StrollSteps ==
    ASSUME Sound, ~Races', NEW p \in Procs,
           Call(p) \/ Increment(p) \/ Leave(p) \/ Decrement(p) \/ Test(p)
    PROVE  Sound'
<1>0. Types /\ WhereOne(p)
  BY Zenon DEF Sound, Where, WhereOne
<1>1. CASE Call(p)
  <2>0. PICK k \in KeysOf[p], w \in Modes :
            key' = [key EXCEPT ![p] = k] /\ mode' = [mode EXCEPT ![p] = w]
    BY Zenon, <1>1 DEF Call
  <2>5. k \in Keys /\ w \in {"w", "r"}
    BY LockAssumption, Zenon
  <2>1. Others(p) /\ pc'[p] = "get" /\ key'[p] \in Keys /\ pc[p] = "idle"
    BY <1>0, <1>1, <2>0, <2>5, Zenon DEF Call, At, Goto, Types, PCs, Others
  <2>2. WhereOne(p)'
    BY <2>1, Zenon DEF WhereOne, Past, WithRef
  <2> QED BY <1>1, <2>1, <2>2, Strolls, Zenon DEF Call, In
<1>2. CASE Increment(p)
  <2>1. Others(p) /\ pc'[p] = "lock" /\ pc[p] = "add"
    BY <1>0, <1>2, Zenon DEF Increment, At, Goto, Types, PCs, Others
  <2>2. WhereOne(p)'
    BY <1>0, <1>2, <2>1, Zenon DEF WhereOne, Past, WithRef, PCs, Increment
  <2> QED BY <1>2, <2>1, <2>2, Strolls, Zenon DEF Increment, In
<1>3. CASE Leave(p)
  <2>1. Others(p) /\ pc'[p] = "unget" /\ pc[p] = "critical"
    BY <1>0, <1>3, Zenon DEF Leave, At, Goto, Types, PCs, Others
  <2>2. WhereOne(p)'
    BY <1>0, <1>3, <2>1, Zenon DEF WhereOne, Past, WithRef, PCs, Leave
  <2> QED BY <1>3, <2>1, <2>2, Strolls, Zenon DEF Leave, In
<1>4. CASE Decrement(p)
  <2>1. Others(p) /\ pc'[p] = "test" /\ pc[p] = "sub"
    BY <1>0, <1>4, Zenon DEF Decrement, At, Goto, Types, PCs, Others
  <2>2. WhereOne(p)'
    BY <1>0, <1>4, <2>1, Zenon DEF WhereOne, Past, WithRef, PCs, Decrement
  <2> QED BY <1>4, <2>1, <2>2, Strolls, Zenon DEF Decrement, In
<1>5. CASE Test(p)
  <2>1. Others(p) /\ pc'[p] \in {"put", "idle"} /\ pc[p] = "test"
    BY <1>0, <1>5, ZenonT(60) DEF Test, At, Goto, Types, PCs, Others
  <2>2. WhereOne(p)'
    BY <1>0, <1>5, <2>1, Zenon DEF WhereOne, Past, WithRef, PCs, Test, Goto, Types
  <2> QED BY <1>5, <2>1, <2>2, Strolls, Zenon DEF Test, In
<1> QED BY <1>1, <1>2, <1>3, <1>4, <1>5, Zenon

\* A goroutine gets a spare mutex, from the pool or new.
LEMMA PoolGetStep ==
    ASSUME Sound, ~Races', NEW p \in Procs, PoolGet(p)
    PROVE  Sound'
<1>0. Types /\ WhereOne(p) /\ Distinct /\ Spares
  BY Zenon DEF Sound, Where, WhereOne
<1>1. PICK m \in Mutexes :
          /\ got' = [got EXCEPT ![p] = m]
          /\ \/ pool[m] > 0 /\ pool' = [pool EXCEPT ![m] = @ - 1] /\ held' = held
             \/ m \notin LiveMutexes /\ pool' = pool /\ held' = [held EXCEPT ![m] = 0]
  BY Zenon DEF PoolGet
<1>2. Others(p) /\ pc[p] \in {"get", "unget"} /\ pc'[p] = (IF pc[p] = "get" THEN "store" ELSE "unstore")
      /\ got'[p] = m
  BY <1>0, <1>1, ZenonT(60) DEF PoolGet, At, Goto, Types, PCs, Others
<1>3. UNCHANGED <<inUse, mutex, key, mode, ref, fatal>>
  BY Zenon DEF PoolGet
<1>4. WhereOne(p)'
  BY <1>0, <1>2, <1>3, Zenon DEF WhereOne, Past, WithRef, PCs
<1>5. \A k \in Keys : Busy(k)' <=> Busy(k)
  BY <1>2, <1>3, Zenon DEF Busy, Others
<1>6. \A k \in Keys : Busy(k) => mutex[inUse[k]] # m
  <2>1. CASE pool[m] > 0
    BY <1>0, <2>1 DEF Spares, Spare, Types
  <2>2. CASE m \notin LiveMutexes
    BY <1>0, <2>2 DEF LiveMutexes, LiveRefs, Busy, Types
  <2> QED BY <1>1, <2>1, <2>2, Zenon
<1>7. pool' \in [Mutexes -> {0, 1}] /\ held' \in [Mutexes -> Int]
      /\ pool'[m] = 0 /\ held'[m] = 0 /\ \A q \in Procs : got[q] # m
  <2>1. CASE pool[m] > 0 /\ pool' = [pool EXCEPT ![m] = @ - 1] /\ held' = held
    BY <1>0, <2>1 DEF Spares, Spare, Types
  <2>2. CASE m \notin LiveMutexes /\ pool' = pool /\ held' = [held EXCEPT ![m] = 0]
    BY <1>0, <2>2 DEF LiveMutexes, Types
  <2> QED BY <1>1, <2>1, <2>2, Zenon
<1>8. \A n \in Mutexes \ {m} : pool'[n] = pool[n] /\ held'[n] = held[n] /\ (Spare(n)' => Spare(n))
  BY <1>0, <1>1, <1>2, ZenonT(60) DEF Types, Spare, Others
<1>9. Types' /\ Where'
  BY <1>0, <1>2, <1>3, <1>4, <1>7, WhereStep, Zenon DEF Sound, Types, Others
<1>10. Distinct'
  BY <1>0, <1>3, <1>5, Zenon DEF Distinct
<1>11. Spares'
  <2>1. \A n \in Mutexes : Spare(n)' => held'[n] = 0
    BY <1>0, <1>7, <1>8, Zenon DEF Spares
  <2>2. \A n \in Mutexes, k \in Keys : Spare(n)' /\ Busy(k)' => mutex'[inUse'[k]] # n
    BY <1>0, <1>3, <1>5, <1>6, <1>8, Zenon DEF Spares
  <2>3. \A q \in Procs : got'[q] \in Mutexes => pool'[got'[q]] = 0
    BY <1>0, <1>2, <1>7, <1>8 DEF Spares, Others
  <2>4. \A q, r \in Procs : got'[q] = got'[r] /\ got'[q] \in Mutexes => q = r
    BY <1>0, <1>2, <1>7 DEF Spares, Others
  <2> QED BY <2>1, <2>2, <2>3, <2>4, Zenon DEF Spares
<1>12. HeldRight'
  <2> SUFFICES ASSUME NEW k \in Keys, Busy(k)'
               PROVE  /\ Writing(k)' => held'[mutex[inUse[k]]] = -1 /\ \A q, r \in Inside(k)' : q = r
                      /\ ~Writing(k)' => held'[mutex[inUse[k]]] = Cardinality(Inside(k)')
    BY <1>3, Zenon DEF HeldRight
  <2>1. Inside(k)' = Inside(k)
    BY <1>2, <1>3, Zenon DEF Inside, In, Others
  <2>2. Writing(k)' <=> Writing(k)
    BY <1>3, <2>1, Zenon DEF Writing
  <2>3. held'[mutex[inUse[k]]] = held[mutex[inUse[k]]]
    BY <1>0, <1>5, <1>6, <1>8, Zenon DEF Distinct, Busy
  <2> QED BY <1>5, <2>1, <2>2, <2>3, Zenon DEF Sound, HeldRight
<1> QED BY <1>9, <1>10, <1>11, <1>12, Zenon DEF Sound

\* The lookup finds the refCounter of the key, or makes one with the spare mutex.
LEMMA LoadOrStoreStep ==
    ASSUME Sound, ~Races', NEW p \in Procs, LoadOrStore(p)
    PROVE  Sound'
<1> DEFINE k == key[p]
           m == got[p]
<1>0. Types /\ Where /\ WhereOne(p) /\ Distinct /\ Spares
  BY Zenon DEF Sound, Where, WhereOne
<1>1. /\ pc[p] \in {"store", "unstore"} /\ pc' = [pc EXCEPT ![p] = IF pc[p] = "store" THEN "add" ELSE "unlock"]
      /\ got' = [got EXCEPT ![p] = None] /\ UNCHANGED <<pool, held, key, mode, fatal>>
  BY Zenon DEF LoadOrStore, At, Goto
<1>2. k \in Keys /\ m \in Mutexes
  BY <1>0, <1>1, Zenon DEF WhereOne
<1>3. \A n \in Mutexes : Spare(n)' => Spare(n) /\ n # m
  BY <1>0, <1>1, <1>2, LockAssumption DEF Spare, Spares, Types
<1>4. CASE inUse[k] # None
  <2>1. ref' = [ref EXCEPT ![p] = inUse[k]] /\ UNCHANGED <<inUse, mutex>>
    BY <1>4, Zenon DEF LoadOrStore
  <2>2. Others(p) /\ pc'[p] = (IF pc[p] = "store" THEN "add" ELSE "unlock") /\ ref'[p] = inUse[k]
    BY <1>0, <1>1, <1>2, <2>1, Zenon DEF Types, Others, PCs
  <2>3. WhereOne(p)'
    BY <1>0, <1>1, <1>2, <1>4, <2>1, <2>2, Zenon DEF WhereOne, Types
  <2>4. \A l \in Keys : Busy(l)' <=> Busy(l)
    BY <1>1, <2>1, <2>2, Zenon DEF Busy, Others
  <2>5. Types' /\ Where'
    BY <1>0, <1>1, <2>1, <2>2, <2>3, WhereStep, Zenon DEF Types, Others
  <2>6. Distinct'
    BY <1>0, <2>1, <2>4, Zenon DEF Distinct
  <2>7. Spares'
    <3>1. \A q \in Procs : got'[q] = got[q] \/ got'[q] = None
      BY <1>0, <1>1, Zenon DEF Types
    <3> QED BY <1>0, <1>1, <1>3, <2>1, <2>4, <3>1, LockAssumption DEF Spares
  <2>8. HeldRight'
    <3> SUFFICES ASSUME NEW l \in Keys, Busy(l)'
                 PROVE  /\ Writing(l)' => held[mutex[inUse[l]]] = -1 /\ \A q, r \in Inside(l)' : q = r
                        /\ ~Writing(l)' => held[mutex[inUse[l]]] = Cardinality(Inside(l)')
      BY <1>1, <2>1, Zenon DEF HeldRight
    <3>1. Inside(l)' = Inside(l)
      BY <1>1, <2>2, Zenon DEF Inside, In, Others
    <3>2. Writing(l)' <=> Writing(l)
      BY <1>1, <3>1, Zenon DEF Writing
    <3> QED BY <2>4, <3>1, <3>2, Zenon DEF Sound, HeldRight
  <2> QED BY <2>5, <2>6, <2>7, <2>8, Zenon DEF Sound
<1>5. CASE inUse[k] = None
  <2> DEFINE r == CHOOSE r \in Refs : r \notin LiveRefs
  <2>1. /\ ref' = [ref EXCEPT ![p] = r] /\ inUse' = [inUse EXCEPT ![k] = r]
        /\ mutex' = [mutex EXCEPT ![r] = m] /\ r \in Refs /\ r \notin LiveRefs
    BY <1>5, Zenon DEF LoadOrStore
  <2> HIDE DEF r
  <2>2. \A l \in Keys : inUse[l] # r
    BY <2>1, Zenon DEF LiveRefs
  <2>3. pc[p] = "store"
    BY <1>0, <1>1, <1>5, LockAssumption, Zenon DEF WhereOne, Past, PCs
  <2>4. Others(p) /\ pc'[p] = "add" /\ ref'[p] = r /\ key'[p] = k
    BY <1>0, <1>1, <1>2, <2>1, <2>3, Zenon DEF Types, Others, PCs
  <2>5. /\ inUse' \in [Keys -> Refs \cup {None}] /\ mutex' \in [Refs -> Mutexes \cup {None}]
        /\ inUse'[k] = r /\ mutex'[r] = m /\ r # None
        /\ \A l \in Keys \ {k} : inUse'[l] = inUse[l]
        /\ \A l \in Keys \ {k} : inUse[l] # None => mutex'[inUse[l]] = mutex[inUse[l]]
    BY <1>0, <1>2, <2>1, <2>2, LockAssumption, Zenon DEF Types
  <2>6. \A q \in Procs : pc[q] \in Past => key[q] # k
    BY <1>0, <1>5, LockAssumption, Zenon DEF Where
  <2>7. \A l \in Keys \ {k} : Busy(l)' <=> Busy(l)
    BY <1>1, <2>4, <2>5, ZenonT(60) DEF Busy, Others
  <2>8. Types'
    BY <1>0, <1>1, <2>4, <2>5, Zenon DEF Types, Others
  <2>9. Where'
    <3> SUFFICES ASSUME NEW q \in Procs PROVE WhereOne(q)'
      BY Zenon DEF Where, WhereOne
    <3>1. CASE q = p
      BY <3>1, <1>2, <2>1, <2>4, <2>5, Zenon DEF WhereOne
    <3>2. CASE q # p
      <4>1. WhereOne(q)
        BY <1>0, Zenon DEF Where, WhereOne
      <4>2. pc[q] \in WithRef => pc[q] \in Past
        BY Zenon DEF WithRef, Past, PCs
      <4>3. pc[q] \in Past => key[q] \in Keys \ {k}
        BY <2>6, <4>1, Zenon DEF WhereOne, Past
      <4> QED BY <3>2, <1>1, <2>4, <2>5, <4>1, <4>2, <4>3, Zenon DEF WhereOne, Others
    <3> QED BY <3>1, <3>2, Zenon
  <2>10. \A l \in Keys \ {k} : Busy(l)' => mutex'[inUse'[l]] # m
    <3>1. Spare(m)
      BY Zenon DEF Spare
    <3> QED BY <1>0, <1>2, <2>5, <2>7, <3>1 DEF Spares, Busy
  <2>11. Distinct'
    <3>1. \A a, b \in Keys : inUse'[a] = inUse'[b] /\ inUse'[a] # None => a = b
      BY <1>0, <2>2, <2>5 DEF Distinct
    <3>2. \A a \in Keys : inUse'[a] # None => mutex'[inUse'[a]] \in Mutexes
      BY <1>0, <1>2, <2>5, Zenon DEF Distinct
    <3>3. ASSUME NEW a \in Keys, NEW b \in Keys, Busy(a)', Busy(b)',
                 mutex'[inUse'[a]] = mutex'[inUse'[b]]
          PROVE  a = b
      <4>1. CASE a = k \/ b = k
        BY <3>3, <4>1, <2>5, <2>10, Zenon
      <4>2. CASE a # k /\ b # k
        BY <3>3, <4>2, <1>0, <2>5, <2>7 DEF Distinct, Busy
      <4> QED BY <4>1, <4>2, Zenon
    <3> QED BY <3>1, <3>2, <3>3, Zenon DEF Distinct
  <2>12. Spares'
    <3>1. \A q \in Procs : got'[q] = got[q] \/ got'[q] = None
      BY <1>0, <1>1, Zenon DEF Types
    <3>2. \A n \in Mutexes, l \in Keys : Spare(n)' /\ Busy(l)' => mutex'[inUse'[l]] # n
      BY <1>0, <1>3, <2>5, <2>7 DEF Spares, Busy
    <3> QED BY <1>0, <1>1, <1>3, <3>1, <3>2, LockAssumption DEF Spares
  <2>13. HeldRight'
    <3> SUFFICES ASSUME NEW l \in Keys, Busy(l)'
                 PROVE  /\ Writing(l)' => held'[mutex'[inUse'[l]]] = -1 /\ \A q, s \in Inside(l)' : q = s
                        /\ ~Writing(l)' => held'[mutex'[inUse'[l]]] = Cardinality(Inside(l)')
      BY Zenon DEF HeldRight
    <3>1. Inside(l)' = Inside(l)
      BY <1>1, <2>4, Zenon DEF Inside, In, Others
    <3>2. Writing(l)' <=> Writing(l)
      BY <1>1, <3>1, Zenon DEF Writing
    <3>3. CASE l = k
      <4>1. Inside(l) = {}
        BY <3>3, <2>6, Zenon DEF Inside, In, Past, PCs
      <4>2. ~Writing(l) /\ Cardinality(Inside(l)) = 0
        BY <4>1, FS_EmptySet, Zenon DEF Writing
      <4>3. held'[mutex'[inUse'[l]]] = 0
        <5>1. Spare(m)
          BY Zenon DEF Spare
        <5> QED BY <3>3, <5>1, <1>0, <1>1, <1>2, <2>5, Zenon DEF Spares
      <4> QED BY <3>1, <3>2, <4>2, <4>3, Zenon
    <3>4. CASE l # k
      <4>1. Busy(l) /\ held'[mutex'[inUse'[l]]] = held[mutex[inUse[l]]]
        BY <3>4, <1>1, <2>5, <2>7, ZenonT(60) DEF Busy
      <4> QED BY <3>1, <3>2, <4>1, Zenon DEF Sound, HeldRight
    <3> QED BY <3>3, <3>4, Zenon
  <2> QED BY <2>8, <2>9, <2>11, <2>12, <2>13, Zenon DEF Sound
<1> QED BY <1>4, <1>5, Zenon

\* HeldRight, for one key; and a step that changes the state of one mutex only.
Right(k) ==
    /\ Writing(k) => held[mutex[inUse[k]]] = -1 /\ \A q, r \in Inside(k) : q = r
    /\ ~Writing(k) => held[mutex[inUse[k]]] = Cardinality(Inside(k))

Changes(m) == held' \in [Mutexes -> Int] /\ \A x \in Mutexes : x # m => held'[x] = held[x]

\* A goroutine on key k locks or unlocks its mutex, and the other keys do not
\* notice.
LEMMA MutexStep ==
    ASSUME Sound, ~Races', NEW p \in Procs, NEW k \in Keys, key[p] = k,
           pc[p] \in {"lock", "unlock"}, Others(p), WhereOne(p)',
           UNCHANGED <<inUse, pool, mutex, key, mode, got, fatal>>,
           Changes(mutex[inUse[k]]), Right(k)',
           pc'[p] = (IF pc[p] = "lock" THEN "critical" ELSE "sub")
    PROVE  Sound'
<1>1. PICK m \in Mutexes : m = mutex[inUse[k]]
  BY Alone, Zenon DEF Sound, Past, PCs, Distinct
<1>2. Busy(k)
  BY Alone, Zenon DEF Past, PCs
<1>3. Types /\ Where /\ Distinct /\ Spares /\ HeldRight
  BY Zenon DEF Sound
<1>4. \A l \in Keys : Busy(l)' <=> Busy(l)
  BY ZenonT(60) DEF Busy, Others
<1>5. Types'
  BY <1>3, Zenon DEF Types, Others, Changes
<1>6. Where'
  BY <1>3, WhereStep, Zenon
<1>7. Distinct'
  BY <1>3, <1>4, Zenon DEF Distinct
<1>8. \A x \in Mutexes : x # m => held'[x] = held[x]
  BY <1>1, Zenon DEF Changes
<1>9. Spares'
  <2>1. ~Spare(m)
    BY <1>1, <1>2, <1>3, Zenon DEF Spares
  <2>2. \A x \in Mutexes : Spare(x)' <=> Spare(x)
    BY Zenon DEF Spare
  <2>3. \A x \in Mutexes : Spare(x)' => held'[x] = 0
    BY <1>3, <1>8, <2>1, <2>2, Zenon DEF Spares
  <2> QED BY <1>3, <1>4, <2>2, <2>3, Zenon DEF Spares
<1>10. ASSUME NEW l \in Keys, Busy(l)' PROVE Right(l)'
  <2>1. CASE l = k
    BY <2>1, Zenon
  <2>2. CASE l # k
    <3>1. Inside(l)' = Inside(l)
      BY <2>2, Zenon DEF Inside, Others
    <3>2. Writing(l)' <=> Writing(l)
      BY <3>1, Zenon DEF Writing
    <3>3. Busy(l) /\ Right(l)
      BY <1>3, <1>4, <1>10, Zenon DEF HeldRight, Right
    <3>4. mutex[inUse[l]] \in Mutexes /\ mutex[inUse[l]] # m
      <4>1. inUse[l] # None
        BY <3>3, Zenon DEF Busy
      <4> QED BY <1>1, <1>2, <1>3, <2>2, <3>3, <4>1, Zenon DEF Distinct
    <3>5. held'[mutex[inUse[l]]] = held[mutex[inUse[l]]]
      BY <1>8, <3>4, Zenon
    <3> QED BY <3>1, <3>2, <3>3, <3>5, Zenon DEF Right
  <2> QED BY <2>1, <2>2, Zenon
<1>11. HeldRight'
  BY <1>10, Zenon DEF HeldRight, Right
<1> QED BY <1>5, <1>6, <1>7, <1>9, <1>11, Zenon DEF Sound

LEMMA AcquireStep ==
    ASSUME Sound, ~Races', NEW p \in Procs, Acquire(p)
    PROVE  Sound'
<1>0. PICK k \in Keys : k = key[p]
  BY Alone, Zenon DEF Past, PCs, Acquire, At
<1> DEFINE m == mutex[inUse[k]]
<1>1. /\ pc[p] = "lock" /\ ref[p] = inUse[k] /\ pc' = [pc EXCEPT ![p] = "critical"]
      /\ ref' = [ref EXCEPT ![p] = None] /\ UNCHANGED <<inUse, pool, mutex, key, mode, got, fatal>>
  BY <1>0, Zenon DEF Acquire, At, Goto, Sound, Where, WithRef
<1>2. /\ Types /\ HeldRight /\ Busy(k) /\ m \in Mutexes /\ inUse[k] \in Refs
  BY <1>0, <1>1, Alone, Zenon DEF Sound, Past, PCs, Distinct
<1>3. Others(p) /\ pc'[p] = "critical" /\ held[m] \in Int
  BY <1>1, <1>2, Zenon DEF Types, Others, PCs
<1>4. WhereOne(p)'
  BY <1>0, <1>1, <1>2, <1>3, Zenon DEF WhereOne, Past, PCs, WithRef
<1>5. Inside(k)' = Inside(k) \cup {p} /\ p \notin Inside(k)
  BY <1>0, <1>1, <1>3 DEF Inside, In, Others
<1>6. /\ key[p] = k /\ pc[p] \in {"lock", "unlock"} /\ pc'[p] = (IF pc[p] = "lock" THEN "critical" ELSE "sub")
      /\ UNCHANGED <<inUse, pool, mutex, key, mode, got, fatal>>
  BY <1>0, <1>1, <1>3, Zenon
<1>7. CASE mode[p] = "w" /\ held[m] = 0 /\ held' = [held EXCEPT ![m] = -1]
  <2>1. Cardinality(Inside(k)) = 0
    BY <1>2, <1>7 DEF HeldRight
  <2>2. Inside(k) = {}
    BY <2>1, InsideFinite, FS_EmptySet, Zenon
  <2>3. Writing(k)' /\ \A q, r \in Inside(k)' : q = r
    BY <1>1, <1>5, <1>7, <2>2, Zenon DEF Writing
  <2>4. Changes(m) /\ held'[m] = -1
    BY <1>2, <1>3, <1>7 DEF Types, Changes
  <2>5. Right(k)'
    BY <1>6, <2>3, <2>4, Zenon DEF Right
  <2> QED BY <1>3, <1>4, <1>6, <2>4, <2>5, MutexStep, Zenon
<1>8. CASE mode[p] = "r" /\ held[m] >= 0 /\ held' = [held EXCEPT ![m] = @ + 1]
  <2>1. ~Writing(k) /\ held[m] = Cardinality(Inside(k))
    BY <1>2, <1>8 DEF HeldRight
  <2>2. Cardinality(Inside(k)') = held[m] + 1
    BY Zenon, <1>5, <2>1, InsideFinite, FS_AddElement
  <2>3. ~Writing(k)'
    BY <1>1, <1>5, <1>8, <2>1, Zenon DEF Writing
  <2>4. held' = [held EXCEPT ![m] = held[m] + 1] /\ held[m] + 1 \in Int
    BY <1>2, <1>3, <1>8 DEF Types
  <2>5. Changes(m) /\ held'[m] = held[m] + 1
    BY <1>2, <1>3, <2>4, Zenon DEF Types, Changes
  <2>6. Right(k)'
    BY <1>6, <2>2, <2>3, <2>5, Zenon DEF Right
  <2> QED BY <1>3, <1>4, <1>6, <2>5, <2>6, MutexStep, Zenon
<1> QED BY Zenon, <1>1, <1>7, <1>8 DEF Acquire

\* The runtime finds the mutex locked: the process goes on.
LEMMA ReleaseStep ==
    ASSUME Sound, ~Races', NEW p \in Procs, Release(p)
    PROVE  Sound'
<1>0. PICK k \in Keys : k = key[p]
  BY Alone, Zenon DEF Past, PCs, Release, At
<1> DEFINE m == mutex[inUse[k]]
           locked == IF mode[p] = "w" THEN held[m] = -1 ELSE held[m] > 0
<1>1. /\ pc[p] = "unlock" /\ ref[p] = inUse[k] /\ pc' = [pc EXCEPT ![p] = "sub"]
      /\ UNCHANGED <<inUse, pool, mutex, key, mode, got, ref>>
      /\ fatal' = ~locked
      /\ held' = IF ~locked THEN held ELSE [held EXCEPT ![m] = IF mode[p] = "w" THEN 0 ELSE @ - 1]
  BY Zenon, <1>0 DEF Release, At, Goto, Sound, Where, WithRef
<1>2. /\ Types /\ HeldRight /\ Busy(k) /\ m \in Mutexes /\ inUse[k] \in Refs
  BY <1>0, <1>1, Alone, Zenon DEF Sound, Past, PCs, Distinct
<1>3. Others(p) /\ pc'[p] = "sub" /\ held[m] \in Int
  BY <1>1, <1>2, Zenon DEF Types, Others, PCs
<1>4. WhereOne(p)'
  BY <1>0, <1>1, <1>2, <1>3, Zenon DEF WhereOne, Past, PCs, WithRef
<1>5. Inside(k)' = Inside(k) \ {p} /\ p \in Inside(k)
  BY <1>0, <1>1, <1>3, Zenon DEF Inside, In, Others
<1>6. /\ key[p] = k /\ pc[p] \in {"lock", "unlock"} /\ pc'[p] = (IF pc[p] = "lock" THEN "critical" ELSE "sub")
      /\ UNCHANGED <<inUse, pool, mutex, key, mode, got>>
  BY <1>0, <1>1, <1>3, Zenon
<1>7. CASE mode[p] = "w"
  <2>1. held[m] = -1 /\ \A q, r \in Inside(k) : q = r
    BY <1>2, <1>5, <1>7, Zenon DEF HeldRight, Writing
  <2>2. Inside(k)' = {}
    BY <1>5, <2>1, Zenon
  <2>3. ~Writing(k)' /\ Cardinality(Inside(k)') = 0
    BY <2>2, FS_EmptySet, Zenon DEF Writing
  <2>4. UNCHANGED fatal /\ held' = [held EXCEPT ![m] = 0]
    BY Zenon, <1>1, <1>2, <1>7, <2>1 DEF Types
  <2>5. Changes(m) /\ held'[m] = 0
    BY <1>2, <1>3, <2>4 DEF Types, Changes
  <2>6. UNCHANGED fatal
    BY <2>4, Zenon
  <2>7. Right(k)'
    BY <1>6, <2>3, <2>5, Zenon DEF Right
  <2> QED BY <1>3, <1>4, <1>6, <2>5, <2>6, <2>7, MutexStep, Zenon
<1>8. CASE mode[p] # "w"
  <2>1. ~Writing(k) /\ held[m] = Cardinality(Inside(k))
    BY <1>2, <1>5, <1>8, Zenon DEF HeldRight, Writing
  <2>2. Cardinality(Inside(k)') = held[m] - 1 /\ held[m] > 0
    <3>1. Cardinality(Inside(k) \ {p}) = Cardinality(Inside(k)) - 1
      BY Zenon, <1>5, InsideFinite, FS_RemoveElement
    <3>2. IsFiniteSet(Inside(k) \ {p})
      BY InsideFinite, FS_RemoveElement, Zenon
    <3>3. Cardinality(Inside(k) \ {p}) \in Nat
      BY <3>2, FS_CardinalityType, Zenon
    <3> QED BY <1>5, <2>1, <3>1, <3>3, InsideFinite
  <2>3. ~Writing(k)'
    BY <1>1, <1>5, <2>1, Zenon DEF Writing
  <2>4. locked
    BY <1>8, <2>2, Zenon
  <2>5. UNCHANGED fatal
    BY Zenon, <1>1, <1>2, <2>4 DEF Types
  <2>6. held' = [held EXCEPT ![m] = held[m] - 1] /\ held[m] - 1 \in Int
    BY <1>1, <1>2, <1>3, <1>8, <2>4 DEF Types
  <2>7. Changes(m) /\ held'[m] = held[m] - 1
    BY <1>2, <1>3, <2>6, Zenon DEF Types, Changes
  <2>8. Right(k)'
    BY <1>6, <2>2, <2>3, <2>7, Zenon DEF Right
  <2> QED BY <1>3, <1>4, <1>6, <2>5, <2>7, <2>8, MutexStep, Zenon
<1> QED BY <1>7, <1>8, Zenon

\* The mutex goes to the pool: nobody is inside, and its key is given up.
LEMMA PoolPutStep ==
    ASSUME Sound, ~Races', NEW p \in Procs, PoolPut(p)
    PROVE  Sound'
<1>0. PICK k \in Keys : k = key[p]
  BY Alone, Zenon DEF Past, PCs, PoolPut, At
<1> DEFINE m == mutex[inUse[k]]
<1>1. pc[p] = "put" /\ ref[p] = inUse[k]
  BY <1>0, Zenon DEF PoolPut, At, Sound, Where, WithRef
<1>2. /\ Types /\ Where /\ Distinct /\ Spares /\ HeldRight /\ Busy(k) /\ m \in Mutexes
      /\ inUse[k] \in Refs /\ Inside(k) = {}
  BY <1>0, <1>1, Alone, Zenon DEF Sound, Past, PCs, Distinct
<1>3. held[m] = 0
  <2>1. ~Writing(k)
    BY <1>2, Zenon DEF Writing
  <2> QED BY <1>2, <2>1, FS_EmptySet, Zenon DEF HeldRight
<1>4. pool[m] = 0 /\ \A q \in Procs : got[q] # m
  BY <1>2 DEF Types, Spares, Spare
<1>5. /\ pc' = [pc EXCEPT ![p] = "delete"] /\ pool' = [pool EXCEPT ![m] = 1]
      /\ UNCHANGED <<inUse, mutex, held, key, mode, got, ref, fatal>>
  BY <1>1, <1>2, <1>4, LockAssumption DEF PoolPut, Goto, Types
<1>6. Others(p) /\ pc'[p] = "delete"
  BY <1>2, <1>5, Zenon DEF Types, Others, PCs
<1>7. WhereOne(p)'
  BY <1>0, <1>1, <1>2, <1>5, <1>6, Zenon DEF WhereOne
<1>8. Types' /\ Where'
  BY <1>2, <1>5, <1>6, <1>7, WhereStep, Zenon DEF Types, Others
<1>9. \A l \in Keys : Busy(l)' => Busy(l) /\ l # k
  BY <1>0, <1>5, <1>6, Zenon DEF Busy, Others
<1>10. Distinct'
  BY <1>2, <1>5, <1>9, Zenon DEF Distinct
<1>11. \A n \in Mutexes : Spare(n)' => Spare(n) \/ n = m
  BY <1>2, <1>5, Zenon DEF Spare, Types
<1>12. Spares'
  <2>1. \A n \in Mutexes : Spare(n)' => held'[n] = 0
    BY <1>2, <1>3, <1>5, <1>11, Zenon DEF Spares
  <2>2. \A n \in Mutexes, l \in Keys : Spare(n)' /\ Busy(l)' => mutex'[inUse'[l]] # n
    BY <1>2, <1>5, <1>9, <1>11, ZenonT(60) DEF Spares, Distinct
  <2>3. \A q \in Procs : got'[q] \in Mutexes => pool'[got'[q]] = 0
    BY <1>2, <1>4, <1>5, Zenon DEF Spares, Types
  <2>4. \A q, r \in Procs : got'[q] = got'[r] /\ got'[q] \in Mutexes => q = r
    BY <1>2, <1>5, Zenon DEF Spares
  <2> QED BY <2>1, <2>2, <2>3, <2>4, Zenon DEF Spares
<1>13. HeldRight'
  <2> SUFFICES ASSUME NEW l \in Keys, Busy(l)'
               PROVE  /\ Writing(l)' => held[mutex[inUse[l]]] = -1 /\ \A q, r \in Inside(l)' : q = r
                      /\ ~Writing(l)' => held[mutex[inUse[l]]] = Cardinality(Inside(l)')
    BY <1>5, Zenon DEF HeldRight
  <2>1. Inside(l)' = Inside(l)
    BY <1>1, <1>5, <1>6, Zenon DEF Inside, In, Others
  <2>2. Writing(l)' <=> Writing(l)
    BY <1>5, <2>1, Zenon DEF Writing
  <2> QED BY <1>2, <1>9, <2>1, <2>2, Zenon DEF HeldRight
<1> QED BY <1>8, <1>10, <1>12, <1>13, Zenon DEF Sound

LEMMA DeleteKeyStep ==
    ASSUME Sound, ~Races', NEW p \in Procs, DeleteKey(p)
    PROVE  Sound'
<1>0. PICK k \in Keys : k = key[p]
  BY Alone, Zenon DEF Past, PCs, DeleteKey, At
<1>1. /\ pc[p] = "delete" /\ inUse' = [inUse EXCEPT ![k] = None] /\ pc' = [pc EXCEPT ![p] = "idle"]
      /\ key' = [key EXCEPT ![p] = None] /\ ref' = [ref EXCEPT ![p] = None]
      /\ UNCHANGED <<pool, mutex, held, mode, got, fatal>>
  BY <1>0, Zenon DEF DeleteKey, At, Goto
<1>2. Types /\ Where /\ Distinct /\ Spares /\ HeldRight
  BY Zenon DEF Sound
<1>3. Others(p) /\ pc'[p] = "idle"
  BY <1>1, <1>2, Zenon DEF Types, Others, PCs
<1>4. \A q \in Procs \ {p} : pc[q] \in Past => key[q] # k
  BY <1>0, <1>1, Zenon DEF Sound, Races, Past
<1>5. inUse' \in [Keys -> Refs \cup {None}] /\ inUse'[k] = None /\ \A l \in Keys \ {k} : inUse'[l] = inUse[l]
  BY <1>1, <1>2, Zenon DEF Types
<1>6. Types'
  BY <1>1, <1>2, <1>3, <1>5, Zenon DEF Types, Others
<1>7. Where'
  <2> SUFFICES ASSUME NEW q \in Procs PROVE WhereOne(q)'
    BY Zenon DEF Where, WhereOne
  <2>1. CASE q = p
    BY <2>1, <1>3, Zenon DEF WhereOne, Past, WithRef
  <2>2. CASE q # p
    <3>1. WhereOne(q)
      BY <1>2, Zenon DEF Where, WhereOne
    <3>2. pc[q] \in WithRef => pc[q] \in Past
      BY Zenon DEF WithRef, Past, PCs
    <3>3. pc[q] \in Past => key[q] \in Keys \ {k}
      BY <2>2, <1>4, <3>1, Zenon DEF WhereOne, Past
    <3> QED BY <2>2, <1>3, <1>5, <3>1, <3>2, <3>3, ZenonT(60) DEF WhereOne, Others
  <2> QED BY <2>1, <2>2, Zenon
<1>8. \A l \in Keys : Busy(l)' => Busy(l) /\ l # k
  BY <1>0, <1>1, <1>3, <1>5, ZenonT(60) DEF Busy, Others
<1>9. Distinct'
  BY <1>1, <1>2, <1>5, <1>8, Zenon DEF Distinct
<1>10. Spares'
  <2>1. \A n \in Mutexes : Spare(n)' <=> Spare(n)
    BY <1>1, Zenon DEF Spare
  <2> QED BY Zenon, <1>1, <1>2, <1>5, <1>8, <2>1 DEF Spares
<1>11. HeldRight'
  <2> SUFFICES ASSUME NEW l \in Keys, Busy(l)'
               PROVE  /\ Writing(l)' => held[mutex[inUse'[l]]] = -1 /\ \A q, r \in Inside(l)' : q = r
                      /\ ~Writing(l)' => held[mutex[inUse'[l]]] = Cardinality(Inside(l)')
    BY Zenon, <1>1 DEF HeldRight
  <2>1. Inside(l)' = Inside(l)
    BY <1>1, <1>3, Zenon DEF Inside, In, Others
  <2>2. Writing(l)' <=> Writing(l)
    BY <1>1, <2>1, Zenon DEF Writing
  <2> QED BY <1>2, <1>5, <1>8, <2>1, <2>2, Zenon DEF HeldRight
<1> QED BY <1>6, <1>7, <1>9, <1>10, <1>11, Zenon DEF Sound

-----------------------------------------------------------------------------
\* The invariant: no call has met the removal of its key, and all is sound, or
\* one has.
IInv == raced \in BOOLEAN /\ (raced \/ Sound)

LEMMA Inductive == IInv /\ [Next]_vars => IInv'
<1> SUFFICES ASSUME IInv, [Next]_vars PROVE IInv'
  BY Zenon
<1>1. CASE UNCHANGED vars
  <2> USE <1>1 DEF vars
  <2>1. (Types' <=> Types) /\ (Where' <=> Where) /\ (Races' <=> Races)
    BY Zenon DEF Types, Where, Races
  <2>2. (Distinct' <=> Distinct) /\ (Spares' <=> Spares)
    BY ZenonT(60) DEF Distinct, Spares, Spare, Busy
  <2>3. HeldRight' <=> HeldRight
    BY DEF HeldRight, Busy, Writing, Inside
  <2> QED BY <2>1, <2>2, <2>3, Zenon DEF IInv, Sound
<1>2. CASE Next
  <2>1. raced' = (raced \/ Races')
    BY <1>2, Zenon DEF Next
  <2>2. raced' \in BOOLEAN
    BY <2>1, Zenon
  <2>3. CASE raced \/ Races'
    BY Zenon, <2>1, <2>2, <2>3 DEF IInv
  <2>4. CASE ~raced /\ ~Races'
    <3>1. Sound /\ ~Races'
      BY <2>4, Zenon DEF IInv
    <3>2. PICK p \in Procs :
              \/ Call(p) \/ PoolGet(p) \/ LoadOrStore(p) \/ Increment(p) \/ Acquire(p)
              \/ Leave(p) \/ Release(p) \/ Decrement(p) \/ Test(p) \/ PoolPut(p) \/ DeleteKey(p)
      BY <1>2, Zenon DEF Next
    <3>3. Sound'
      BY <3>1, <3>2, StrollSteps, PoolGetStep, LoadOrStoreStep, AcquireStep, ReleaseStep,
         PoolPutStep, DeleteKeyStep, Zenon
    <3> QED BY <2>2, <3>3, Zenon DEF IInv
  <2> QED BY <2>3, <2>4, Zenon
<1> QED BY <1>1, <1>2, Zenon

\* A goroutine that stays where it is for its callers, on its key, takes a step
\* the abstract lock does not see.
LEMMA Unseen ==
    ASSUME NEW p \in Procs, \A q \in Procs \ {p} : pc'[q] = pc[q] /\ key'[q] = key[q],
           Place(p)' = Place(p), Place(p) # "out" => key'[p] = key[p],
           UNCHANGED <<mode, fatal, raced>>
    PROVE  UNCHANGED Promise!vars
<1>1. \A q \in Procs : Place(q)' = Place(q)
  BY Zenon DEF Place
<1>2. UNCHANGED [q \in Procs |-> Place(q)]
  BY <1>1, Zenon
<1>3. UNCHANGED [q \in Procs |-> IF Place(q) = "out" THEN None ELSE key[q]]
  BY <1>1, Zenon
<1> QED BY <1>2, <1>3, Zenon DEF Promise!vars

LEMMA Refines == IInv /\ [Next]_vars => [Promise!Next]_(Promise!vars)
<1> SUFFICES ASSUME IInv, [Next]_vars PROVE [Promise!Next]_(Promise!vars)
  BY Zenon
<1>0. IInv'
  BY Inductive, Zenon
<1>1. CASE UNCHANGED vars
  <2>1. /\ UNCHANGED [q \in Procs |-> Place(q)]
        /\ UNCHANGED [q \in Procs |-> IF Place(q) = "out" THEN None ELSE key[q]]
        /\ UNCHANGED <<mode, fatal, raced>>
    BY <1>1, Zenon DEF vars, Place
  <2> QED BY <2>1, Zenon DEF Promise!vars
<1>2. CASE Next /\ raced'
  BY <1>2, Zenon DEF Promise!Next
<1>3. CASE Next /\ ~raced'
  <2>1. Sound /\ Sound' /\ UNCHANGED <<fatal, raced>> /\ ~fatal /\ ~Races'
    <3>1. raced' = (raced \/ Races')
      BY <1>3, Zenon DEF Next
    <3>2. raced = FALSE /\ raced' = FALSE /\ ~Races'
      BY Zenon, <1>0, <1>3, <3>1 DEF IInv
    <3>3. Sound /\ Sound'
      BY <1>0, <3>2, Zenon DEF IInv
    <3> QED BY Zenon, <3>2, <3>3 DEF Sound, Types
  <2>2. Types /\ Types'
    BY <2>1, Zenon DEF Sound
  <2>3. PICK p \in Procs :
            \/ Call(p) \/ PoolGet(p) \/ LoadOrStore(p) \/ Increment(p) \/ Acquire(p)
            \/ Leave(p) \/ Release(p) \/ Decrement(p) \/ Test(p) \/ PoolPut(p) \/ DeleteKey(p)
    BY <1>3, Zenon DEF Next
  <2> DEFINE place == [q \in Procs |-> Place(q)]
             keys == [q \in Procs |-> IF Place(q) = "out" THEN None ELSE key[q]]
  <2>4. CASE Call(p)
    <3>1. PICK k \in KeysOf[p], w \in Modes :
              key' = [key EXCEPT ![p] = k] /\ mode' = [mode EXCEPT ![p] = w]
      BY Zenon, <2>4 DEF Call
    <3>2. k \in Keys /\ w \in {"w", "r"}
      BY LockAssumption, <3>1, Zenon
    <3>3. pc[p] = "idle" /\ pc' = [pc EXCEPT ![p] = "get"]
      BY <2>4, Zenon DEF Call, At, Goto
    <3>4. /\ \A q \in Procs \ {p} : Place(q)' = Place(q) /\ key'[q] = key[q]
          /\ Place(p) = "out" /\ Place(p)' = "asking" /\ key'[p] = k
      BY <2>2, <3>1, <3>3, Zenon DEF Types, Place
    <3>5. place[p] = "out" /\ place' = [place EXCEPT ![p] = "asking"] /\ keys' = [keys EXCEPT ![p] = k]
      BY Zenon, <3>4
    <3>6. Promise!Ask(p)
      BY Zenon, <3>1, <3>2, <3>5 DEF Promise!Ask
    <3> QED BY <2>1, <3>6, Zenon DEF Promise!Next
  <2>5. CASE Acquire(p)
    <3>1. /\ pc[p] = "lock" /\ pc' = [pc EXCEPT ![p] = "critical"] /\ UNCHANGED <<key, mode, inUse>>
      BY <2>5, Zenon DEF Acquire, At, Goto
    <3>2. /\ \A q \in Procs \ {p} : Place(q)' = Place(q)
          /\ Place(p) = "asking" /\ Place(p)' = "inside" /\ pc'[p] = "critical"
      BY <2>2, <3>1, Zenon DEF Types, Place
    <3>3. place[p] = "asking" /\ place' = [place EXCEPT ![p] = "inside"] /\ UNCHANGED <<keys, mode>>
      BY Zenon, <3>1, <3>2
    <3>4. ASSUME NEW q \in Procs, place[q] = "inside", keys[p] = keys[q], "w" \in {mode[p], mode[q]}
          PROVE  FALSE
      <4>1. PICK k \in Keys : k = key[p]
        BY <2>1, <3>1, Alone, Zenon DEF Past, PCs
      <4>2. q # p /\ key[q] = k /\ pc[q] \in In
        BY <3>2, <3>4, <4>1, Zenon DEF Place, In
      <4>3. p \in Inside(k)' /\ q \in Inside(k)'
        BY <2>2, <3>1, <3>2, <4>1, <4>2, Zenon DEF Inside, In, Types
      <4>4. Writing(k)'
        BY <3>1, <3>4, <4>3, Zenon DEF Writing
      <4>5. Busy(k)'
        BY <2>1, <3>1, <3>2, <4>1, Alone, Zenon DEF Sound, Races, Past, PCs, Busy
      <4> QED BY <2>1, <4>2, <4>3, <4>4, <4>5, Zenon DEF Sound, HeldRight
    <3>5. Promise!Enter(p)
      BY <3>3, <3>4, Zenon DEF Promise!Enter, Promise!Conflict
    <3> QED BY <2>1, <3>5, Zenon DEF Promise!Next
  <2>6. CASE Release(p)
    <3>1. pc[p] = "unlock" /\ pc' = [pc EXCEPT ![p] = "sub"] /\ UNCHANGED <<key, mode>>
      BY <2>6, Zenon DEF Release, At, Goto
    <3>2. /\ \A q \in Procs \ {p} : Place(q)' = Place(q)
          /\ Place(p) = "inside" /\ Place(p)' = "out"
      BY <2>2, <3>1, Zenon DEF Types, Place
    <3>3. place[p] = "inside" /\ place' = [place EXCEPT ![p] = "out"] /\ keys' = [keys EXCEPT ![p] = None]
      BY Zenon, <3>1, <3>2
    <3>4. Promise!Exit(p)
      BY <3>1, <3>3, Zenon DEF Promise!Exit
    <3> QED BY <2>1, <3>4, Zenon DEF Promise!Next
  <2>7. CASE PoolGet(p) \/ LoadOrStore(p) \/ Increment(p) \/ Leave(p) \/ Decrement(p) \/ PoolPut(p)
    <3>1. /\ UNCHANGED <<key, mode>> /\ \A q \in Procs \ {p} : pc'[q] = pc[q]
          /\ Place(p)' = Place(p)
      BY ZenonT(60), <2>2, <2>7 DEF Types, Place, PoolGet, LoadOrStore, Increment, Leave, Decrement, PoolPut, At, Goto
    <3> QED BY <2>1, <3>1, Unseen, Zenon
  <2>8. CASE Test(p) \/ DeleteKey(p)
    <3>1. /\ UNCHANGED mode /\ \A q \in Procs \ {p} : pc'[q] = pc[q] /\ key'[q] = key[q]
          /\ Place(p)' = "out" /\ Place(p) = "out"
      BY <2>2, <2>8, ZenonT(60) DEF Types, Place, Test, DeleteKey, At, Goto
    <3> QED BY <2>1, <3>1, Unseen, Zenon
  <2> QED BY <2>3, <2>4, <2>5, <2>6, <2>7, <2>8, Zenon
<1> QED BY <1>1, <1>2, <1>3, Zenon

\* The lock of lock.go implements one readers-writer lock per key, for any
\* number of goroutines and keys, until a call meets an Unlock that removes its
\* key.
THEOREM Implements == Spec => ImplementsKeyLock
<1>1. Init => IInv
  BY Zenon, InitSound DEF IInv, Init
<1>2. Init => Promise!Init
  <2> SUFFICES ASSUME Init PROVE Promise!Init
    BY Zenon
  <2>1. \A p \in Procs : Place(p) = "out"
    BY Zenon DEF Init, Place
  <2> QED BY <2>1, Zenon DEF Init, Promise!Init
<1> QED BY <1>1, <1>2, Inductive, Refines, PTL DEF Spec, ImplementsKeyLock, Promise!Spec

\* Two goroutines are inside the section of one key only as readers as long as
\* no call has met the removal of its key.
THEOREM ExcludesUnlessRaced == Spec => [](raced \/ MutualExclusion)
<1>1. Init => IInv
  BY Zenon, InitSound DEF IInv, Init
<1>2. IInv => raced \/ MutualExclusion
  <2> SUFFICES ASSUME Sound PROVE MutualExclusion
    BY Zenon DEF IInv
  <2> SUFFICES ASSUME NEW p \in Procs, NEW q \in Procs, p # q, pc[p] = "critical", pc[q] = "critical",
                      key[p] = key[q]
               PROVE  mode[p] = "r" /\ mode[q] = "r"
    BY Zenon DEF MutualExclusion
  <2>1. Busy(key[p]) /\ key[p] \in Keys
    BY Alone, Zenon DEF Past, PCs
  <2>2. p \in Inside(key[p]) /\ q \in Inside(key[p])
    BY Zenon DEF Inside, In
  <2>3. mode[p] # "w" /\ mode[q] # "w"
    BY <2>1, <2>2, Zenon DEF Sound, HeldRight, Writing
  <2> QED BY <2>3, Zenon DEF Sound, Types
<1> QED BY <1>1, <1>2, Inductive, PTL DEF Spec

\* Without the race, a caller that is alone on its key finds its mutex free, for any
\* number of goroutines and keys: a mutex that comes from the pool is not locked, and
\* the mutexes of keys in use differ (getLocker and putBackInPool).
THEOREM IndependentUnlessRaced == Spec => []KeysAreIndependent
<1>1. IInv => KeysAreIndependent
  <2> SUFFICES ASSUME Sound, NEW p \in Procs, pc[p] = "lock",
                      \A q \in Procs \ {p} : key[q] # key[p]
               PROVE  held[mutex[ref[p]]] = 0
    BY Zenon DEF IInv, KeysAreIndependent
  <2>1. "lock" \in Past /\ "lock" \in WithRef /\ "lock" # "delete" /\ "lock" \notin In
    BY DEF Past, PCs, WithRef, In
  <2>2. key[p] \in Keys /\ Busy(key[p]) /\ ref[p] = inUse[key[p]]
    BY <2>1, Alone, Zenon DEF Sound, Where
  <2>3. Inside(key[p]) = {}
    BY <2>1, Zenon DEF Inside
  <2>4. ~Writing(key[p])
    BY <2>3, Zenon DEF Writing
  <2> QED BY <2>2, <2>3, <2>4, FS_EmptySet, Zenon DEF Sound, HeldRight
<1>2. Init => IInv
  BY InitSound, Zenon DEF Init, IInv
<1> QED BY <1>1, <1>2, Inductive, PTL DEF Spec

-----------------------------------------------------------------------------
(* The bounds of TypeOK, which hold after a race as well.  A counter is the    *)
(* difference of two disjoint sets of goroutines, and a mutex has at most the  *)
(* readers that a division of the readers inside among the mutexes gives it.   *)

Plain ==
    /\ inUse \in [Keys -> Refs \cup {None}]
    /\ pool \in [Mutexes -> 0..MaxCopies]
    /\ counter \in [Refs -> Int]
    /\ mutex \in [Refs -> Mutexes \cup {None}]
    /\ held \in [Mutexes -> Int]
    /\ pc \in [Procs -> PCs]
    /\ key \in [Procs -> Keys \cup {None}]
    /\ mode \in [Procs -> {"w", "r"}]
    /\ got \in [Procs -> Mutexes \cup {None}]
    /\ ref \in [Procs -> Refs \cup {None}]
    /\ fatal \in BOOLEAN
    /\ raced \in BOOLEAN

\* What a goroutine has at hand.
Has(p) ==
    /\ pc[p] # "idle" => key[p] \in Keys
    /\ pc[p] \in WithRef => ref[p] \in Refs /\ mutex[ref[p]] \in Mutexes
    /\ pc[p] \notin WithRef => ref[p] = None
    /\ pc[p] \in {"store", "unstore"} => got[p] \in Mutexes

Live ==
    /\ \A k, l \in Keys : inUse[k] = inUse[l] /\ inUse[k] # None => k = l
    /\ \A k \in Keys : inUse[k] # None => mutex[inUse[k]] \in Mutexes
    /\ \A p \in Procs : Has(p)

\* From the increment of a call to the decrement of the same call.
Through == {"lock", "critical", "unget", "unstore", "unlock", "sub"}

\* Goroutine p in the tally of refCounter r: A are those that have incremented it and not
\* decremented it since, B those that have only decremented it, which happens when the
\* key was removed and made again during a call.
Tally(p, r, A, B) ==
    /\ pc[p] = "add" /\ ref[p] = r => p \notin A
    /\ pc[p] \in {"unlock", "sub"} /\ ref[p] = r => p \notin B
    /\ \A k \in Keys : inUse[k] = r =>
        /\ p \in A => /\ key[p] = k /\ pc[p] \in Through
                      /\ pc[p] \in {"lock", "unlock", "sub"} => ref[p] = r
        /\ p \in B /\ key[p] = k => pc[p] \notin Through /\ (pc[p] = "add" => ref[p] = r)
        /\ ref[p] = r => key[p] = k

CountFor(r) == \E A, B \in SUBSET Procs :
    /\ A \cap B = {}
    /\ counter[r] = Cardinality(A) - Cardinality(B)
    /\ \A p \in Procs : Tally(p, r, A, B)

\* Division f of the readers inside among the mutexes.
Readers(f, m) == {p \in Procs : f[p] = m}

Divides(f) ==
    /\ \A p \in Procs : f[p] # None => mode[p] = "r" /\ (fatal \/ pc[p] \in In)
    /\ \A m \in Mutexes : held[m] \in -1..Cardinality(Readers(f, m))

HeldOK == \E f \in [Procs -> Mutexes \cup {None}] : Divides(f)

Bounded == Plain /\ Live /\ (\A r \in Refs : CountFor(r)) /\ HeldOK

LEMMA Sizes ==
    \A S \in SUBSET Procs : /\ IsFiniteSet(S) /\ Cardinality(S) \in Nat
                            /\ Cardinality(S) <= Cardinality(Procs)
                            /\ Cardinality(Procs) \in Nat
<1> TAKE S \in SUBSET Procs
<1>1. IsFiniteSet(Procs)
  BY LockAssumption, Zenon
<1>2. IsFiniteSet(S) /\ Cardinality(S) <= Cardinality(Procs)
  BY <1>1, FS_Subset, Zenon
<1> QED BY <1>1, <1>2, FS_CardinalityType, Zenon

\* One goroutine more or less.
LEMMA OneMore ==
    ASSUME NEW S \in SUBSET Procs, NEW p \in Procs
    PROVE  /\ p \notin S => Cardinality(S \cup {p}) = Cardinality(S) + 1
           /\ p \in S => Cardinality(S \ {p}) = Cardinality(S) - 1
<1>1. IsFiniteSet(S)
  BY Sizes, Zenon
<1> QED BY <1>1, FS_AddElement, FS_RemoveElement, Zenon

LEMMA BoundedTypes == Bounded => TypeOK
<1> SUFFICES ASSUME Bounded PROVE TypeOK
  BY Zenon
<1> DEFINE N == Cardinality(Procs)
<1>n. N \in Nat
  BY Sizes, Zenon
<1>1. ASSUME NEW r \in Refs PROVE counter[r] \in -N..N
  <2>1. PICK A, B \in SUBSET Procs : counter[r] = Cardinality(A) - Cardinality(B)
    BY <1>1, Zenon DEF Bounded, CountFor
  <2>2. Cardinality(A) \in 0..N /\ Cardinality(B) \in 0..N
    BY Sizes
  <2> HIDE DEF N
  <2> QED BY <1>n, <2>1, <2>2
<1>2. ASSUME NEW m \in Mutexes PROVE held[m] \in -1..N
  <2>1. PICK f : held[m] \in -1..Cardinality(Readers(f, m))
    BY <1>2, Zenon DEF Bounded, HeldOK, Divides
  <2>2. Readers(f, m) \in SUBSET Procs
    BY Zenon DEF Readers
  <2>3. PICK c \in Nat : c = Cardinality(Readers(f, m)) /\ c <= N
    BY <2>2, Sizes
  <2> HIDE DEF N
  <2> QED BY <1>n, <2>1, <2>3
<1>3. counter \in [Refs -> -N..N] /\ held \in [Mutexes -> -1..N]
  <2> HIDE DEF N
  <2> QED BY <1>1, <1>2, Zenon DEF Bounded, Plain
<1> QED BY <1>3, Zenon DEF Bounded, Plain, TypeOK, PCs

LEMMA InitBounded == Init => Bounded
<1> SUFFICES ASSUME Init PROVE Bounded
  BY Zenon
<1>1. Plain
  <2>1. 0 \in 0..MaxCopies /\ 0 \in Int
    BY LockAssumption
  <2> QED BY <2>1, Zenon DEF Init, Plain, PCs
<1>2. Live
  BY LockAssumption, Zenon DEF Init, Live, Has, WithRef
<1>3. ASSUME NEW r \in Refs PROVE CountFor(r)
  <2>1. {} \in SUBSET Procs /\ {} \cap {} = {} /\ Cardinality({}) = 0
    BY FS_EmptySet, Zenon
  <2>2. counter[r] = Cardinality({}) - Cardinality({})
    BY <1>3, <2>1 DEF Init
  <2>3. \A p \in Procs : Tally(p, r, {}, {})
    BY <1>3, LockAssumption, Zenon DEF Init, Tally
  <2> QED BY <2>1, <2>2, <2>3, Zenon DEF CountFor
<1>4. HeldOK
  <2> DEFINE f == [p \in Procs |-> None]
  <2>1. f \in [Procs -> Mutexes \cup {None}] /\ \A p \in Procs : f[p] = None
    BY Zenon
  <2>2. \A m \in Mutexes : Readers(f, m) \in SUBSET Procs
    BY Zenon DEF Readers
  <2> HIDE DEF f
  <2>3. ASSUME NEW m \in Mutexes PROVE held[m] \in -1..Cardinality(Readers(f, m))
    <3>1. held[m] = 0
      BY <2>3, Zenon DEF Init
    <3>2. Cardinality(Readers(f, m)) \in Nat
      BY <2>2, <2>3, Sizes, Zenon
    <3> QED BY <3>1, <3>2
  <2> QED BY <2>1, <2>3, Zenon DEF HeldOK, Divides
<1> QED BY <1>1, <1>2, <1>3, <1>4, Zenon DEF Bounded

\* A step leaves the tally of a counter as it is if it does so for its goroutine.
LEMMA CountKeeps ==
    ASSUME NEW p \in Procs, NEW r \in Refs, Others(p), CountFor(r), counter'[r] = counter[r],
           \A k \in Keys : inUse'[k] = r => inUse[k] = r,
           \A A, B \in SUBSET Procs : Tally(p, r, A, B) => Tally(p, r, A, B)'
    PROVE  CountFor(r)'
<1>1. PICK A, B \in SUBSET Procs :
          /\ A \cap B = {} /\ counter[r] = Cardinality(A) - Cardinality(B)
          /\ \A q \in Procs : Tally(q, r, A, B)
  BY Zenon DEF CountFor
<1>2. ASSUME NEW q \in Procs, q # p PROVE Tally(q, r, A, B)'
  <2>1. pc'[q] = pc[q] /\ key'[q] = key[q] /\ ref'[q] = ref[q] /\ Tally(q, r, A, B)
    BY <1>1, <1>2, Zenon DEF Others
  <2> QED BY <2>1, Zenon DEF Tally
<1>3. \A q \in Procs : Tally(q, r, A, B)'
  BY <1>1, <1>2, Zenon
<1> QED BY <1>1, <1>3, Zenon DEF CountFor

\* Steps that neither enter nor leave the tally of a counter.
Calm(p) ==
    /\ pc[p] # "add" /\ pc'[p] # "add"
    /\ pc[p] \in Through <=> pc'[p] \in Through
    /\ pc[p] \in Through => key'[p] = key[p]
    /\ pc'[p] \in {"lock", "unlock", "sub"} => ref'[p] = ref[p]
    /\ pc'[p] = "lock" => pc[p] = "lock"
    /\ pc'[p] \in {"unlock", "sub"} => pc[p] \in {"unlock", "sub"}
    /\ ref'[p] = None \/ (ref'[p] = ref[p] /\ key'[p] = key[p])

LEMMA CalmKeeps ==
    ASSUME Bounded, NEW p \in Procs, Others(p), Calm(p), counter' = counter,
           \A k \in Keys : inUse'[k] \in {inUse[k], None}
    PROVE  \A r \in Refs : CountFor(r)'
<1> TAKE r \in Refs
<1>1. r # None /\ \A k \in Keys : inUse'[k] = r => inUse[k] = r
  BY LockAssumption, Zenon
<1>2. ASSUME NEW A \in SUBSET Procs, NEW B \in SUBSET Procs, Tally(p, r, A, B)
      PROVE  Tally(p, r, A, B)'
  BY <1>1, <1>2, Zenon DEF Tally, Calm
<1> QED BY <1>1, <1>2, CountKeeps, Zenon DEF Bounded

\* A step that leaves the division of the readers as it is.
LEMMA HeldKeeps ==
    ASSUME Bounded, NEW p \in Procs, Others(p),
           \A m \in Mutexes : held'[m] = held[m] \/ held'[m] \in {-1, 0},
           mode[p] = "r" /\ (fatal \/ pc[p] \in In) => mode'[p] = "r" /\ (fatal' \/ pc'[p] \in In),
           fatal => fatal'
    PROVE  HeldOK'
<1>1. PICK f \in [Procs -> Mutexes \cup {None}] : Divides(f)
  BY Zenon DEF Bounded, HeldOK
<1>2. ASSUME NEW q \in Procs, f[q] # None PROVE mode'[q] = "r" /\ (fatal' \/ pc'[q] \in In)
  BY <1>1, <1>2, Zenon DEF Divides, Others
<1>3. ASSUME NEW m \in Mutexes PROVE held'[m] \in -1..Cardinality(Readers(f, m))
  <2>1. Readers(f, m) \in SUBSET Procs
    BY Zenon DEF Readers
  <2>2. PICK c \in Nat : c = Cardinality(Readers(f, m))
    BY <2>1, Sizes, Zenon
  <2>3. held[m] \in -1..c
    BY <1>1, <1>3, <2>2, Zenon DEF Divides
  <2>4. held'[m] = held[m] \/ held'[m] \in {-1, 0}
    BY <1>3, Zenon
  <2> QED BY ONLY <2>2, <2>3, <2>4
<1> QED BY <1>1, <1>2, <1>3, Zenon DEF HeldOK, Divides, Readers

\* A step that makes no refCounter.
LEMMA LiveKeeps ==
    ASSUME Bounded, NEW p \in Procs, Others(p), mutex' = mutex, Has(p)',
           \A k \in Keys : inUse'[k] \in {inUse[k], None}
    PROVE  Live'
<1>1. Live
  BY Zenon DEF Bounded
<1>2. ASSUME NEW q \in Procs, q # p PROVE Has(q)'
  BY <1>1, <1>2, Zenon DEF Live, Has, Others
<1>3. \A q \in Procs : Has(q)'
  BY <1>2, Zenon
<1>4. \A k, l \in Keys : inUse'[k] = inUse'[l] /\ inUse'[k] # None => k = l
  BY <1>1, Zenon DEF Live
<1>5. \A k \in Keys : inUse'[k] # None => mutex'[inUse'[k]] \in Mutexes
  BY <1>1, Zenon DEF Live
<1> QED BY <1>3, <1>4, <1>5, Zenon DEF Live

\* The calls that only move on, take a mutex from the pool or put one back.
LEMMA MovesBounded ==
    ASSUME Bounded, NEW p \in Procs,
           Call(p) \/ PoolGet(p) \/ Leave(p) \/ Test(p) \/ PoolPut(p) \/ DeleteKey(p),
           raced' \in BOOLEAN
    PROVE  Bounded'
<1>0. Plain /\ Has(p) /\ "r" # "w"
  BY Zenon DEF Bounded, Live
<1>f. ~fatal /\ fatal' = fatal /\ counter' = counter /\ mutex' = mutex
  BY Zenon DEF Call, PoolGet, Leave, Test, PoolPut, DeleteKey, At
<1> DEFINE Goal ==
        /\ Others(p) /\ Calm(p) /\ Has(p)'
        /\ inUse' \in [Keys -> Refs \cup {None}] /\ \A k \in Keys : inUse'[k] \in {inUse[k], None}
        /\ pool' \in [Mutexes -> 0..MaxCopies] /\ held' \in [Mutexes -> Int]
        /\ \A m \in Mutexes : held'[m] = held[m] \/ held'[m] \in {-1, 0}
        /\ pc[p] \in In => pc'[p] \in In /\ mode'[p] = mode[p]
<1>1. ASSUME Call(p) PROVE Goal
  <2>0. PICK k \in KeysOf[p], w \in Modes :
            key' = [key EXCEPT ![p] = k] /\ mode' = [mode EXCEPT ![p] = w]
    BY Zenon, <1>1 DEF Call
  <2>1. k \in Keys /\ w \in {"w", "r"}
    BY LockAssumption, Zenon
  <2>2. Others(p) /\ pc'[p] = "get" /\ key'[p] \in Keys /\ pc[p] = "idle" /\ ref' = ref
        /\ UNCHANGED <<inUse, pool, held>>
    BY <1>0, <1>1, <2>0, <2>1, Zenon DEF Call, At, Goto, Plain, PCs, Others
  <2>3. Calm(p) /\ Has(p)' /\ pc[p] \notin In
    BY <1>0, <1>f, <2>2, Zenon DEF Calm, Has, WithRef, Through, In
  <2> QED BY <1>0, <2>2, <2>3, Zenon DEF Plain
<1>2. ASSUME PoolGet(p) PROVE Goal
  <2>0. PICK m \in Mutexes :
            /\ got' = [got EXCEPT ![p] = m]
            /\ \/ pool[m] > 0 /\ pool' = [pool EXCEPT ![m] = @ - 1] /\ held' = held
               \/ pool' = pool /\ held' = [held EXCEPT ![m] = 0]
    BY <1>2, Zenon DEF PoolGet
  <2>1. Others(p) /\ got'[p] = m /\ UNCHANGED <<inUse, key, mode, ref>>
        /\ \/ pc[p] = "get" /\ pc'[p] = "store"
           \/ pc[p] = "unget" /\ pc'[p] = "unstore"
    BY <1>0, <1>2, <2>0, ZenonT(60) DEF PoolGet, At, Goto, Plain, PCs, Others
  <2>2. Calm(p) /\ Has(p)' /\ (pc[p] \in In => pc'[p] \in In)
    BY <1>0, <1>f, <2>1, Zenon DEF Calm, Has, WithRef, Through, In
  <2>3. pool' \in [Mutexes -> 0..MaxCopies]
    BY <1>0, <2>0, LockAssumption DEF Plain
  <2>4. held' \in [Mutexes -> Int] /\ \A n \in Mutexes : held'[n] = held[n] \/ held'[n] \in {-1, 0}
    BY <1>0, <2>0 DEF Plain
  <2> QED BY <1>0, <2>1, <2>2, <2>3, <2>4, Zenon DEF Plain
<1>3. ASSUME Leave(p) PROVE Goal
  <2>1. Others(p) /\ pc[p] = "critical" /\ pc'[p] = "unget"
        /\ UNCHANGED <<inUse, pool, held, key, mode, got, ref>>
    BY <1>0, <1>3, Zenon DEF Leave, At, Goto, Plain, PCs, Others
  <2>2. Calm(p) /\ Has(p)' /\ pc'[p] \in In
    BY <1>0, <1>f, <2>1, Zenon DEF Calm, Has, WithRef, Through, In
  <2> QED BY <1>0, <2>1, <2>2, Zenon DEF Plain
<1>4. ASSUME Test(p) PROVE Goal
  <2>1. Others(p) /\ pc[p] = "test" /\ UNCHANGED <<inUse, pool, held, mode, got>>
        /\ \/ pc'[p] = "put" /\ key' = key /\ ref' = ref
           \/ pc'[p] = "idle" /\ key'[p] = None /\ ref'[p] = None
    BY <1>0, <1>4, ZenonT(60) DEF Test, At, Goto, Plain, PCs, Others
  <2>2. Calm(p) /\ Has(p)' /\ pc[p] \notin In
    BY <1>0, <1>f, <2>1, Zenon DEF Calm, Has, WithRef, Through, In
  <2> QED BY <1>0, <2>1, <2>2, Zenon DEF Plain
<1>5. ASSUME PoolPut(p) PROVE Goal
  <2>1. Others(p) /\ pc[p] = "put" /\ pc'[p] = "delete"
        /\ UNCHANGED <<inUse, held, key, mode, got, ref>>
    BY <1>0, <1>5, Zenon DEF PoolPut, At, Goto, Plain, PCs, Others
  <2>2. Calm(p) /\ Has(p)' /\ pc[p] \notin In
    BY <1>0, <1>f, <2>1, Zenon DEF Calm, Has, WithRef, Through, In
  <2>3. PICK m \in Mutexes : m = mutex[ref[p]]
    BY <1>0, <2>1, Zenon DEF Has, WithRef
  <2>4. pool' = IF pool[m] < MaxCopies THEN [pool EXCEPT ![m] = @ + 1] ELSE pool
    BY <1>5, <2>3, Zenon DEF PoolPut
  <2>5. pool' \in [Mutexes -> 0..MaxCopies]
    BY <1>0, <2>4, LockAssumption DEF Plain
  <2> QED BY <1>0, <2>1, <2>2, <2>5, Zenon DEF Plain
<1>6. ASSUME DeleteKey(p) PROVE Goal
  <2>1. Others(p) /\ pc[p] = "delete" /\ pc'[p] = "idle" /\ key'[p] = None /\ ref'[p] = None
        /\ UNCHANGED <<pool, held, mode, got>> /\ inUse' = [inUse EXCEPT ![key[p]] = None]
    BY <1>0, <1>6, Zenon DEF DeleteKey, At, Goto, Plain, PCs, Others
  <2>2. Calm(p) /\ Has(p)' /\ pc[p] \notin In
    BY <1>0, <1>f, <2>1, Zenon DEF Calm, Has, WithRef, Through, In
  <2>3. inUse' \in [Keys -> Refs \cup {None}] /\ \A k \in Keys : inUse'[k] \in {inUse[k], None}
    BY <1>0, <2>1, Zenon DEF Plain
  <2> QED BY <1>0, <2>1, <2>2, <2>3, Zenon DEF Plain
<1>7. Goal
  BY <1>1, <1>2, <1>3, <1>4, <1>5, <1>6, Zenon
<1>8. Plain'
  BY <1>0, <1>f, <1>7, Zenon DEF Plain, Others
<1>9. Live'
  BY <1>f, <1>7, LiveKeeps, Zenon
<1>10. \A r \in Refs : CountFor(r)'
  BY <1>f, <1>7, CalmKeeps, Zenon
<1>11. HeldOK'
  BY <1>f, <1>7, HeldKeeps, Zenon
<1> QED BY <1>8, <1>9, <1>10, <1>11, Zenon DEF Bounded

\* The lookup finds the refCounter of the key, or makes one that nobody has counted on.
LEMMA LookupBounded ==
    ASSUME Bounded, NEW p \in Procs, LoadOrStore(p), raced' \in BOOLEAN
    PROVE  Bounded'
<1> DEFINE k == key[p]
<1>0. Plain /\ Has(p) /\ Live
  BY Zenon DEF Bounded, Live
<1>1. /\ UNCHANGED <<pool, held, key, mode, fatal>> /\ got' = [got EXCEPT ![p] = None]
      /\ pc[p] \in {"store", "unstore"} /\ ~fatal
      /\ pc' = [pc EXCEPT ![p] = IF pc[p] = "store" THEN "add" ELSE "unlock"]
  BY Zenon DEF LoadOrStore, At, Goto
<1>2. k \in Keys /\ got[p] \in Mutexes /\ ref[p] = None
  BY <1>0, <1>1, Zenon DEF Has, WithRef
<1>3. PICK r \in Refs :
          /\ ref' = [ref EXCEPT ![p] = r]
          /\ \/ r = inUse[k] /\ UNCHANGED <<inUse, counter, mutex>>
             \/ /\ inUse[k] = None /\ r \notin LiveRefs
                /\ inUse' = [inUse EXCEPT ![k] = r] /\ counter' = [counter EXCEPT ![r] = 0]
                /\ mutex' = [mutex EXCEPT ![r] = got[p]]
  <2>1. CASE inUse[k] # None
    BY <1>0, <1>2, <2>1, Zenon DEF LoadOrStore, Plain
  <2>2. CASE inUse[k] = None
    <3>1. PICK r : r = CHOOSE x \in Refs : x \notin LiveRefs
      BY Zenon
    <3>2. r \in Refs /\ r \notin LiveRefs
      BY <2>2, <3>1, Zenon DEF LoadOrStore
    <3> QED BY <2>2, <3>1, <3>2, Zenon DEF LoadOrStore
  <2> QED BY <2>1, <2>2, Zenon
<1>r. r # None
  BY LockAssumption, Zenon
<1>4. /\ Others(p) /\ ref'[p] = r /\ key'[p] = k
      /\ \/ pc[p] = "store" /\ pc'[p] = "add"
         \/ pc[p] = "unstore" /\ pc'[p] = "unlock"
  BY <1>0, <1>1, <1>3, Zenon DEF Plain, Others, PCs
<1>5. /\ inUse' \in [Keys -> Refs \cup {None}] /\ inUse'[k] = r
      /\ \A l \in Keys : l # k => inUse'[l] = inUse[l]
      /\ counter' \in [Refs -> Int] /\ \A x \in Refs : x # r => counter'[x] = counter[x]
      /\ mutex' \in [Refs -> Mutexes \cup {None}] /\ mutex'[r] \in Mutexes
      /\ \A x \in Refs : x # r => mutex'[x] = mutex[x]
  <2>1. CASE r = inUse[k] /\ UNCHANGED <<inUse, counter, mutex>>
    BY <1>0, <1>2, <1>r, <2>1, Zenon DEF Plain, Live
  <2>2. CASE /\ inUse' = [inUse EXCEPT ![k] = r] /\ counter' = [counter EXCEPT ![r] = 0]
             /\ mutex' = [mutex EXCEPT ![r] = got[p]]
    BY <1>0, <1>2, <2>2 DEF Plain
  <2> QED BY <1>3, <2>1, <2>2, Zenon
<1>6. \A l \in Keys : l # k => inUse[l] # r
  <2>1. CASE r = inUse[k]
    BY <1>0, <1>2, <1>r, <2>1, Zenon DEF Live
  <2>2. CASE r \notin LiveRefs
    BY <2>2, Zenon DEF LiveRefs
  <2> QED BY <1>3, <2>1, <2>2, Zenon
<1>7. Plain'
  BY <1>0, <1>1, <1>4, <1>5, Zenon DEF Plain, Others
<1>8. Live'
  <2>1. \A a, b \in Keys : inUse'[a] = inUse'[b] /\ inUse'[a] # None => a = b
    <3>1. \A a, b \in Keys : inUse[a] = inUse[b] /\ inUse[a] # None => a = b
      BY <1>0, Zenon DEF Live
    <3> HIDE DEF k
    <3> QED BY <1>2, <1>5, <1>6, <3>1
  <2>2. ASSUME NEW a \in Keys, inUse'[a] # None PROVE mutex'[inUse'[a]] \in Mutexes
    <3>1. CASE a = k
      BY <3>1, <1>5, Zenon
    <3>2. CASE a # k
      <4>1. inUse'[a] = inUse[a] /\ inUse[a] # r /\ inUse[a] \in Refs
        BY <2>2, <3>2, <1>0, <1>5, <1>6, ZenonT(60) DEF Plain
      <4>2. mutex[inUse[a]] \in Mutexes
        BY <2>2, <4>1, <1>0, Zenon DEF Live
      <4> QED BY <1>5, <4>1, <4>2, Zenon
    <3> QED BY <3>1, <3>2, Zenon
  <2>3. ASSUME NEW q \in Procs PROVE Has(q)'
    <3>1. CASE q = p
      BY <3>1, <1>2, <1>4, <1>5, Zenon DEF Has, WithRef
    <3>2. CASE q # p
      <4>1. pc'[q] = pc[q] /\ key'[q] = key[q] /\ ref'[q] = ref[q] /\ got'[q] = got[q] /\ Has(q)
        BY <2>3, <3>2, <1>0, <1>4, Zenon DEF Others, Live
      <4>2. pc[q] \in WithRef => mutex'[ref[q]] \in Mutexes
        BY <4>1, <1>5, Zenon DEF Has
      <4> QED BY <4>1, <4>2, Zenon DEF Has
    <3> QED BY <3>1, <3>2, Zenon
  <2> QED BY <2>1, <2>2, <2>3, Zenon DEF Live
<1>9. ASSUME NEW x \in Refs, x # r PROVE CountFor(x)'
  <2>1. \A l \in Keys : inUse'[l] = x => inUse[l] = x /\ l # k
    BY <1>2, <1>5, <1>9, Zenon
  <2>2. ASSUME NEW A \in SUBSET Procs, NEW B \in SUBSET Procs, Tally(p, x, A, B)
        PROVE  Tally(p, x, A, B)'
    BY <1>4, <1>9, <2>1, <2>2, Zenon DEF Tally
  <2> QED BY <1>4, <1>5, <1>9, <2>1, <2>2, CountKeeps, Zenon DEF Bounded
<1>10. CountFor(r)'
  <2>1. CASE r = inUse[k] /\ UNCHANGED <<inUse, counter, mutex>>
    <3>1. ASSUME NEW A \in SUBSET Procs, NEW B \in SUBSET Procs, Tally(p, r, A, B)
          PROVE  Tally(p, r, A, B)'
      <4>1. \A l \in Keys : inUse'[l] = r <=> l = k
        BY <1>5, <1>6, <2>1, Zenon
      <4>2. /\ p \in A => pc[p] = "unstore"
            /\ p \in B => pc[p] = "store"
        BY <1>2, <1>4, <2>1, <3>1, Zenon DEF Tally, Through
      <4>3. /\ pc'[p] = "add" => p \notin A
            /\ pc'[p] \in {"unlock", "sub"} => p \notin B
            /\ p \in A => pc'[p] \in Through
            /\ p \in B => pc'[p] \notin Through
        BY <1>4, <4>2, Zenon DEF Through
      <4> QED BY <1>4, <4>1, <4>3, Zenon DEF Tally
    <3> QED BY <1>4, <2>1, <3>1, CountKeeps, Zenon DEF Bounded
  <2>2. CASE r \notin LiveRefs /\ counter' = [counter EXCEPT ![r] = 0]
    <3>1. {} \in SUBSET Procs /\ {} \cap {} = {} /\ Cardinality({}) = 0
      BY FS_EmptySet, Zenon
    <3>2. counter'[r] = Cardinality({}) - Cardinality({})
      BY <1>0, <2>2, <3>1 DEF Plain
    <3>3. ASSUME NEW q \in Procs PROVE Tally(q, r, {}, {})'
      <4>1. \A l \in Keys : inUse'[l] = r => l = k
        BY <1>5, <1>6, Zenon
      <4>2. ref'[q] = r => q = p
        BY <1>4, <2>2, <3>3, ZenonT(60) DEF Others, LiveRefs
      <4> QED BY <1>4, <4>1, <4>2, Zenon DEF Tally
    <3> QED BY <3>1, <3>2, <3>3, Zenon DEF CountFor
  <2> QED BY <1>3, <2>1, <2>2, Zenon
<1>11. HeldOK'
  <2>1. pc[p] \in In => pc'[p] \in In
    BY <1>4, Zenon DEF In
  <2> QED BY <1>1, <1>4, <2>1, HeldKeeps, Zenon
<1> QED BY <1>7, <1>8, <1>9, <1>10, <1>11, Zenon DEF Bounded

\* Lock counts a call, Unlock discounts one: the tally of the goroutine's refCounter.
LEMMA CountsBounded ==
    ASSUME Bounded, NEW p \in Procs, Increment(p) \/ Decrement(p), raced' \in BOOLEAN
    PROVE  Bounded'
<1>0. Plain /\ Has(p) /\ Live
  BY Zenon DEF Bounded, Live
<1>1. PICK r \in Refs : r = ref[p] /\ mutex[r] \in Mutexes
  BY <1>0, Zenon DEF Increment, Decrement, At, Has, WithRef
<1>2. /\ UNCHANGED <<inUse, pool, mutex, held, key, mode, got, ref, fatal>> /\ ~fatal
      /\ Others(p)
      /\ \/ Increment(p) /\ pc[p] = "add" /\ pc'[p] = "lock"
         \/ Decrement(p) /\ pc[p] = "sub" /\ pc'[p] = "test"
  BY <1>0, ZenonT(60) DEF Increment, Decrement, At, Goto, Plain, PCs, Others
<1>3. \/ Increment(p) /\ counter' = [counter EXCEPT ![r] = @ + 1]
      \/ Decrement(p) /\ counter' = [counter EXCEPT ![r] = @ - 1]
  BY <1>1, Zenon DEF Increment, Decrement
<1>4. /\ counter' \in [Refs -> Int] /\ \A x \in Refs : x # r => counter'[x] = counter[x]
      /\ \/ Increment(p) /\ counter'[r] = counter[r] + 1
         \/ Decrement(p) /\ counter'[r] = counter[r] - 1
  BY <1>0, <1>3 DEF Plain
<1>5. Plain'
  BY <1>0, <1>2, <1>4, Zenon DEF Plain, Others
<1>6. Has(p)'
  BY <1>0, <1>1, <1>2, Zenon DEF Has, WithRef
<1>7. Live'
  BY <1>2, <1>6, LiveKeeps, Zenon
<1>8. ASSUME NEW x \in Refs, x # r PROVE CountFor(x)'
  <2>1. ASSUME NEW A \in SUBSET Procs, NEW B \in SUBSET Procs, Tally(p, x, A, B)
        PROVE  Tally(p, x, A, B)'
    BY <1>1, <1>2, <1>8, <2>1, Zenon DEF Tally, Through
  <2> QED BY <1>2, <1>4, <1>8, <2>1, CountKeeps, Zenon DEF Bounded
<1>9. CountFor(r)'
  <2>1. PICK A, B \in SUBSET Procs :
            /\ A \cap B = {} /\ counter[r] = Cardinality(A) - Cardinality(B)
            /\ \A q \in Procs : Tally(q, r, A, B)
    BY Zenon DEF Bounded, CountFor
  <2>n. Cardinality(A) \in Nat /\ Cardinality(B) \in Nat
    BY Sizes, Zenon
  <2>2. ASSUME NEW C \in SUBSET Procs, NEW D \in SUBSET Procs,
               \A q \in Procs \ {p} : (q \in C <=> q \in A) /\ (q \in D <=> q \in B),
               Tally(p, r, C, D)'
        PROVE  \A q \in Procs : Tally(q, r, C, D)'
    <3> SUFFICES ASSUME NEW q \in Procs, q # p PROVE Tally(q, r, C, D)'
      BY <2>2, Zenon
    <3>1. Tally(q, r, A, B) /\ (q \in C <=> q \in A) /\ (q \in D <=> q \in B)
      BY <2>1, <2>2, Zenon
    <3> QED BY <1>2, <3>1, Zenon DEF Tally, Others
  <2>3. CASE Increment(p)
    <3>0. pc[p] = "add" /\ pc'[p] = "lock" /\ counter'[r] = counter[r] + 1
      BY <1>2, <1>4, <2>3, Zenon DEF Increment, Decrement, At
    <3>1. p \notin A /\ \A l \in Keys : inUse[l] = r => key[p] = l
      BY <1>1, <2>1, <3>0, Zenon DEF Tally
    <3>2. CASE p \in B
      <4>1. Tally(p, r, A, B \ {p})'
        BY <1>1, <1>2, <3>0, <3>1, Zenon DEF Tally
      <4>2. \A q \in Procs : Tally(q, r, A, B \ {p})'
        BY <2>2, <4>1, ZenonT(60)
      <4>3. counter'[r] = Cardinality(A) - Cardinality(B \ {p})
        BY ONLY <1>4, <2>1, <2>n, <3>0, <3>2, OneMore, SMTT(30)
      <4> QED BY <2>1, <4>2, <4>3, Zenon DEF CountFor
    <3>3. CASE p \notin B
      <4>1. Tally(p, r, A \cup {p}, B)'
        BY <1>1, <1>2, <3>0, <3>1, <3>3, Zenon DEF Tally, Through
      <4>2. \A q \in Procs : Tally(q, r, A \cup {p}, B)'
        BY <2>2, <4>1, Zenon
      <4>3. counter'[r] = Cardinality(A \cup {p}) - Cardinality(B)
        BY ONLY <1>4, <2>1, <2>n, <3>0, <3>1, OneMore
      <4>4. (A \cup {p}) \cap B = {} /\ A \cup {p} \in SUBSET Procs
        BY <2>1, <3>3, Zenon
      <4> QED BY <4>2, <4>3, <4>4, Zenon DEF CountFor
    <3> QED BY <3>2, <3>3, Zenon
  <2>4. CASE Decrement(p)
    <3>0. pc[p] = "sub" /\ pc'[p] = "test" /\ counter'[r] = counter[r] - 1
      BY <1>2, <1>4, <2>4, Zenon DEF Increment, Decrement, At
    <3>1. p \notin B /\ \A l \in Keys : inUse[l] = r => key[p] = l
      BY <1>1, <2>1, <3>0, Zenon DEF Tally
    <3>2. CASE p \in A
      <4>1. Tally(p, r, A \ {p}, B)'
        BY <1>1, <1>2, <3>0, <3>1, Zenon DEF Tally
      <4>2. \A q \in Procs : Tally(q, r, A \ {p}, B)'
        BY <2>2, <4>1, Zenon
      <4>3. counter'[r] = Cardinality(A \ {p}) - Cardinality(B)
        BY ONLY <1>4, <2>1, <2>n, <3>0, <3>2, OneMore
      <4> QED BY <2>1, <4>2, <4>3, Zenon DEF CountFor
    <3>3. CASE p \notin A
      <4>1. Tally(p, r, A, B \cup {p})'
        BY <1>1, <1>2, <3>0, <3>1, <3>3, Zenon DEF Tally, Through
      <4>2. \A q \in Procs : Tally(q, r, A, B \cup {p})'
        BY <2>2, <4>1, Zenon
      <4>3. counter'[r] = Cardinality(A) - Cardinality(B \cup {p})
        BY ONLY <1>4, <2>1, <2>n, <3>0, <3>1, OneMore
      <4>4. A \cap (B \cup {p}) = {} /\ B \cup {p} \in SUBSET Procs
        BY <2>1, <3>3, Zenon
      <4> QED BY <4>2, <4>3, <4>4, Zenon DEF CountFor
    <3> QED BY <3>2, <3>3, Zenon
  <2> QED BY <2>3, <2>4, Zenon
<1>10. HeldOK'
  <2>1. pc[p] \notin In
    BY <1>2, Zenon DEF In
  <2> QED BY <1>2, <2>1, HeldKeeps, Zenon
<1> QED BY <1>5, <1>7, <1>8, <1>9, <1>10, Zenon DEF Bounded

\* A step on a mutex, but for the division of the readers.
LEMMA MutexKeeps ==
    ASSUME Bounded, NEW p \in Procs, Others(p), Calm(p), Has(p)',
           UNCHANGED <<inUse, pool, counter, mutex>>,
           held' \in [Mutexes -> Int], fatal' \in BOOLEAN, raced' \in BOOLEAN, HeldOK'
    PROVE  Bounded'
<1>0. Plain /\ Live
  BY Zenon DEF Bounded
<1>1. Plain'
  BY <1>0, Zenon DEF Plain, Others
<1>2. Live'
  BY LiveKeeps, Zenon
<1>3. \A r \in Refs : CountFor(r)'
  BY CalmKeeps, Zenon
<1> QED BY <1>1, <1>2, <1>3, Zenon DEF Bounded

\* Lock or RLock gets the mutex: a reader is given to it in the division.
LEMMA AcquireBounded ==
    ASSUME Bounded, NEW p \in Procs, Acquire(p), raced' \in BOOLEAN
    PROVE  Bounded'
<1>0. Plain /\ Has(p)
  BY Zenon DEF Bounded, Live
<1>1. PICK m \in Mutexes : m = mutex[ref[p]]
  BY <1>0, Zenon DEF Acquire, At, Has, WithRef
<1>2. /\ UNCHANGED <<inUse, pool, counter, mutex, key, mode, got, fatal>> /\ ~fatal
      /\ Others(p) /\ pc[p] = "lock" /\ pc'[p] = "critical" /\ ref'[p] = None
  BY <1>0, Zenon DEF Acquire, At, Goto, Plain, PCs, Others
<1>3. \/ mode[p] = "w" /\ held' = [held EXCEPT ![m] = -1]
      \/ mode[p] = "r" /\ held[m] >= 0 /\ held' = [held EXCEPT ![m] = @ + 1]
  BY <1>1, Zenon DEF Acquire
<1>4. held' \in [Mutexes -> Int]
  BY <1>0, <1>3 DEF Plain
<1>5. Calm(p) /\ Has(p)' /\ pc[p] \notin In /\ pc'[p] \in In
  BY <1>0, <1>2, Zenon DEF Calm, Has, WithRef, Through, In
<1>6. HeldOK'
  <2>1. CASE mode[p] = "w" /\ held' = [held EXCEPT ![m] = -1]
    <3>1. \A n \in Mutexes : held'[n] = held[n] \/ held'[n] \in {-1, 0}
      BY <1>0, <2>1 DEF Plain
    <3> QED BY <1>2, <1>5, <3>1, HeldKeeps, Zenon
  <2>2. CASE mode[p] = "r" /\ held[m] >= 0 /\ held' = [held EXCEPT ![m] = @ + 1]
    <3>1. PICK f \in [Procs -> Mutexes \cup {None}] : Divides(f)
      BY Zenon DEF Bounded, HeldOK
    <3>2. f[p] = None /\ m # None
      BY <1>2, <1>5, <3>1, LockAssumption, Zenon DEF Divides
    <3>3. PICK g : g = [f EXCEPT ![p] = m]
      BY Zenon
    <3>4. g \in [Procs -> Mutexes \cup {None}] /\ g[p] = m /\ \A q \in Procs : q # p => g[q] = f[q]
      BY <3>1, <3>3, Zenon
    <3>5. \A q \in Procs : g[q] # None => mode'[q] = "r" /\ (fatal' \/ pc'[q] \in In)
      BY <1>2, <1>5, <2>2, <3>1, <3>4, Zenon DEF Divides, Others
    <3>6. ASSUME NEW n \in Mutexes PROVE held'[n] \in -1..Cardinality(Readers(g, n))
      <4>0. Readers(f, n) \in SUBSET Procs /\ held[n] \in -1..Cardinality(Readers(f, n))
        BY <3>1, <3>6, Zenon DEF Divides, Readers
      <4>1. CASE n = m
        <5>1. Readers(g, n) = Readers(f, n) \cup {p} /\ p \notin Readers(f, n)
          BY <3>2, <3>4, <4>1, Zenon DEF Readers
        <5>2. PICK c \in Nat : c = Cardinality(Readers(f, n))
          BY <4>0, Sizes, Zenon
        <5>3. Cardinality(Readers(g, n)) = c + 1
          BY <4>0, <5>1, <5>2, OneMore, Zenon
        <5>4. held'[n] = held[n] + 1
          BY <1>0, <2>2, <4>1, Zenon DEF Plain
        <5> QED BY ONLY <4>0, <5>2, <5>3, <5>4
      <4>2. CASE n # m
        <5>1. Readers(g, n) = Readers(f, n)
          BY <3>2, <3>4, <3>6, <4>2, LockAssumption, Zenon DEF Readers
        <5>2. held'[n] = held[n]
          BY <1>0, <2>2, <3>6, <4>2, Zenon DEF Plain
        <5> QED BY <4>0, <5>1, <5>2, Zenon
      <4> QED BY <4>1, <4>2, Zenon
    <3> QED BY <3>4, <3>5, <3>6, Zenon DEF HeldOK, Divides, Readers
  <2> QED BY <1>3, <2>1, <2>2, Zenon
<1> QED BY <1>0, <1>2, <1>4, <1>5, <1>6, MutexKeeps, Zenon DEF Plain

\* Reader p leaves and mutex m has one reader less: if p was given another mutex, a reader
\* of m is given that one in its place.
LEMMA Swap ==
    ASSUME NEW f \in [Procs -> Mutexes \cup {None}], NEW p \in Procs, NEW m \in Mutexes,
           Readers(f, m) # {}, f[p] # None
    PROVE  \E g \in [Procs -> Mutexes \cup {None}] :
               /\ g[p] = None /\ \A q \in Procs : g[q] # None => f[q] # None
               /\ Cardinality(Readers(g, m)) = Cardinality(Readers(f, m)) - 1
               /\ \A n \in Mutexes : n # m => Cardinality(Readers(g, n)) = Cardinality(Readers(f, n))
<1>0. \A n : Readers(f, n) \in SUBSET Procs
  BY Zenon DEF Readers
<1>n. None \notin Mutexes
  BY LockAssumption, Zenon
<1>1. CASE f[p] = m
  <2>1. PICK g : g = [f EXCEPT ![p] = None]
    BY Zenon
  <2>2. g \in [Procs -> Mutexes \cup {None}] /\ g[p] = None /\ \A q \in Procs : q # p => g[q] = f[q]
    BY <2>1, Zenon
  <2>3. Readers(g, m) = Readers(f, m) \ {p} /\ p \in Readers(f, m)
    BY <1>1, <1>n, <2>2 DEF Readers
  <2>4. \A n \in Mutexes : n # m => Readers(g, n) = Readers(f, n)
    BY <1>1, <1>n, <2>2, Zenon DEF Readers
  <2>5. Cardinality(Readers(g, m)) = Cardinality(Readers(f, m)) - 1
    BY <1>0, <2>3, OneMore, Zenon
  <2>6. \A q \in Procs : g[q] # None => f[q] # None
    BY <2>2, Zenon
  <2> QED BY <2>2, <2>4, <2>5, <2>6, Zenon
<1>2. CASE f[p] # m
  <2>1. PICK q \in Procs : f[q] = m
    BY Zenon DEF Readers
  <2>2. PICK n \in Mutexes : n = f[p]
    BY Zenon
  <2>3. p # q /\ n # m
    BY <1>2, <2>1, <2>2, Zenon
  <2>4. PICK g : g = [f EXCEPT ![q] = n, ![p] = None]
    BY Zenon
  <2>5. /\ g \in [Procs -> Mutexes \cup {None}] /\ g[p] = None /\ g[q] = n
        /\ \A x \in Procs : x # p /\ x # q => g[x] = f[x]
    BY <2>3, <2>4
  <2>6. Readers(g, m) = Readers(f, m) \ {q} /\ q \in Readers(f, m)
    BY <1>2, <1>n, <2>1, <2>3, <2>5, Zenon DEF Readers
  <2>7. Readers(g, n) = (Readers(f, n) \ {p}) \cup {q}
    BY <1>n, <2>1, <2>2, <2>3, <2>5, Zenon DEF Readers
  <2>8. p \in Readers(f, n) /\ q \notin Readers(f, n) \ {p} /\ Readers(f, n) \ {p} \in SUBSET Procs
    BY <1>0, <2>1, <2>2, <2>3, Zenon DEF Readers
  <2>9. Cardinality(Readers(g, n)) = Cardinality(Readers(f, n))
    <3>1. Cardinality(Readers(f, n) \ {p}) = Cardinality(Readers(f, n)) - 1
      BY <1>0, <2>8, OneMore, Zenon
    <3>2. Cardinality(Readers(g, n)) = Cardinality(Readers(f, n) \ {p}) + 1
      BY <2>7, <2>8, OneMore, Zenon
    <3>3. Cardinality(Readers(f, n)) \in Nat
      BY <1>0, Sizes, Zenon
    <3> QED BY ONLY <3>1, <3>2, <3>3
  <2>10. \A x \in Mutexes : x # m /\ x # n => Readers(g, x) = Readers(f, x)
    BY <1>n, <2>1, <2>2, <2>5, Zenon DEF Readers
  <2>11. Cardinality(Readers(g, m)) = Cardinality(Readers(f, m)) - 1
    BY <1>0, <2>6, OneMore, Zenon
  <2>12. \A x \in Procs : g[x] # None => f[x] # None
    BY <1>n, <2>1, <2>5, Zenon
  <2> QED BY <2>5, <2>9, <2>10, <2>11, <2>12, Zenon
<1> QED BY <1>1, <1>2, Zenon

\* Unlock or RUnlock: after a race a reader may release a mutex that was locked by
\* another one, which then stands for it in the division.
LEMMA ReleaseBounded ==
    ASSUME Bounded, NEW p \in Procs, Release(p), raced' \in BOOLEAN
    PROVE  Bounded'
<1>0. Plain /\ Has(p)
  BY Zenon DEF Bounded, Live
<1>1. PICK m \in Mutexes : m = mutex[ref[p]]
  BY <1>0, Zenon DEF Release, At, Has, WithRef
<1>2. /\ UNCHANGED <<inUse, pool, counter, mutex, key, mode, got, ref>> /\ ~fatal
      /\ Others(p) /\ pc[p] = "unlock" /\ pc'[p] = "sub"
  BY <1>0, Zenon DEF Release, At, Goto, Plain, PCs, Others
<1>3. /\ fatal' \in BOOLEAN
      /\ \/ fatal' /\ held' = held
         \/ mode[p] = "w" /\ held' = [held EXCEPT ![m] = 0]
         \/ mode[p] = "r" /\ ~fatal' /\ held[m] > 0 /\ held' = [held EXCEPT ![m] = @ - 1]
  <2> DEFINE locked == IF mode[p] = "w" THEN held[m] = -1 ELSE held[m] > 0
  <2>1. /\ fatal' = ~locked
        /\ held' = IF ~locked THEN held
                   ELSE [held EXCEPT ![m] = IF mode[p] = "w" THEN 0 ELSE @ - 1]
    BY <1>1, Zenon DEF Release
  <2>2. mode[p] \in {"w", "r"}
    BY <1>0, Zenon DEF Plain
  <2>3. CASE ~locked
    <3> HIDE DEF locked
    <3> QED BY <2>1, <2>3, Zenon
  <2>4. CASE locked /\ mode[p] = "w"
    <3>1. fatal' \in BOOLEAN
      BY <2>1, Zenon
    <3>2. held' = [held EXCEPT ![m] = 0]
      BY <2>1, <2>4, Zenon
    <3> QED BY <2>4, <3>1, <3>2, Zenon
  <2>5. CASE locked /\ mode[p] = "r"
    <3>1. fatal' = FALSE
      BY <2>1, <2>5, Zenon
    <3>2. held[m] > 0
      BY <2>5
    <3>3. held' = [held EXCEPT ![m] = @ - 1]
      BY <2>1, <2>5, "r" # "w", Zenon
    <3> QED BY <2>5, <3>1, <3>2, <3>3, Zenon
  <2> QED BY <2>2, <2>3, <2>4, <2>5, Zenon
<1>4. held' \in [Mutexes -> Int]
  BY <1>0, <1>3 DEF Plain
<1>5. Calm(p) /\ Has(p)'
  BY <1>0, <1>2, Zenon DEF Calm, Has, WithRef, Through
<1>6. HeldOK'
  <2>1. CASE fatal' /\ held' = held
    BY <1>2, <2>1, HeldKeeps, Zenon
  <2>2. CASE mode[p] = "w" /\ held' = [held EXCEPT ![m] = 0]
    <3>1. \A n \in Mutexes : held'[n] = held[n] \/ held'[n] \in {-1, 0}
      BY <1>0, <2>2 DEF Plain
    <3>2. mode[p] # "r"
      BY <2>2
    <3> QED BY <1>2, <3>1, <3>2, HeldKeeps, Zenon
  <2>3. CASE mode[p] = "r" /\ ~fatal' /\ held[m] > 0 /\ held' = [held EXCEPT ![m] = @ - 1]
    <3>1. PICK f \in [Procs -> Mutexes \cup {None}] : Divides(f)
      BY Zenon DEF Bounded, HeldOK
    <3>2. \A n \in Mutexes : /\ Cardinality(Readers(f, n)) \in Nat
                             /\ held[n] \in -1..Cardinality(Readers(f, n))
      <4>1. \A n \in Mutexes : Readers(f, n) \in SUBSET Procs
        BY Zenon DEF Readers
      <4> QED BY <3>1, <4>1, Sizes, Zenon DEF Divides
    <3>3. /\ held'[m] = held[m] - 1 /\ \A n \in Mutexes : n # m => held'[n] = held[n]
      BY <1>0, <2>3, Zenon DEF Plain
    <3>4. PICK g \in [Procs -> Mutexes \cup {None}] :
              /\ g[p] = None /\ \A q \in Procs : g[q] # None => f[q] # None
              /\ Cardinality(Readers(g, m)) \in Nat
              /\ Cardinality(Readers(g, m)) >= Cardinality(Readers(f, m)) - 1
              /\ \A n \in Mutexes : n # m => Cardinality(Readers(g, n)) = Cardinality(Readers(f, n))
      <4>1. CASE f[p] = None
        <5>1. Cardinality(Readers(f, m)) >= Cardinality(Readers(f, m)) - 1
          BY <3>2
        <5> QED BY <3>2, <4>1, <5>1, Zenon
      <4>2. CASE f[p] # None
        <5>1. Readers(f, m) # {}
          <6>1. Cardinality(Readers(f, m)) # 0
            BY <2>3, <3>2
          <6> QED BY <6>1, FS_EmptySet, Zenon
        <5>2. PICK g \in [Procs -> Mutexes \cup {None}] :
                  /\ g[p] = None /\ \A q \in Procs : g[q] # None => f[q] # None
                  /\ Cardinality(Readers(g, m)) = Cardinality(Readers(f, m)) - 1
                  /\ \A n \in Mutexes : n # m => Cardinality(Readers(g, n)) = Cardinality(Readers(f, n))
          BY <3>1, <4>2, <5>1, Swap, Zenon
        <5>3. Readers(g, m) \in SUBSET Procs
          BY Zenon DEF Readers
        <5>4. Cardinality(Readers(g, m)) \in Nat
          BY <5>3, Sizes, Zenon
        <5>5. Cardinality(Readers(g, m)) >= Cardinality(Readers(f, m)) - 1
          BY ONLY <5>2, <5>4
        <5> QED BY <5>2, <5>4, <5>5, Zenon
      <4> QED BY <4>1, <4>2, Zenon
    <3>5. ASSUME NEW q \in Procs, g[q] # None PROVE mode'[q] = "r" /\ (fatal' \/ pc'[q] \in In)
      BY <1>2, <3>1, <3>4, <3>5, Zenon DEF Divides, Others
    <3>6. ASSUME NEW n \in Mutexes PROVE held'[n] \in -1..Cardinality(Readers(g, n))
      <4>1. CASE n = m
        <5>1. held'[n] = held[m] - 1 /\ held[m] \in -1..Cardinality(Readers(f, m)) /\ held[m] > 0
          BY <2>3, <3>2, <3>3, <4>1, Zenon
        <5>2. PICK c \in Nat, d \in Nat : /\ c = Cardinality(Readers(f, m)) /\ d >= c - 1
                                          /\ d = Cardinality(Readers(g, n))
          BY <3>2, <3>4, <4>1, Zenon
        <5> QED BY ONLY <5>1, <5>2
      <4>2. CASE n # m
        BY <3>2, <3>3, <3>4, <3>6, <4>2, Zenon
      <4> QED BY <4>1, <4>2, Zenon
    <3> QED BY <3>4, <3>5, <3>6, Zenon DEF HeldOK, Divides, Readers
  <2> QED BY <1>3, <2>1, <2>2, <2>3, Zenon
<1> QED BY <1>1, <1>2, <1>3, <1>4, <1>5, <1>6, MutexKeeps, Zenon

\* The lock keeps its types, a call that has met the removal of its key included: a
\* counter stays within the number of goroutines on both sides of zero, and a mutex is
\* free, has a writer, or no more readers than there are goroutines.
THEOREM TypeCorrect == Spec => []TypeOK
<1>1. ASSUME Bounded, [Next]_vars PROVE Bounded'
  <2>1. CASE Next
    <3>1. raced' \in BOOLEAN
      BY <2>1, Zenon DEF Next
    <3>2. PICK p \in Procs :
              \/ Call(p) \/ PoolGet(p) \/ LoadOrStore(p) \/ Increment(p) \/ Acquire(p)
              \/ Leave(p) \/ Release(p) \/ Decrement(p) \/ Test(p) \/ PoolPut(p) \/ DeleteKey(p)
      BY <2>1, Zenon DEF Next
    <3>3. CASE Call(p) \/ PoolGet(p) \/ Leave(p) \/ Test(p) \/ PoolPut(p) \/ DeleteKey(p)
      BY <1>1, <3>1, <3>3, MovesBounded, Zenon
    <3>4. CASE LoadOrStore(p)
      BY <1>1, <3>1, <3>4, LookupBounded, Zenon
    <3>5. CASE Increment(p) \/ Decrement(p)
      BY <1>1, <3>1, <3>5, CountsBounded, Zenon
    <3>6. CASE Acquire(p)
      BY <1>1, <3>1, <3>6, AcquireBounded, Zenon
    <3>7. CASE Release(p)
      BY <1>1, <3>1, <3>7, ReleaseBounded, Zenon
    <3> QED BY <3>2, <3>3, <3>4, <3>5, <3>6, <3>7, Zenon
  <2>2. CASE UNCHANGED vars
    <3>1. Plain' /\ Live'
      BY <1>1, <2>2, Zenon DEF vars, Bounded, Plain, Live, Has
    <3>2. ASSUME NEW r \in Refs PROVE CountFor(r)'
      <4>1. UNCHANGED <<inUse, counter, pc, key, ref>> /\ CountFor(r)
        BY <1>1, <2>2, <3>2, Zenon DEF vars, Bounded
      <4>2. ASSUME NEW p \in Procs, NEW A, NEW B, Tally(p, r, A, B) PROVE Tally(p, r, A, B)'
        BY <4>1, <4>2, Zenon DEF Tally
      <4> QED BY <4>1, <4>2, Zenon DEF CountFor
    <3>3. HeldOK'
      BY <1>1, <2>2, Zenon DEF vars, Bounded, HeldOK, Divides, Readers
    <3> QED BY <3>1, <3>2, <3>3, Zenon DEF Bounded
  <2> QED BY <1>1, <2>1, <2>2, Zenon
<1> QED BY <1>1, InitBounded, BoundedTypes, PTL DEF Spec
=============================================================================
