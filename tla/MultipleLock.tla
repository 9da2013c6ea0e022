---------------------------- MODULE MultipleLock ----------------------------
(***************************************************************************)
(* The lock per key of lib/common/lock.go, which Handle (lib/trakt) takes  *)
(* on "player:ratingKey" around the processing of a webhook.               *)
(*                                                                         *)
(* A key in use maps to a refCounter: a count and a mutex from a           *)
(* sync.Pool.  Each step below is one operation on shared memory, so that  *)
(* calls interleave as goroutines do.  RefCounters and mutexes that        *)
(* nothing refers to are garbage and their names are used again, which     *)
(* keeps the state space finite without a bound on the calls.              *)
(***************************************************************************)
EXTENDS Integers, FiniteSets

CONSTANTS Procs,      \* goroutines that call the lock
          Keys,
          KeysOf,     \* the keys each goroutine may lock
          Modes,      \* "w": Lock and Unlock, "r": RLock and RUnlock
          Refs,       \* names for refCounters
          Mutexes,    \* names for mutexes
          MaxCopies,  \* bound: times one mutex is in the pool
          None

ASSUME LockAssumption ==
    /\ KeysOf \in [Procs -> SUBSET Keys]
    /\ Modes \subseteq {"w", "r"}
    /\ MaxCopies \in Nat \ {0}
    /\ IsFiniteSet(Procs)
    /\ None \notin Refs /\ None \notin Mutexes /\ None \notin Keys

VARIABLES inUse,    \* sync.Map: key to refCounter
          pool,     \* how often each mutex is in the sync.Pool
          counter,  \* refCounter.counter
          mutex,    \* refCounter.lock
          held,     \* state of a mutex: -1 a writer, n > 0 readers, 0 free
          pc,       \* where each goroutine is
          key,      \* its key and mode
          mode,
          got,      \* the mutex getLocker took from the pool
          ref,      \* the refCounter getLocker returned
          fatal,    \* whether the runtime ended the process
          raced     \* history: whether a call met an Unlock that removes its key

vars == <<inUse, pool, counter, mutex, held, pc, key, mode, got, ref, fatal, raced>>

\* What the code can still reach; the other names are free for new objects.
LiveRefs == {inUse[k] : k \in Keys} \cup {ref[p] : p \in Procs}
LiveMutexes ==
    {m \in Mutexes : pool[m] > 0} \cup {got[p] : p \in Procs}
        \cup {mutex[r] : r \in LiveRefs \cap Refs}

TypeOK ==
    /\ inUse \in [Keys -> Refs \cup {None}]
    /\ pool \in [Mutexes -> 0..MaxCopies]
    /\ counter \in [Refs -> -Cardinality(Procs)..Cardinality(Procs)]
    /\ mutex \in [Refs -> Mutexes \cup {None}]
    /\ held \in [Mutexes -> -1..Cardinality(Procs)]
    /\ pc \in [Procs -> {"idle", "get", "store", "add", "lock", "critical",
                         "unget", "unstore", "unlock", "sub", "test", "put", "delete"}]
    /\ key \in [Procs -> Keys \cup {None}]
    /\ mode \in [Procs -> {"w", "r"}]
    /\ got \in [Procs -> Mutexes \cup {None}]
    /\ ref \in [Procs -> Refs \cup {None}]
    /\ fatal \in BOOLEAN
    /\ raced \in BOOLEAN

Init ==
    /\ inUse = [k \in Keys |-> None]
    /\ pool = [m \in Mutexes |-> 0]
    /\ counter = [r \in Refs |-> 0]
    /\ mutex = [r \in Refs |-> None]
    /\ held = [m \in Mutexes |-> 0]
    /\ pc = [p \in Procs |-> "idle"]
    /\ key = [p \in Procs |-> None]
    /\ mode = [p \in Procs |-> "w"]
    /\ got = [p \in Procs |-> None]
    /\ ref = [p \in Procs |-> None]
    /\ fatal = FALSE
    /\ raced = FALSE

At(p, here) == ~fatal /\ pc[p] = here
Goto(p, there) == pc' = [pc EXCEPT ![p] = there]

\* A goroutine calls Lock or RLock.
Call(p) ==
    /\ At(p, "idle")
    /\ \E k \in KeysOf[p], w \in Modes :
        key' = [key EXCEPT ![p] = k] /\ mode' = [mode EXCEPT ![p] = w]
    /\ Goto(p, "get")
    /\ UNCHANGED <<inUse, pool, counter, mutex, held, got, ref, fatal>>

\* getLocker, the argument of LoadOrStore: a mutex from the pool, or a new one.
\* A pool may have dropped what was put into it, so it may always make one.
PoolGet(p) ==
    /\ At(p, "get") \/ At(p, "unget")
    /\ \/ \E m \in Mutexes :
            /\ pool[m] > 0
            /\ pool' = [pool EXCEPT ![m] = @ - 1]
            /\ got' = [got EXCEPT ![p] = m]
            /\ held' = held
       \/ /\ Mutexes \ LiveMutexes # {}
          /\ LET m == CHOOSE m \in Mutexes : m \notin LiveMutexes IN
                /\ got' = [got EXCEPT ![p] = m]
                /\ held' = [held EXCEPT ![m] = 0]
          /\ pool' = pool
    /\ Goto(p, IF pc[p] = "get" THEN "store" ELSE "unstore")
    /\ UNCHANGED <<inUse, counter, mutex, key, mode, ref, fatal>>

\* Variant of LoadOrStore: Lock replaces a key that is in use.
StoreAlways(p) ==
    /\ At(p, "store") \/ At(p, "unstore")
    /\ IF pc[p] = "unstore" /\ inUse[key[p]] # None
       THEN /\ ref' = [ref EXCEPT ![p] = inUse[key[p]]]
            /\ UNCHANGED <<inUse, counter, mutex>>
       ELSE LET r == CHOOSE r \in Refs : r \notin LiveRefs IN
            /\ Refs \ LiveRefs # {}
            /\ ref' = [ref EXCEPT ![p] = r]
            /\ inUse' = [inUse EXCEPT ![key[p]] = r]
            /\ counter' = [counter EXCEPT ![r] = 0]
            /\ mutex' = [mutex EXCEPT ![r] = got[p]]
    /\ got' = [got EXCEPT ![p] = None]
    /\ Goto(p, IF pc[p] = "store" THEN "add" ELSE "unlock")
    /\ UNCHANGED <<pool, held, key, mode, fatal>>

\* getLocker: LoadOrStore.  The mutex taken is forgotten if the key is in use.
LoadOrStore(p) ==
    /\ At(p, "store") \/ At(p, "unstore")
    /\ IF inUse[key[p]] # None
       THEN /\ ref' = [ref EXCEPT ![p] = inUse[key[p]]]
            /\ UNCHANGED <<inUse, counter, mutex>>
       ELSE LET r == CHOOSE r \in Refs : r \notin LiveRefs IN
            /\ Refs \ LiveRefs # {}
            /\ ref' = [ref EXCEPT ![p] = r]
            /\ inUse' = [inUse EXCEPT ![key[p]] = r]
            /\ counter' = [counter EXCEPT ![r] = 0]
            /\ mutex' = [mutex EXCEPT ![r] = got[p]]
    /\ got' = [got EXCEPT ![p] = None]
    /\ Goto(p, IF pc[p] = "store" THEN "add" ELSE "unlock")
    /\ UNCHANGED <<pool, held, key, mode, fatal>>

\* Lock: atomic.AddInt64(&m.counter, 1).
Increment(p) ==
    /\ At(p, "add")
    /\ counter' = [counter EXCEPT ![ref[p]] = @ + 1]
    /\ Goto(p, "lock")
    /\ UNCHANGED <<inUse, pool, mutex, held, key, mode, got, ref, fatal>>

\* A writer waiting for the mutex keeps new readers out.
WriterWaits(m) ==
    \E p \in Procs : pc[p] = "lock" /\ mode[p] = "w" /\ mutex[ref[p]] = m

\* Lock: m.lock.Lock(), or m.lock.RLock().
Acquire(p) ==
    /\ At(p, "lock")
    /\ LET m == mutex[ref[p]] IN
        \/ mode[p] = "w" /\ held[m] = 0 /\ held' = [held EXCEPT ![m] = -1]
        \/ mode[p] = "r" /\ held[m] >= 0 /\ ~WriterWaits(m) /\ held' = [held EXCEPT ![m] = @ + 1]
    /\ ref' = [ref EXCEPT ![p] = None]
    /\ Goto(p, "critical")
    /\ UNCHANGED <<inUse, pool, counter, mutex, key, mode, got, fatal>>

\* The caller is done: Unlock looks the key up again.
Leave(p) ==
    /\ At(p, "critical")
    /\ Goto(p, "unget")
    /\ UNCHANGED <<inUse, pool, counter, mutex, held, key, mode, got, ref, fatal>>

\* Variants of Release: the mutex stays locked; it is always released as by
\* RUnlock, with the runtime's test and without it.
ReleaseNot(p) ==
    /\ At(p, "unlock")
    /\ Goto(p, "sub")
    /\ UNCHANGED <<inUse, pool, counter, mutex, held, key, mode, got, ref, fatal>>

ReleaseAsReader(p) ==
    /\ At(p, "unlock")
    /\ fatal' = (held[mutex[ref[p]]] <= 0)
    /\ held' = IF fatal' THEN held ELSE [held EXCEPT ![mutex[ref[p]]] = @ - 1]
    /\ Goto(p, "sub")
    /\ UNCHANGED <<inUse, pool, counter, mutex, key, mode, got, ref>>

ReleaseUntested(p) ==
    /\ At(p, "unlock")
    /\ held' = [held EXCEPT ![mutex[ref[p]]] = @ - 1]
    /\ Goto(p, "sub")
    /\ UNCHANGED <<inUse, pool, counter, mutex, key, mode, got, ref, fatal>>

\* Unlock: m.lock.Unlock(), a fatal error for a mutex that is not locked.
Release(p) ==
    /\ At(p, "unlock")
    /\ LET m == mutex[ref[p]]
           locked == IF mode[p] = "w" THEN held[m] = -1 ELSE held[m] > 0 IN
        /\ fatal' = ~locked
        /\ held' = IF ~locked THEN held
                   ELSE [held EXCEPT ![m] = IF mode[p] = "w" THEN 0 ELSE @ - 1]
    /\ Goto(p, "sub")
    /\ UNCHANGED <<inUse, pool, counter, mutex, key, mode, got, ref>>

\* putBackInPool: atomic.AddInt64(&m.counter, -1).
Decrement(p) ==
    /\ At(p, "sub")
    /\ counter' = [counter EXCEPT ![ref[p]] = @ - 1]
    /\ Goto(p, "test")
    /\ UNCHANGED <<inUse, pool, mutex, held, key, mode, got, ref, fatal>>

\* putBackInPool reads the count again, without the atomic operation.
Test(p) ==
    /\ At(p, "test")
    /\ IF counter[ref[p]] <= 0
       THEN Goto(p, "put") /\ UNCHANGED <<key, ref>>
       ELSE /\ Goto(p, "idle")
            /\ key' = [key EXCEPT ![p] = None]
            /\ ref' = [ref EXCEPT ![p] = None]
    /\ UNCHANGED <<inUse, pool, counter, mutex, held, mode, got, fatal>>

\* putBackInPool: pool.Put.
PoolPut(p) ==
    /\ At(p, "put")
    /\ LET m == mutex[ref[p]] IN
        pool' = IF pool[m] < MaxCopies THEN [pool EXCEPT ![m] = @ + 1] ELSE pool
    /\ Goto(p, "delete")
    /\ UNCHANGED <<inUse, counter, mutex, held, key, mode, got, ref, fatal>>

\* putBackInPool: inUse.Delete, whatever refCounter the key has by now.
DeleteKey(p) ==
    /\ At(p, "delete")
    /\ inUse' = [inUse EXCEPT ![key[p]] = None]
    /\ key' = [key EXCEPT ![p] = None]
    /\ ref' = [ref EXCEPT ![p] = None]
    /\ Goto(p, "idle")
    /\ UNCHANGED <<pool, counter, mutex, held, mode, got, fatal>>

\* A caller has found the count of its key at zero and removes the key, while
\* another call is past its lookup of that key.
Races ==
    \E p, q \in Procs :
        /\ p # q /\ key[p] = key[q]
        /\ pc[p] \in {"put", "delete"}
        /\ pc[q] \notin {"idle", "get", "store"}

Next ==
    /\ \E p \in Procs :
        \/ Call(p) \/ PoolGet(p) \/ LoadOrStore(p) \/ Increment(p) \/ Acquire(p)
        \/ Leave(p) \/ Release(p) \/ Decrement(p) \/ Test(p) \/ PoolPut(p) \/ DeleteKey(p)
    /\ raced' = (raced \/ Races')

Spec == Init /\ [][Next]_vars

-----------------------------------------------------------------------------
(* Properties.  The count is tested and the key removed in separate steps, so  *)
(* that a call may hold a refCounter which another one removes.  Its callers   *)
(* rely on what the lock does as long as no two calls have met this way.       *)

\* Without the race, keys are independent: a caller that is alone on its key
\* finds its mutex free, although mutexes go from key to key through the pool.
KeysAreIndependent ==
    ~raced => \A p \in Procs :
        (pc[p] = "lock" /\ \A q \in Procs \ {p} : key[q] # key[p]) => held[mutex[ref[p]]] = 0

\* Two goroutines are in the critical section of one key only as readers:
\* Handle processes one webhook of a player and item at a time.
MutualExclusion ==
    \A p, q \in Procs :
        (p # q /\ pc[p] = "critical" /\ pc[q] = "critical" /\ key[p] = key[q])
            => mode[p] = "r" /\ mode[q] = "r"

\* Where the goroutines are for their callers: inside from the moment they have
\* the mutex until they have released it.
Place(p) == IF pc[p] \in {"get", "store", "add", "lock"} THEN "asking"
            ELSE IF pc[p] \in {"critical", "unget", "unstore", "unlock"} THEN "inside"
            ELSE "out"

Promise == INSTANCE KeyLock WITH
    place <- [p \in Procs |-> Place(p)],
    key <- [p \in Procs |-> IF Place(p) = "out" THEN None ELSE key[p]],
    alive <- ~fatal,
    broken <- raced

\* The lock implements one readers-writer lock per key until two calls race: the
\* lookups of Lock and Unlock lead all callers of a key to one mutex, also when
\* the key has been removed and made again in between, and Unlock never meets a
\* mutex that is not locked, which would end the process.
ImplementsKeyLock == Promise!Spec
=============================================================================
