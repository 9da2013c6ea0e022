--------------------------- MODULE FallbackBuffer ---------------------------
(***************************************************************************)
(* The in-memory buffer EnqueueScrobble falls back on when the store does  *)
(* not take an event, and its flush (lib/store/queue.go and the fallback   *)
(* buffer helpers of the three stores, which are the same code).           *)
(*                                                                         *)
(* EnqueueScrobble and flushFallbackBuffer call each other, so a webhook   *)
(* handler has an explicit stack: a frame of EnqueueScrobble waits for the *)
(* store, a frame of flushFallbackBuffer goes through the events GetAll    *)
(* gave it.  The stack of a goroutine is limited, and overflowing it ends  *)
(* the process.  One user, whose players' webhooks have a handler each.    *)
(***************************************************************************)
EXTENDS Naturals, Sequences, FiniteSets

CONSTANTS Events,      \* events that may arrive
          Handlers,    \* webhook handlers of the user's players
          Size,        \* fallbackBufferSize, 100 in the code
          StackLimit,  \* bound: nested calls before the stack overflows
          MaxChanges,  \* bound: changes of the store's health
          None

ASSUME BufferAssumption ==
    /\ Size \in Nat \ {0}
    /\ StackLimit \in Nat \ {0}
    /\ MaxChanges \in Nat
    /\ None \notin Events

VARIABLES ring,     \* the slots of the ring buffer
          pos,      \* where its next Push goes
          exists,   \* whether fallbackBuffers has an entry for the user
          stored,   \* history: events the store has taken
          healthy,  \* whether the store takes writes
          stack,    \* the calls of each handler, innermost last
          dead,     \* whether the process has died
          pushed,   \* history: what was pushed into this buffer, in order
          lost,     \* history: events overwritten in a full ring
          seen,     \* history: events that arrived
          changes   \* changes of the store's health so far

buffer == <<ring, pos, exists, pushed, lost>>
vars == <<buffer, stored, healthy, stack, dead, seen, changes>>

Slots == 0..Size - 1
EmptyRing == [s \in Slots |-> None]
EnqueueCall(e) == [call |-> "enqueue", event |-> e, rest |-> <<>>]
FlushCall == [call |-> "flush", event |-> None, rest |-> <<>>]
FlushLoop(es) == [call |-> "loop", event |-> None, rest |-> es]
Frame == [call: {"enqueue", "flush", "loop"}, event: Events \cup {None}, rest: Seq(Events)]

TypeOK ==
    /\ ring \in [Slots -> Events \cup {None}]
    /\ pos \in Slots
    /\ exists \in BOOLEAN
    /\ stored \subseteq Events
    /\ healthy \in BOOLEAN
    /\ stack \in [Handlers -> Seq(Frame)]
    /\ \A h \in Handlers : Len(stack[h]) <= StackLimit
    /\ dead \in BOOLEAN
    /\ pushed \in Seq(Events)
    /\ lost \subseteq Events
    /\ seen \subseteq Events
    /\ changes \in 0..MaxChanges

Init ==
    /\ ring = EmptyRing
    /\ pos = 0
    /\ exists = FALSE
    /\ stored = {}
    /\ healthy = TRUE
    /\ stack = [h \in Handlers |-> <<>>]
    /\ dead = FALSE
    /\ pushed = <<>>
    /\ lost = {}
    /\ seen = {}
    /\ changes = 0

Top(h) == stack[h][Len(stack[h])]
Below(h, n) == SubSeq(stack[h], 1, Len(stack[h]) - n)
In(h, call) == ~dead /\ stack[h] # <<>> /\ Top(h).call = call

\* What ring.Do visits i-th, from the current slot on, and when it is an event.
Visited(i) == ring[(pos + i - 1) % Size]
Filled == {i \in 1..Size : Visited(i) # None}

\* GetAll: the events in the order of the visit, the empty slots left out.
GetAll ==
    [n \in 1..Cardinality(Filled) |->
        Visited(CHOOSE i \in Filled : Cardinality({j \in Filled : j <= i}) = n)]

\* The handler's stack becomes calls, unless that overflows it.
Stack(h, calls) ==
    IF Len(calls) <= StackLimit
    THEN stack' = [stack EXCEPT ![h] = calls] /\ dead' = dead
    ELSE stack' = [g \in Handlers |-> <<>>] /\ dead' = TRUE

\* A webhook arrives whose scrobble fails.
Arrive(h, e) ==
    /\ ~dead
    /\ stack[h] = <<>>
    /\ e \notin seen
    /\ seen' = seen \cup {e}
    /\ Stack(h, <<EnqueueCall(e)>>)
    /\ UNCHANGED <<buffer, stored, healthy, changes>>

\* Variants of Push: the ring is not advanced; its end is not wrapped.
PushInPlace(e) ==
    /\ exists' = TRUE
    /\ ring' = [(IF exists THEN ring ELSE EmptyRing) EXCEPT ![IF exists THEN pos ELSE 0] = e]
    /\ pos' = IF exists THEN pos ELSE 0
    /\ pushed' = IF exists THEN Append(pushed, e) ELSE <<e>>
    /\ lost' = lost \cup (IF exists THEN {ring[pos]} \ {None} ELSE {})

PushPastEnd(e) ==
    /\ exists' = TRUE
    /\ ring' = [(IF exists THEN ring ELSE EmptyRing) EXCEPT ![IF exists THEN pos ELSE 0] = e]
    /\ pos' = IF exists THEN pos + 1 ELSE 1
    /\ pushed' = IF exists THEN Append(pushed, e) ELSE <<e>>
    /\ lost' = lost \cup (IF exists THEN {ring[pos]} \ {None} ELSE {})

\* addToFallbackBuffer, under bufferMu: the user's buffer, or a new one, and Push.
Push(e) ==
    /\ exists' = TRUE
    /\ ring' = [(IF exists THEN ring ELSE EmptyRing) EXCEPT ![IF exists THEN pos ELSE 0] = e]
    /\ pos' = (IF exists THEN pos + 1 ELSE 1) % Size
    /\ pushed' = IF exists THEN Append(pushed, e) ELSE <<e>>
    /\ lost' = lost \cup (IF exists THEN {ring[pos]} \ {None} ELSE {})

\* Variant of WriteFails: only a buffer that is there already is used.
WriteFailsUnbuffered(h) ==
    /\ In(h, "enqueue")
    /\ ~healthy
    /\ IF exists THEN Push(Top(h).event) ELSE UNCHANGED buffer
    /\ Stack(h, IF Len(stack[h]) > 1 THEN Below(h, 2) ELSE <<>>)
    /\ UNCHANGED <<stored, healthy, seen, changes>>

\* EnqueueScrobble's write fails: the event is buffered and the call returns
\* an error; a flush it was called from returns as well.
WriteFails(h) ==
    /\ In(h, "enqueue")
    /\ ~healthy
    /\ Push(Top(h).event)
    /\ Stack(h, IF Len(stack[h]) > 1 THEN Below(h, 2) ELSE <<>>)
    /\ UNCHANGED <<stored, healthy, seen, changes>>

\* The write succeeds, and all that is left of EnqueueScrobble is to call
\* flushFallbackBuffer: its frame stands for both calls.
WriteSucceeds(h) ==
    /\ In(h, "enqueue")
    /\ healthy
    /\ stored' = stored \cup {Top(h).event}
    /\ Stack(h, Append(Below(h, 1), FlushCall))
    /\ UNCHANGED <<buffer, healthy, seen, changes>>

\* flushFallbackBuffer reads the buffer, and returns if there is nothing in it.
FlushBegins(h) ==
    /\ In(h, "flush")
    /\ Stack(h, IF exists /\ GetAll # <<>>
                THEN Append(Below(h, 1), FlushLoop(GetAll))
                ELSE Below(h, 1))
    /\ UNCHANGED <<buffer, stored, healthy, seen, changes>>

\* Its loop calls EnqueueScrobble for the next event.
FlushNext(h) ==
    /\ In(h, "loop")
    /\ Top(h).rest # <<>>
    /\ Stack(h, Below(h, 1) \o <<FlushLoop(Tail(Top(h).rest)), EnqueueCall(Head(Top(h).rest))>>)
    /\ UNCHANGED <<buffer, stored, healthy, seen, changes>>

\* The end of the loop: Clear, which assigns to its closure's parameter only, and
\* the removal of whatever buffer the map has for the user by now.
FlushEnds(h) ==
    /\ In(h, "loop")
    /\ Top(h).rest = <<>>
    /\ exists' = FALSE
    /\ Stack(h, Below(h, 1))
    /\ UNCHANGED <<ring, pos, pushed, lost, stored, healthy, seen, changes>>

\* The store becomes unavailable, or available again.
StoreChanges ==
    /\ ~dead
    /\ changes < MaxChanges
    /\ changes' = changes + 1
    /\ healthy' = ~healthy
    /\ UNCHANGED <<buffer, stored, stack, dead, seen>>

Next ==
    \/ \E h \in Handlers :
        \/ \E e \in Events : Arrive(h, e)
        \/ WriteFails(h)
        \/ WriteSucceeds(h)
        \/ FlushBegins(h)
        \/ FlushNext(h)
        \/ FlushEnds(h)
    \/ StoreChanges

Spec == Init /\ [][Next]_vars

-----------------------------------------------------------------------------
(* Properties *)

Newest(s, n) == IF Len(s) <= n THEN s ELSE SubSeq(s, Len(s) - n + 1, Len(s))

\* While the user has a buffer, GetAll returns the newest Size events pushed into
\* it, oldest first, whatever was overwritten and however the handlers' pushes
\* interleave: the ring's position is the slot of the oldest event once it is full.
BufferKeepsNewest == exists => GetAll = Newest(pushed, Size)

\* While the process lives, an event EnqueueScrobble was called with has reached
\* the store, is being enqueued, is in the user's present buffer, or was
\* overwritten in a full ring: a flush drops no event the store has not taken.
NothingForgotten ==
    ~dead => \A e \in seen \ (stored \cup lost) :
        \/ exists /\ \E s \in Slots : ring[s] = e
        \/ \E h \in Handlers : \E i \in 1..Len(stack[h]) : stack[h][i].event = e

\* A failure of the storage, and its recovery, do not end the process
\* (lib/store/main.go: "logged but non-fatal, fallback buffer engaged").
NonFatal == ~dead
=============================================================================
