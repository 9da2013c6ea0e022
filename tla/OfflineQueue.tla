---------------------------- MODULE OfflineQueue ----------------------------
(***************************************************************************)
(* One user's queue of scrobbles that Trakt could not take: the webhook    *)
(* handlers that fill it (EnqueueScrobble), and the drain goroutines that  *)
(* empty it (main.go, drainUserQueue and sendEventWithRetry), over each of *)
(* the three stores.  Every call to the store is a step of its own; a call *)
(* that is several commands (a size check, an eviction, an insertion; a    *)
(* read and a rewrite) is several steps.                                   *)
(*                                                                         *)
(* The queue is a set of members.  On PostgreSQL a member is a row and on  *)
(* disk a file, one for each event; on Redis it is the JSON text itself,   *)
(* so that two versions of one event can be there at once.  The text of an *)
(* event is abstracted to who rewrote it last, at which attempt.           *)
(***************************************************************************)
EXTENDS Naturals, FiniteSets

CONSTANTS Backends,    \* the stores explored: "postgres", "redis", "disk"
          Events,      \* event identifiers; UUIDs compare, so numbers
          Key,         \* Key[e]: the (player_uuid, rating_key) of event e
          Enqueuers,   \* webhook handlers
          Drains,      \* drain goroutines, each of which runs once
          None,
          Cap,         \* maxQueuePerUser, 1000 in the code
          BatchSize,   \* 100 in the code
          MaxAttempts, \* 5 in the code
          MaxClock,    \* bound: seconds explored
          MaxSends,    \* bound: times Trakt accepts one event
          MaxSlips,    \* bound: rewrites of a member that is gone
          MaxCrashes,  \* bound: process crashes explored
          MaxFaults    \* bound: failing store calls explored

ASSUME QueueAssumption ==
    /\ Backends \subseteq {"postgres", "redis", "disk"}
    /\ Events \subseteq Nat
    /\ IsFiniteSet(Enqueuers) /\ IsFiniteSet(Drains)
    /\ None \notin Events \cup Drains
    /\ {Cap, BatchSize, MaxAttempts, MaxClock, MaxSends} \subseteq Nat \ {0}
    /\ {MaxSlips, MaxCrashes, MaxFaults} \subseteq Nat

VARIABLES backend,  \* the store this deployment was configured with
          queue,    \* the stored members
          created,  \* created[e]: its second, and its place in the true order
          user,     \* whether the user's record exists
          tracker,  \* DrainStateTracker: whether the user has an entry
          epc,      \* epc[w]: where webhook handler w is
          eev,      \* eev[w]: the event it enqueues
          victim,   \* victim[w]: the event it is about to evict
          dpc,      \* dpc[d]: where drain d is
          batch,    \* batch[d]: the members it read and has not started on
          cur,      \* cur[d]: the event it is sending
          attempt,  \* attempt[d]: the loop variable of sendEventWithRetry
          held,     \* held[d]: the member a find returned to it
          acked,    \* history: events EnqueueScrobble returned nil for
          sends,    \* history: times Trakt accepted event e
          excused,  \* history: events evicted, given up, or cascaded away
          ignored,  \* history: events ON CONFLICT DO NOTHING ignored
          slips,    \* history: evictions that removed nothing and rewrites
                    \* that stored a member again
          clock, crashes, faults

store == <<backend, queue, created, user, tracker>>
handler == <<epc, eev, victim>>
drain == <<dpc, batch, cur, attempt, held>>
history == <<acked, sends, excused, ignored>>
bounds == <<slips, clock, crashes, faults>>
vars == <<store, handler, drain, history, bounds>>

Member == [id: Events, by: Drains \cup {None}, n: 0..MaxAttempts,
           text: {"whole", "torn"}]
Fresh(e) == [id |-> e, by |-> None, n |-> 0, text |-> "whole"]
Torn(e) == [id |-> e, by |-> None, n |-> 0, text |-> "torn"]
NoTime == [sec |-> 0, seq |-> 0]
NoMember == [id |-> None, by |-> None, n |-> 0, text |-> "torn"]

TypeOK ==
    /\ backend \in Backends
    /\ queue \subseteq Member
    /\ created \in [Events -> [sec: 0..MaxClock, seq: Nat]]
    /\ user \in BOOLEAN
    /\ tracker \in BOOLEAN
    /\ epc \in [Enqueuers -> {"idle", "check", "evict", "victim", "insert", "write"}]
    /\ eev \in [Enqueuers -> Events \cup {None}]
    /\ victim \in [Enqueuers -> Events \cup {None}]
    /\ dpc \in [Drains -> {"new", "dequeue", "next", "send", "update", "rewrite",
                           "readd", "delete", "remove", "done"}]
    /\ batch \in [Drains -> SUBSET Member]
    /\ cur \in [Drains -> Events \cup {None}]
    /\ attempt \in [Drains -> 0..MaxAttempts]
    /\ held \in [Drains -> Member \cup {NoMember}]
    /\ acked \subseteq Events
    /\ sends \in [Events -> 0..MaxSends]
    /\ excused \subseteq Events
    /\ ignored \subseteq Events
    /\ slips \in Nat
    /\ clock \in 1..MaxClock
    /\ crashes \in 0..MaxCrashes
    /\ faults \in 0..MaxFaults

Init ==
    /\ backend \in Backends
    /\ queue = {}
    /\ created = [e \in Events |-> NoTime]
    /\ user = TRUE
    /\ tracker = FALSE
    /\ epc = [w \in Enqueuers |-> "idle"]
    /\ eev = [w \in Enqueuers |-> None]
    /\ victim = [w \in Enqueuers |-> None]
    /\ dpc = [d \in Drains |-> "new"]
    /\ batch = [d \in Drains |-> {}]
    /\ cur = [d \in Drains |-> None]
    /\ attempt = [d \in Drains |-> 0]
    /\ held = [d \in Drains |-> NoMember]
    /\ acked = {}
    /\ sends = [e \in Events |-> 0]
    /\ excused = {}
    /\ ignored = {}
    /\ slips = 0
    /\ clock = 1
    /\ crashes = 0
    /\ faults = 0

\* The order of the store: created_at on PostgreSQL; the second and then the
\* text, which starts with the UUID, on Redis; the second and the UUID, which
\* make the file name, on disk.
Before(m, k) ==
    LET a == created[m.id]
        b == created[k.id]
    IN  IF backend = "postgres" THEN a.seq < b.seq
        ELSE a.sec < b.sec \/ (a.sec = b.sec /\ m.id < k.id)

\* S is what a read of the n oldest members returns.
IsOldest(S, n) ==
    /\ S \subseteq queue
    /\ Cardinality(S) = IF Cardinality(queue) < n THEN Cardinality(queue) ELSE n
    /\ \A m \in S : \A k \in queue \ S : ~Before(k, m)

MembersOf(e) == {m \in queue : m.id = e}

-----------------------------------------------------------------------------
(* EnqueueScrobble *)

\* A scrobble fails and enqueueScrobbleEvent is called: a new UUID, CreatedAt.
Begin(w, e) ==
    /\ epc[w] = "idle"
    /\ user
    /\ created[e] = NoTime
    /\ created' = [created EXCEPT ![e] =
          [sec |-> clock,
           seq |-> 1 + Cardinality({f \in Events : created[f] # NoTime})]]
    /\ eev' = [eev EXCEPT ![w] = e]
    /\ epc' = [epc EXCEPT ![w] = "check"]
    /\ UNCHANGED <<backend, queue, user, tracker, victim, drain, history, bounds>>

\* Variant of CheckSize: the limit is not enforced.
CheckSizeUnlimited(w) ==
    /\ epc[w] = "check"
    /\ epc' = [epc EXCEPT ![w] = "insert"]
    /\ UNCHANGED <<store, eev, victim, drain, history, bounds>>

\* GetQueueSize and the comparison with maxQueuePerUser.
CheckSize(w) ==
    /\ epc[w] = "check"
    /\ epc' = [epc EXCEPT ![w] = IF Cardinality(queue) >= Cap THEN "evict" ELSE "insert"]
    /\ UNCHANGED <<store, eev, victim, drain, history, bounds>>

\* Redis: ZPOPMIN takes the oldest member at the time it runs.
PopOldest(w) ==
    /\ backend = "redis"
    /\ epc[w] = "evict"
    /\ \E S \in SUBSET queue :
        /\ IsOldest(S, 1)
        /\ queue' = queue \ S
        /\ excused' = excused \cup {m.id : m \in S}
    /\ epc' = [epc EXCEPT ![w] = "insert"]
    /\ UNCHANGED <<backend, created, user, tracker, eev, victim, drain, acked, sends,
                   ignored, bounds>>

\* PostgreSQL's subquery, and evictOldestEvent's read on disk, choose the
\* victim.  A file that cannot be decoded is skipped: nothing is evicted.
ChooseVictim(w) ==
    /\ backend # "redis"
    /\ epc[w] = "evict"
    /\ \E S \in SUBSET queue :
        /\ IsOldest(S, 1)
        /\ \/ \E m \in S : /\ m.text = "whole"
                           /\ victim' = [victim EXCEPT ![w] = m.id]
                           /\ epc' = [epc EXCEPT ![w] = "victim"]
                           /\ slips' = slips
           \/ /\ \A m \in S : m.text = "torn"
              /\ victim' = victim
              /\ epc' = [epc EXCEPT ![w] = "insert"]
              /\ slips' = slips + 1
    /\ UNCHANGED <<store, eev, drain, history, clock, crashes, faults>>

\* The row or the file is removed, if nobody has removed it since.
DeleteVictim(w) ==
    /\ epc[w] = "victim"
    /\ queue' = queue \ MembersOf(victim[w])
    /\ excused' = IF MembersOf(victim[w]) = {} THEN excused ELSE excused \cup {victim[w]}
    /\ slips' = IF MembersOf(victim[w]) = {} THEN slips + 1 ELSE slips
    /\ victim' = [victim EXCEPT ![w] = None]
    /\ epc' = [epc EXCEPT ![w] = "insert"]
    /\ UNCHANGED <<backend, created, user, tracker, eev, drain, acked, sends, ignored,
                   clock, crashes, faults>>

\* A failing size check counts as an empty queue, a failing eviction is logged.
CapacityFault(w) ==
    /\ epc[w] \in {"check", "evict", "victim"}
    /\ faults < MaxFaults
    /\ faults' = faults + 1
    /\ victim' = [victim EXCEPT ![w] = None]
    /\ epc' = [epc EXCEPT ![w] = "insert"]
    /\ UNCHANGED <<store, eev, drain, history, slips, clock, crashes>>

Return(w) == /\ epc' = [epc EXCEPT ![w] = "idle"]
             /\ eev' = [eev EXCEPT ![w] = None]

\* INSERT ... ON CONFLICT (player_uuid, rating_key) DO NOTHING; the foreign key
\* refuses an event whose user is gone, which then stays in the fallback buffer.
InsertRow(w) ==
    LET e == eev[w]
        conflict == \E m \in queue : Key[m.id] = Key[e]
    IN  /\ backend = "postgres"
        /\ epc[w] = "insert"
        /\ queue' = IF user /\ ~conflict THEN queue \cup {Fresh(e)} ELSE queue
        /\ ignored' = IF user /\ conflict THEN ignored \cup {e} ELSE ignored
        /\ acked' = IF user THEN acked \cup {e} ELSE acked
        /\ Return(w)
        /\ UNCHANGED <<backend, created, user, tracker, victim, drain, sends, excused, bounds>>

\* Redis: ZADD.
AddMember(w) ==
    /\ backend = "redis"
    /\ epc[w] = "insert"
    /\ queue' = queue \cup {Fresh(eev[w])}
    /\ acked' = acked \cup {eev[w]}
    /\ Return(w)
    /\ UNCHANGED <<backend, created, user, tracker, victim, drain, sends, excused, ignored, bounds>>

\* Disk: os.WriteFile creates the file,
CreateFile(w) ==
    /\ backend = "disk"
    /\ epc[w] = "insert"
    /\ queue' = queue \cup {Torn(eev[w])}
    /\ epc' = [epc EXCEPT ![w] = "write"]
    /\ UNCHANGED <<backend, created, user, tracker, eev, victim, drain, history, bounds>>

\* and then fills it.
Fill(e) == IF Torn(e) \in queue THEN (queue \ {Torn(e)}) \cup {Fresh(e)} ELSE queue

WriteFile(w) ==
    /\ epc[w] = "write"
    /\ queue' = Fill(eev[w])
    /\ acked' = acked \cup {eev[w]}
    /\ Return(w)
    /\ UNCHANGED <<backend, created, user, tracker, victim, drain, sends, excused, ignored, bounds>>

-----------------------------------------------------------------------------
(* drainUserQueue and sendEventWithRetry *)

\* initiateQueueDrain found the user, at startup or after a recovery.
StartDrain(d) ==
    /\ dpc[d] = "new"
    /\ queue # {}
    /\ dpc' = [dpc EXCEPT ![d] = "dequeue"]
    /\ tracker' = TRUE
    /\ UNCHANGED <<backend, queue, created, user, handler, batch, cur, attempt, held,
                   history, bounds>>

\* DequeueScrobbles; files that cannot be decoded are skipped.  An empty answer
\* ends the drain.
Dequeue(d) ==
    /\ dpc[d] = "dequeue"
    /\ \E S \in SUBSET queue :
        /\ IsOldest(S, BatchSize)
        /\ batch' = [batch EXCEPT ![d] = {m \in S : m.text = "whole"}]
        /\ IF \E m \in S : m.text = "whole"
           THEN /\ dpc' = [dpc EXCEPT ![d] = "next"]
                /\ tracker' = tracker
           ELSE /\ dpc' = [dpc EXCEPT ![d] = "done"]
                /\ tracker' = FALSE
    /\ UNCHANGED <<backend, queue, created, user, handler, cur, attempt, held, history, bounds>>

\* A failing DequeueScrobbles ends the drain as well.
DequeueFault(d) ==
    /\ dpc[d] = "dequeue"
    /\ faults < MaxFaults
    /\ faults' = faults + 1
    /\ dpc' = [dpc EXCEPT ![d] = "done"]
    /\ tracker' = FALSE
    /\ UNCHANGED <<backend, queue, created, user, handler, batch, cur, attempt, held,
                   history, slips, clock, crashes>>

NextEvent(d) ==
    /\ dpc[d] = "next"
    /\ \/ /\ batch[d] = {}
          /\ dpc' = [dpc EXCEPT ![d] = "dequeue"]
          /\ UNCHANGED <<batch, cur>>
       \/ \E m \in batch[d] :
          /\ \A k \in batch[d] : ~Before(k, m)
          /\ batch' = [batch EXCEPT ![d] = @ \ {m}]
          /\ cur' = [cur EXCEPT ![d] = m.id]
          /\ dpc' = [dpc EXCEPT ![d] = "send"]
    /\ UNCHANGED <<store, handler, attempt, held, history, bounds>>

\* ScrobbleFromQueue: Trakt accepts the event,
SendAccepted(d) ==
    /\ dpc[d] = "send"
    /\ user
    /\ sends[cur[d]] < MaxSends
    /\ sends' = [sends EXCEPT ![cur[d]] = @ + 1]
    /\ attempt' = [attempt EXCEPT ![d] = 0]
    /\ dpc' = [dpc EXCEPT ![d] = "delete"]
    /\ UNCHANGED <<store, handler, batch, cur, held, acked, excused, ignored, bounds>>

\* Variants of SendTransient: the retry loop has no end; the event is deleted
\* after its first transient failure.
SendTransientForever(d) ==
    /\ dpc[d] = "send"
    /\ user
    /\ attempt' = [attempt EXCEPT ![d] = @ + 1]
    /\ dpc' = [dpc EXCEPT ![d] = "update"]
    /\ UNCHANGED <<store, handler, batch, cur, held, history, bounds>>

SendTransientDeletes(d) ==
    /\ dpc[d] = "send"
    /\ user
    /\ dpc' = [dpc EXCEPT ![d] = "delete"]
    /\ UNCHANGED <<store, handler, batch, cur, attempt, held, history, bounds>>

\* refuses it with an error that isTransientError knows,
SendTransient(d) ==
    /\ dpc[d] = "send"
    /\ user
    /\ IF attempt[d] + 1 < MaxAttempts
       THEN /\ attempt' = [attempt EXCEPT ![d] = @ + 1]
            /\ dpc' = [dpc EXCEPT ![d] = "update"]
            /\ excused' = excused
       ELSE /\ attempt' = [attempt EXCEPT ![d] = 0]
            /\ dpc' = [dpc EXCEPT ![d] = "delete"]
            /\ excused' = excused \cup {cur[d]}
    /\ UNCHANGED <<store, handler, batch, cur, held, acked, sends, ignored, bounds>>

\* or with any other error; a user that is gone is such an error.
SendPermanent(d) ==
    /\ dpc[d] = "send"
    /\ attempt' = [attempt EXCEPT ![d] = 0]
    /\ dpc' = [dpc EXCEPT ![d] = "delete"]
    /\ excused' = excused \cup {cur[d]}
    /\ UNCHANGED <<store, handler, batch, cur, held, acked, sends, ignored, bounds>>

\* Variant of FindForUpdate: PostgreSQL inserts the row when it is gone.
UpdateUpserts(d) ==
    /\ dpc[d] = "update"
    /\ dpc' = [dpc EXCEPT ![d] = "send"]
    /\ queue' = queue \cup {Fresh(cur[d])}
    /\ UNCHANGED <<backend, created, user, tracker, handler, batch, cur, attempt, held,
                   history, bounds>>

\* UpdateQueuedScrobbleRetry.  PostgreSQL updates the row where it is, if it
\* is.  The other two look for the event first; a file that cannot be decoded
\* is left alone.
FindForUpdate(d) ==
    /\ dpc[d] = "update"
    /\ \/ /\ \/ backend = "postgres"
             \/ \A m \in MembersOf(cur[d]) : m.text = "torn"
          /\ dpc' = [dpc EXCEPT ![d] = "send"]
          /\ held' = held
       \/ /\ backend # "postgres"
          /\ \E m \in MembersOf(cur[d]) :
              /\ m.text = "whole"
              /\ held' = [held EXCEPT ![d] = m]
          /\ dpc' = [dpc EXCEPT ![d] = "rewrite"]
    /\ UNCHANGED <<store, handler, batch, cur, attempt, history, bounds>>

\* The members a rewrite replaces.
Target(d) == IF backend = "disk" THEN MembersOf(cur[d]) ELSE queue \cap {held[d]}

\* What goes away first: Redis removes the old member (ZREM, the first command
\* of the pipeline); on disk opening the file for writing truncates it, or
\* creates it when it is gone.
Rewrite(d) ==
    /\ dpc[d] = "rewrite"
    /\ Target(d) = {} => slips < MaxSlips
    /\ slips' = IF Target(d) = {} THEN slips + 1 ELSE slips
    /\ queue' = (queue \ Target(d)) \cup IF backend = "disk" THEN {Torn(cur[d])} ELSE {}
    /\ dpc' = [dpc EXCEPT ![d] = "readd"]
    /\ UNCHANGED <<backend, created, user, tracker, handler, batch, cur, attempt, held,
                   history, clock, crashes, faults>>

\* What the second half of a rewrite leaves: the new text.
NewText(d) == [id |-> cur[d], by |-> d, n |-> attempt[d], text |-> "whole"]

Readd(d) ==
    /\ dpc[d] = "readd"
    /\ queue' = IF backend = "disk" THEN Fill(cur[d]) ELSE queue \cup {NewText(d)}
    /\ held' = [held EXCEPT ![d] = NoMember]
    /\ dpc' = [dpc EXCEPT ![d] = "send"]
    /\ UNCHANGED <<backend, created, user, tracker, handler, batch, cur, attempt, history, bounds>>

\* DeleteQueuedScrobble, after a success and after a permanent failure alike.
\* Redis looks for the member,
FindForDelete(d) ==
    /\ backend = "redis"
    /\ dpc[d] = "delete"
    /\ \/ /\ MembersOf(cur[d]) = {}
          /\ dpc' = [dpc EXCEPT ![d] = "next"]
          /\ cur' = [cur EXCEPT ![d] = None]
          /\ held' = held
       \/ /\ \E m \in MembersOf(cur[d]) : held' = [held EXCEPT ![d] = m]
          /\ dpc' = [dpc EXCEPT ![d] = "remove"]
          /\ cur' = cur
    /\ UNCHANGED <<store, handler, batch, attempt, history, bounds>>

\* Variant of Delete: the event is left where it is.
DeleteNothing(d) ==
    /\ dpc[d] = "delete"
    /\ cur' = [cur EXCEPT ![d] = None]
    /\ dpc' = [dpc EXCEPT ![d] = "next"]
    /\ UNCHANGED <<store, handler, batch, attempt, held, history, bounds>>

\* and then removes that text; the others remove by identifier.
Delete(d) ==
    /\ IF backend = "redis" THEN dpc[d] = "remove" ELSE dpc[d] = "delete"
    /\ queue' = IF backend = "redis" THEN queue \ {held[d]} ELSE queue \ MembersOf(cur[d])
    /\ held' = [held EXCEPT ![d] = NoMember]
    /\ cur' = [cur EXCEPT ![d] = None]
    /\ dpc' = [dpc EXCEPT ![d] = "next"]
    /\ UNCHANGED <<backend, created, user, tracker, handler, batch, attempt, history, bounds>>

\* A failing delete is logged and the drain goes on; a failing update is not
\* even looked at.
StoreFault(d) ==
    /\ dpc[d] \in {"delete", "remove", "update"}
    /\ faults < MaxFaults
    /\ faults' = faults + 1
    /\ held' = [held EXCEPT ![d] = NoMember]
    /\ cur' = [cur EXCEPT ![d] = IF dpc[d] = "update" THEN @ ELSE None]
    /\ dpc' = [dpc EXCEPT ![d] = IF dpc[d] = "update" THEN "send" ELSE "next"]
    /\ UNCHANGED <<store, handler, batch, attempt, history, slips, clock, crashes>>

\* The disk is full, or fails, once the file has been truncated.
WriteFault(d) ==
    /\ backend = "disk"
    /\ dpc[d] = "readd"
    /\ faults < MaxFaults
    /\ faults' = faults + 1
    /\ excused' = excused \cup {m.id : m \in {k \in MembersOf(cur[d]) : k.text = "torn"}}
    /\ held' = [held EXCEPT ![d] = NoMember]
    /\ dpc' = [dpc EXCEPT ![d] = "send"]
    /\ UNCHANGED <<store, handler, batch, cur, attempt, acked, sends, ignored, slips, clock, crashes>>

-----------------------------------------------------------------------------
(* The environment *)

\* The account is deleted; only PostgreSQL cascades to the queue.
DeleteUser ==
    /\ user
    /\ user' = FALSE
    /\ queue' = IF backend = "postgres" THEN {} ELSE queue
    /\ excused' = IF backend = "postgres" THEN excused \cup {m.id : m \in queue} ELSE excused
    /\ UNCHANGED <<backend, created, tracker, handler, drain, acked, sends, ignored, bounds>>

Tick ==
    /\ clock < MaxClock
    /\ clock' = clock + 1
    /\ UNCHANGED <<store, handler, drain, history, slips, crashes, faults>>

Running(d) == dpc[d] \notin {"new", "done"}

\* The process dies and starts again.  A Redis pipeline is one write to the
\* socket: the server executes the rest of it.  A file that was being written is
\* lost.
Crash ==
    /\ crashes < MaxCrashes
    /\ crashes' = crashes + 1
    /\ queue' = IF backend = "redis"
                THEN queue \cup {NewText(d) : d \in {c \in Drains : dpc[c] = "readd"}}
                ELSE queue
    /\ epc' = [w \in Enqueuers |-> "idle"]
    /\ eev' = [w \in Enqueuers |-> None]
    /\ victim' = [w \in Enqueuers |-> None]
    /\ dpc' = [d \in Drains |-> IF Running(d) THEN "done" ELSE dpc[d]]
    /\ batch' = [d \in Drains |-> {}]
    /\ cur' = [d \in Drains |-> None]
    /\ attempt' = [d \in Drains |-> 0]
    /\ held' = [d \in Drains |-> NoMember]
    /\ tracker' = FALSE
    /\ excused' = excused \cup {m.id : m \in {k \in queue : k.text = "torn"}}
    /\ UNCHANGED <<backend, created, user, acked, sends, ignored, slips, clock, faults>>

Enqueue(w) ==
    \/ \E e \in Events : Begin(w, e)
    \/ CheckSize(w) \/ PopOldest(w) \/ ChooseVictim(w) \/ DeleteVictim(w)
    \/ CapacityFault(w)
    \/ InsertRow(w) \/ AddMember(w) \/ CreateFile(w) \/ WriteFile(w)

Drain(d) ==
    \/ StartDrain(d) \/ Dequeue(d) \/ DequeueFault(d) \/ NextEvent(d)
    \/ SendAccepted(d) \/ SendTransient(d) \/ SendPermanent(d)
    \/ FindForUpdate(d) \/ Rewrite(d) \/ Readd(d)
    \/ FindForDelete(d) \/ Delete(d) \/ StoreFault(d) \/ WriteFault(d)

Next ==
    \/ \E w \in Enqueuers : Enqueue(w)
    \/ \E d \in Drains : Drain(d)
    \/ DeleteUser \/ Tick \/ Crash

Spec == Init /\ [][Next]_vars

-----------------------------------------------------------------------------
(* Properties *)

Readable(e) == \E m \in MembersOf(e) : m.text = "whole"

BeingRewritten(e) == \E d \in Drains : dpc[d] = "readd" /\ cur[d] = e

\* "Events remain in queue until explicitly deleted via DeleteQueuedScrobble":
\* an event EnqueueScrobble accepted stays readable until Trakt accepted it, it
\* was evicted, a drain gave it up or its user was deleted (or PostgreSQL ignored
\* it for another of the same media).  Other drains, with the stale batches they
\* hold, and crashes do not take it away, but for a file that is being written on
\* disk when the process dies or the write fails.
NothingLost ==
    \A e \in acked :
        Readable(e) \/ BeingRewritten(e) \/ sends[e] > 0 \/ e \in excused \cup ignored

\* The handlers about to insert, and the Redis members taken out to be
\* replaced.
Inserting == {w \in Enqueuers : epc[w] = "insert"}
TakenOut == {d \in Drains : dpc[d] = "readd" /\ backend = "redis"}

\* The drains that can hide a member from a size check.
Hiding == {d \in Drains : backend = "redis"}

\* The queue outgrows maxQueuePerUser by no more than the handlers (and, on
\* Redis, the drains) that were between two calls, plus one for every eviction
\* that removed nothing, every rewrite of an event that was gone and every
\* failing call: checking the size and inserting are separate calls.
BoundedOverrun ==
    Cardinality(queue) + Cardinality(Inserting) + Cardinality(TakenOut) + 1
        <= Cap + Cardinality(Enqueuers) + Cardinality(Hiding) + slips + faults

\* Each drain makes Trakt accept an event at most once, but for failing deletes
\* (PostgreSQL, where nothing brings a deleted row back).
DuplicatesAreExplained == backend = "postgres" =>
    \A e \in Events : sends[e] <= Cardinality({d \in Drains : dpc[d] # "new"}) + faults

\* A row that left the table does not come back (PostgreSQL).
NoResurrection ==
    [][backend = "postgres" => \A e \in acked : MembersOf(e) = {} => e \notin {m.id : m \in queue'}]_vars
=============================================================================
