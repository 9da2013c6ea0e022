----------------------------- MODULE RetryQueue -----------------------------
(***************************************************************************)
(* The durable retry queue of family scrobbles: the table                  *)
(* retry_queue_items (lib/store/postgresql_family.go), the worker that     *)
(* polls it (lib/queue/worker.go) and the goroutine that logs its depth    *)
(* (main.go, logRetryQueueMetrics), which goes through the same fetch.     *)
(*                                                                         *)
(* A fetch is a transaction of two steps: the SELECT ... FOR UPDATE SKIP   *)
(* LOCKED that locks the due rows, and the UPDATE and COMMIT that mark     *)
(* them "retrying" and release them.  Everything a worker does afterwards  *)
(* uses the attempt count it read in the SELECT.                           *)
(*                                                                         *)
(* next_attempt_at is abstracted to whether it has passed ("due"); the     *)
(* order of the rows of one batch is left open.                            *)
(***************************************************************************)
EXTENDS Naturals, FiniteSets

CONSTANTS Items,            \* identifiers of retry_queue_items rows
          Members,          \* identifiers of group_members rows
          Workers,          \* worker loops, one per running process
          Metrics,          \* the metrics goroutine
          BadPayload,       \* items whose payload is not a ScrobbleBody
          None,             \* "no process" and "no member"
          MaxRetryAttempts, \* 5 in the code
          BatchSize,        \* 50 in the code
          MaxTroubles       \* bound: crashes and failing database calls explored

ASSUME RetryAssumption ==
    /\ MaxRetryAttempts \in Nat \ {0}
    /\ BatchSize \in Nat \ {0}
    /\ MaxTroubles \in Nat
    /\ BadPayload \subseteq Items
    /\ IsFiniteSet(Workers)
    /\ Metrics \notin Workers
    /\ None \notin Workers \cup {Metrics}
    /\ None \notin Members

VARIABLES rows,      \* rows[i]: the mutable columns of item i
          owner,     \* owner[i]: its group_member_id, None before the INSERT
          members,   \* rows of group_members
          lockedBy,  \* lockedBy[i]: the transaction holding the row lock
          pc,        \* pc[p]: where process p is
          batch,     \* batch[p]: what p read and has not started on
          cur,       \* cur[p]: the item p is working on, as p read it
          fails,     \* history: refused sends of item i, up to the ceiling
          delivered, \* history: sends of item i that Trakt accepted
          notified,  \* history: items whose owner was notified
          crashes,
          faults

table == <<rows, owner, members, lockedBy>>
local == <<pc, batch, cur>>
history == <<fails, delivered, notified>>
bounds == <<crashes, faults>>
vars == <<table, local, history, bounds>>

Procs == Workers \cup {Metrics}
Live == {"queued", "retrying"}
Status == Live \cup {"absent", "permanent_failure"}
Row == [status: Status, attempt: 0..MaxRetryAttempts, due: BOOLEAN,
        lastErr: {"none", "send", "member", "payload"}]
NoRow == [status |-> "absent", attempt |-> 0, due |-> FALSE, lastErr |-> "none"]
Snapshot == [id: Items, attempt: 0..MaxRetryAttempts]
NoItem == [id |-> None, attempt |-> 0]

TypeOK ==
    /\ rows \in [Items -> Row]
    /\ owner \in [Items -> Members \cup {None}]
    /\ members \subseteq Members
    /\ lockedBy \in [Items -> Procs \cup {None}]
    /\ pc \in [Procs -> {"idle", "selected", "loop", "lookup", "send", "sent",
                         "failed", "notify", "badMember", "badPayload"}]
    /\ batch \in [Procs -> SUBSET Snapshot]
    /\ cur \in [Procs -> Snapshot \cup {NoItem}]
    /\ fails \in [Items -> 0..MaxRetryAttempts]
    /\ delivered \in [Items -> Nat]
    /\ notified \subseteq Items
    /\ crashes \in 0..MaxTroubles
    /\ faults \in 0..MaxTroubles

Init ==
    /\ rows = [i \in Items |-> NoRow]
    /\ owner = [i \in Items |-> None]
    /\ members = Members
    /\ lockedBy = [i \in Items |-> None]
    /\ pc = [p \in Procs |-> "idle"]
    /\ batch = [p \in Procs |-> {}]
    /\ cur = [p \in Procs |-> NoItem]
    /\ fails = [i \in Items |-> 0]
    /\ delivered = [i \in Items |-> 0]
    /\ notified = {}
    /\ crashes = 0
    /\ faults = 0

-----------------------------------------------------------------------------
(* The table *)

\* Variant of EnqueueRetryItem: an item that was given up is queued again from the
\* start.
EnqueueRetryItemAgain(i, m, due) ==
    /\ owner[i] = None \/ rows[i].status = "permanent_failure"
    /\ m \in members
    /\ owner' = [owner EXCEPT ![i] = m]
    /\ rows' = [rows EXCEPT ![i] = [status |-> "queued", attempt |-> 0,
                                    due |-> due, lastErr |-> "none"]]
    /\ UNCHANGED <<members, lockedBy, local, history, bounds>>

\* EnqueueRetryItem: Validate, then an INSERT whose foreign key needs the member.
EnqueueRetryItem(i, m, due) ==
    /\ owner[i] = None
    /\ m \in members
    /\ owner' = [owner EXCEPT ![i] = m]
    /\ rows' = [rows EXCEPT ![i] = [status |-> "queued", attempt |-> 0,
                                    due |-> due, lastErr |-> "none"]]
    /\ UNCHANGED <<members, lockedBy, local, history, bounds>>

\* RemoveGroupMember, with the ON DELETE CASCADE to the member's items; the
\* DELETE waits for the row locks of a fetch in progress.
RemoveGroupMember(m) ==
    /\ m \in members
    /\ \A i \in Items : owner[i] = m => lockedBy[i] = None
    /\ members' = members \ {m}
    /\ rows' = [i \in Items |-> IF owner[i] = m THEN NoRow ELSE rows[i]]
    /\ UNCHANGED <<owner, lockedBy, local, history, bounds>>

\* The clock passes next_attempt_at.
BecomeDue(i) ==
    /\ rows[i].status \in Live
    /\ ~rows[i].due
    /\ rows' = [rows EXCEPT ![i].due = TRUE]
    /\ UNCHANGED <<owner, members, lockedBy, local, history, bounds>>

\* Variant of Fetchable: only "queued" rows are taken, so that a row a dead
\* worker marked "retrying" is never polled.
FetchableQueued(p) ==
    {i \in Items : /\ rows[i].status = "queued"
                   /\ rows[i].due \/ p = Metrics
                   /\ lockedBy[i] = None}

\* ListDueRetryItems' WHERE clause; the metrics goroutine asks for everything
\* due within 24 hours, and no backoff is that long.
Fetchable(p) ==
    {i \in Items : /\ rows[i].status \in Live
                   /\ rows[i].due \/ p = Metrics
                   /\ lockedBy[i] = None}

\* The SELECT ... LIMIT ... FOR UPDATE SKIP LOCKED.  The metrics goroutine's
\* limit, 1000, is taken to be above the number of items.
SelectDue(p, S) ==
    /\ pc[p] = "idle"
    /\ S \subseteq Fetchable(p)
    /\ S # {}
    /\ p # Metrics => Cardinality(S) <= BatchSize
    /\ S = Fetchable(p) \/ (p # Metrics /\ Cardinality(S) = BatchSize)
    /\ lockedBy' = [i \in Items |-> IF i \in S THEN p ELSE lockedBy[i]]
    /\ batch' = [batch EXCEPT ![p] =
                   {[id |-> i, attempt |-> rows[i].attempt] : i \in S}]
    /\ pc' = [pc EXCEPT ![p] = "selected"]
    /\ UNCHANGED <<rows, owner, members, cur, history, bounds>>

\* processBatch with no item due.
PollNothing(p) ==
    /\ pc[p] = "idle"
    /\ Fetchable(p) = {}
    /\ UNCHANGED vars

Unlock(p) == [i \in Items |-> IF lockedBy[i] = p THEN None ELSE lockedBy[i]]

\* The UPDATE to "retrying" and the COMMIT.  The metrics goroutine only counts
\* what it fetched.
CommitFetch(p) ==
    /\ pc[p] = "selected"
    /\ rows' = [i \in Items |-> IF lockedBy[i] = p
                                THEN [rows[i] EXCEPT !.status = "retrying"]
                                ELSE rows[i]]
    /\ lockedBy' = Unlock(p)
    /\ pc' = [pc EXCEPT ![p] = IF p = Metrics THEN "idle" ELSE "loop"]
    /\ batch' = [batch EXCEPT ![p] = IF p = Metrics THEN {} ELSE @]
    /\ UNCHANGED <<owner, members, cur, history, bounds>>

\* The UPDATE or the COMMIT fails and the transaction is rolled back.
RollbackFetch(p) ==
    /\ pc[p] = "selected"
    /\ crashes + faults < MaxTroubles
    /\ faults' = faults + 1
    /\ lockedBy' = Unlock(p)
    /\ pc' = [pc EXCEPT ![p] = "idle"]
    /\ batch' = [batch EXCEPT ![p] = {}]
    /\ UNCHANGED <<rows, owner, members, cur, history, crashes>>

-----------------------------------------------------------------------------
(* The worker's loop over a batch *)

\* processBatch takes the next item of the batch, or returns.
NextItem(w) ==
    /\ pc[w] = "loop"
    /\ \/ /\ batch[w] = {}
          /\ pc' = [pc EXCEPT ![w] = "idle"]
          /\ UNCHANGED <<batch, cur>>
       \/ \E s \in batch[w] :
          /\ cur' = [cur EXCEPT ![w] = s]
          /\ batch' = [batch EXCEPT ![w] = @ \ {s}]
          /\ pc' = [pc EXCEPT ![w] = "lookup"]
    /\ UNCHANGED <<table, history, bounds>>

\* GetGroupMember and the decoding of the payload.
LookupMember(w) ==
    LET i == cur[w].id IN
    /\ pc[w] = "lookup"
    /\ pc' = [pc EXCEPT ![w] = IF owner[i] \notin members THEN "badMember"
                               ELSE IF i \in BadPayload THEN "badPayload"
                               ELSE "send"]
    /\ UNCHANGED <<table, batch, cur, history, bounds>>

\* GetGroupMember fails for any other reason: the worker does not tell it from
\* a missing member.
LookupFault(w) ==
    /\ pc[w] = "lookup"
    /\ crashes + faults < MaxTroubles
    /\ faults' = faults + 1
    /\ pc' = [pc EXCEPT ![w] = "badMember"]
    /\ UNCHANGED <<table, batch, cur, history, crashes>>

\* ScrobbleFromQueue("stop", ...): Trakt accepts it,
SendAccepted(w) ==
    /\ pc[w] = "send"
    /\ delivered' = [delivered EXCEPT ![cur[w].id] = @ + 1]
    /\ pc' = [pc EXCEPT ![w] = "sent"]
    /\ UNCHANGED <<table, batch, cur, fails, notified, bounds>>

\* Variant of SendRefused: the error is taken for a success.
SendRefusedSent(w) ==
    /\ pc[w] = "send"
    /\ pc' = [pc EXCEPT ![w] = "sent"]
    /\ UNCHANGED <<table, batch, cur, history, bounds>>

\* or the call fails, for whatever reason.
SendRefused(w) ==
    LET i == cur[w].id IN
    /\ pc[w] = "send"
    /\ fails' = [fails EXCEPT ![i] = IF @ < MaxRetryAttempts THEN @ + 1 ELSE @]
    /\ pc' = [pc EXCEPT ![w] = "failed"]
    /\ UNCHANGED <<table, batch, cur, delivered, notified, bounds>>

\* Variant of MarkSuccess: the row stays.
MarkSuccessKeeps(w) ==
    /\ pc[w] = "sent"
    /\ pc' = [pc EXCEPT ![w] = "loop"]
    /\ cur' = [cur EXCEPT ![w] = NoItem]
    /\ UNCHANGED <<table, batch, history, bounds>>

\* MarkRetrySuccess: DELETE ... WHERE id.
MarkSuccess(w) ==
    LET i == cur[w].id IN
    /\ pc[w] = "sent"
    /\ lockedBy[i] = None
    /\ rows' = [rows EXCEPT ![i] = NoRow]
    /\ pc' = [pc EXCEPT ![w] = "loop"]
    /\ cur' = [cur EXCEPT ![w] = NoItem]
    /\ UNCHANGED <<owner, members, lockedBy, batch, history, bounds>>

\* Variants of MarkRetryFailure: the count the worker already incremented is
\* incremented again, always or for an item that is rescheduled; a permanent
\* failure deletes the row.
MarkRetryFailureTwice(i, attempt, err, permanent) ==
    /\ lockedBy[i] = None
    /\ rows' = [rows EXCEPT ![i] =
         IF @.status = "absent" THEN @
         ELSE [status  |-> IF permanent THEN "permanent_failure" ELSE "queued",
               attempt |-> attempt + 1, due |-> permanent, lastErr |-> err]]
    /\ UNCHANGED <<owner, members, lockedBy>>

MarkRetryFailureAhead(i, attempt, err, permanent) ==
    /\ lockedBy[i] = None
    /\ rows' = [rows EXCEPT ![i] =
         IF @.status = "absent" THEN @
         ELSE [status  |-> IF permanent THEN "permanent_failure" ELSE "queued",
               attempt |-> IF permanent THEN MaxRetryAttempts ELSE attempt + 1,
               due |-> permanent, lastErr |-> err]]
    /\ UNCHANGED <<owner, members, lockedBy>>

MarkRetryFailureDeletes(i, attempt, err, permanent) ==
    /\ lockedBy[i] = None
    /\ rows' = [rows EXCEPT ![i] =
         IF @.status = "absent" \/ permanent THEN NoRow
         ELSE [status |-> "queued", attempt |-> attempt, due |-> FALSE, lastErr |-> err]]
    /\ UNCHANGED <<owner, members, lockedBy>>

\* MarkRetryFailure: UPDATE ... WHERE id, whatever the row's status is by now;
\* a row that is gone is not created again.
MarkRetryFailure(i, attempt, err, permanent) ==
    /\ lockedBy[i] = None
    /\ rows' = [rows EXCEPT ![i] =
         IF @.status = "absent" THEN @
         ELSE [status  |-> IF permanent THEN "permanent_failure" ELSE "queued",
               attempt |-> IF permanent THEN MaxRetryAttempts ELSE attempt,
               due     |-> permanent,
               lastErr |-> err]]
    /\ UNCHANGED <<owner, members, lockedBy>>

\* Variant of Exhausted: the ceiling is compared one attempt too early.
ExhaustedEarly(w) == cur[w].attempt + 2 >= MaxRetryAttempts

\* The failure that is being recorded is the last one.
Exhausted(w) == cur[w].attempt + 1 >= MaxRetryAttempts

\* The three ways processItem gives up on, or reschedules, an item.
MarkFailure(w) ==
    LET i == cur[w].id
    IN  /\ \/ /\ pc[w] = "badMember"
              /\ MarkRetryFailure(i, MaxRetryAttempts, "member", TRUE)
              /\ pc' = [pc EXCEPT ![w] = "loop"]
              /\ cur' = [cur EXCEPT ![w] = NoItem]
           \/ /\ pc[w] = "badPayload"
              /\ MarkRetryFailure(i, MaxRetryAttempts, "payload", TRUE)
              /\ pc' = [pc EXCEPT ![w] = "loop"]
              /\ cur' = [cur EXCEPT ![w] = NoItem]
           \/ /\ pc[w] = "failed"
              /\ MarkRetryFailure(i, cur[w].attempt + 1, "send", Exhausted(w))
              /\ pc' = [pc EXCEPT ![w] = IF Exhausted(w) THEN "notify" ELSE "loop"]
              /\ cur' = [cur EXCEPT ![w] = IF Exhausted(w) THEN @ ELSE NoItem]
        /\ UNCHANGED <<batch, history, bounds>>

\* The database call that records the outcome fails; its error is logged or
\* dropped and the worker goes on (to the notification, when it gave up).
MarkFault(w) ==
    LET gaveUp == pc[w] = "failed" /\ Exhausted(w) IN
    /\ pc[w] \in {"sent", "failed", "badMember", "badPayload"}
    /\ crashes + faults < MaxTroubles
    /\ faults' = faults + 1
    /\ pc' = [pc EXCEPT ![w] = IF gaveUp THEN "notify" ELSE "loop"]
    /\ cur' = [cur EXCEPT ![w] = IF gaveUp THEN @ ELSE NoItem]
    /\ UNCHANGED <<table, batch, history, crashes>>

\* NotifyPermanentFailure.
Notify(w) ==
    /\ pc[w] = "notify"
    /\ notified' = notified \cup {cur[w].id}
    /\ pc' = [pc EXCEPT ![w] = "loop"]
    /\ cur' = [cur EXCEPT ![w] = NoItem]
    /\ UNCHANGED <<table, batch, fails, delivered, bounds>>

\* A process dies with its worker; the metrics goroutine that is modelled may
\* be this process's or another's.  Open transactions are rolled back, and the
\* process starts again with an empty worker.
Crash(w) ==
    \E dead \in {{w}, {w, Metrics}} :
        /\ pc[w] # "idle"
        /\ crashes + faults < MaxTroubles
        /\ crashes' = crashes + 1
        /\ pc' = [p \in Procs |-> IF p \in dead THEN "idle" ELSE pc[p]]
        /\ batch' = [p \in Procs |-> IF p \in dead THEN {} ELSE batch[p]]
        /\ cur' = [p \in Procs |-> IF p \in dead THEN NoItem ELSE cur[p]]
        /\ lockedBy' = [i \in Items |-> IF lockedBy[i] \in dead THEN None
                                        ELSE lockedBy[i]]
        /\ UNCHANGED <<rows, owner, members, history, faults>>

Fetch(p) == \/ \E S \in SUBSET Items : SelectDue(p, S)
            \/ CommitFetch(p)

ProcessItem(w) == \/ NextItem(w) \/ LookupMember(w)
                  \/ SendAccepted(w) \/ SendRefused(w)
                  \/ MarkSuccess(w) \/ MarkFailure(w) \/ Notify(w)

Next ==
    \/ \E i \in Items, m \in Members, due \in BOOLEAN : EnqueueRetryItem(i, m, due)
    \/ \E m \in Members : RemoveGroupMember(m)
    \/ \E i \in Items : BecomeDue(i)
    \/ \E p \in Procs : Fetch(p) \/ PollNothing(p) \/ RollbackFetch(p)
    \/ \E w \in Workers : ProcessItem(w) \/ LookupFault(w) \/ MarkFault(w) \/ Crash(w)

Spec == Init /\ [][Next]_vars

\* The worker polls every 15 seconds for ever and the metrics goroutine, every
\* five minutes, holds its row locks for one transaction only: a poll that would
\* find work is not missed for ever, and a statement waiting for a row lock gets
\* it.  Time passes.
Fairness ==
    /\ \A p \in Procs : WF_vars(CommitFetch(p))
    /\ \A w \in Workers : /\ SF_vars(ProcessItem(w))
                          /\ SF_vars(\E S \in SUBSET Items : SelectDue(w, S))
    /\ \A i \in Items : WF_vars(BecomeDue(i))

FairSpec == Spec /\ Fairness

-----------------------------------------------------------------------------
(* Properties *)

\* Only a row at the ceiling is a permanent failure, and a row that is still
\* polled is below it: no interleaving of workers, with the stale attempt counts
\* they carry, makes MarkRetryFailure write a row Validate would refuse.
CeilingAgrees ==
    \A i \in Items :
        /\ rows[i].status = "permanent_failure" => rows[i].attempt = MaxRetryAttempts
        /\ rows[i].status \in Live => rows[i].attempt < MaxRetryAttempts

\* processItem gives up on an item because of failed sends only after Trakt
\* refused it MaxRetryAttempts times, and the owner is told of nothing less,
\* however many workers share the item and whichever of them crash.
GivingUpIsEarned ==
    \A i \in Items :
        /\ /\ rows[i].status = "permanent_failure"
           /\ rows[i].lastErr = "send"
           => fails[i] = MaxRetryAttempts
        /\ i \in notified => fails[i] = MaxRetryAttempts

\* An item that was enqueued and is no longer in the table was accepted by
\* Trakt, or went with its member (ON DELETE CASCADE).
NothingLost ==
    \A i \in Items :
        /\ owner[i] # None
        /\ rows[i].status = "absent"
        => delivered[i] > 0 \/ owner[i] \notin members

\* Trakt accepts an item more than once only because several workers held it,
\* or because a crash or a failed DELETE came between the send and its record.
DuplicatesAreExplained ==
    \A i \in Items : delivered[i] <= Cardinality(Workers) + crashes + faults

\* Where a worker holds an item in cur.
Busy == {"lookup", "send", "sent", "failed", "notify", "badMember", "badPayload"}

\* What a worker carries between its database calls is never ahead of what
\* happened: the attempt count it read is at most the refusals Trakt gave, it
\* deletes an item only after Trakt accepted it and notifies only after the last
\* refusal; and a row locked by a fetch is still there when the fetch commits.
CarriedStateIsSound ==
    /\ \A i \in Items :
        /\ lockedBy[i] # None => rows[i].status \in Live
        /\ rows[i].status \in Live => rows[i].attempt <= fails[i]
    /\ \A p \in Procs : \A s \in batch[p] :
        s.attempt < MaxRetryAttempts /\ s.attempt <= fails[s.id]
    /\ \A w \in Workers : pc[w] \in Busy =>
        /\ cur[w] \in Snapshot
        /\ cur[w].attempt < MaxRetryAttempts
        /\ cur[w].attempt <= fails[cur[w].id]
        /\ pc[w] = "failed" => cur[w].attempt < fails[cur[w].id]
        /\ pc[w] = "notify" => fails[cur[w].id] = MaxRetryAttempts
        /\ pc[w] = "sent" => delivered[cur[w].id] > 0

\* A permanent failure that no worker has in hand is final: neither a fetch, nor
\* the metrics goroutine, nor a restart brings its row back into the queue.  (A
\* worker that took the item before it was given up still writes its outcome.)
PermanentIsFinal ==
    [][\A i \in Items :
         rows[i].status = "permanent_failure" /\ (\A w \in Workers : cur[w].id # i)
         => rows'[i].status \in {"permanent_failure", "absent"}]_vars

\* Every item is eventually delivered, given up or removed: none stays
\* "queued" or "retrying" for ever, although crashes and the metrics goroutine
\* leave rows marked "retrying" that nobody works on.
EventuallySettled ==
    \A i \in Items : rows[i].status \in Live ~> rows[i].status \notin Live
=============================================================================
