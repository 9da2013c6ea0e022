------------------------------- MODULE Webhook -------------------------------
(***************************************************************************)
(* A Plex webhook on the way to Trakt: the handler api (main.go) with its  *)
(* filter of repeated requests, Handle and scrobbleRequest (lib/trakt)     *)
(* with the store's record of what Trakt was told last, the broadcast to   *)
(* the members of a family, and the queue's ScrobbleFromQueue, which       *)
(* writes the same record without Handle's lock.                           *)
(*                                                                         *)
(* A webhook is a record of what the code tells apart:                     *)
(*   id, username, owner       whose URL was called, for which account     *)
(*   event, player, ratingKey, server                                      *)
(*   viewOffset, duration      0 if it carries none                        *)
(*   section, guids, legacy    the library section, and whether external   *)
(*                             ids or the older fields identify the title  *)
(* The lock is what MultipleLock promises: one request per player and item *)
(* as long as that module's race has not happened.  The tokens of a user   *)
(* are left out; a refresh succeeds or fails.  Trakt's response to a       *)
(* scrobble repeats the progress it was sent.                              *)
(***************************************************************************)
EXTENDS Integers, FiniteSets

CONSTANTS Requests,        \* concurrent HTTP requests
          Hooks,           \* the webhooks that arrive
          Users,           \* Plaxt ids
          Name,            \* the Plex username of a user
          DisplayName,     \* the Trakt display name of a user
          Families,        \* Plex usernames that belong to a family group
          Members,         \* members of the family group
          KeepsBodies,     \* whether the store keeps scrobble bodies: Redis does,
                           \*   PostgreSQL and the disk store do not
          SpecificWindow,  \* seconds: 2 in the code
          TraktWindow,     \* 1
          Retention,       \* 10
          ProgressThreshold,
          MaxQueue,        \* bound: events in the offline queue
          None

ASSUME WebhookAssumption ==
    /\ SpecificWindow \in Nat /\ TraktWindow \in Nat /\ Retention \in Nat
    /\ SpecificWindow <= Retention /\ TraktWindow <= Retention
    /\ ProgressThreshold \in 0..100 /\ MaxQueue \in Nat
    /\ KeepsBodies \in BOOLEAN
    /\ \A h \in Hooks : h.viewOffset \in Nat /\ h.duration \in Nat
    /\ \A h \in Hooks : h.duration > 0 => h.viewOffset <= h.duration
    /\ None \notin Hooks /\ None \notin Users /\ None \notin Nat

VARIABLES entries,         \* webhookDedupeCache: seconds since a key was let through,
          traktScrobbles,  \*   None if the map does not have it
          body,            \* the store's CacheItem of a player and item
          queue,           \* events in the offline queue
          draining,        \* the queued event that Trakt has just accepted
          pc,              \* where each request is
          hook,            \* its webhook
          user,            \* the user it is for
          msg,             \* action and progress for Trakt
          listed,          \* family: authorized members,
          reported,        \*   members whose goroutine has reported,
          failed,          \*   members whose report is an error,
          reached,         \*   history: members who got Trakt's acceptance
          heard,           \* history: what Trakt last accepted through Handle
          passed           \* history: seconds since a webhook passed the filter, as
                           \*   long as a window may be open

filterVars == <<entries, traktScrobbles, passed>>
bodyVars == <<body, heard>>
queueVars == <<queue, draining>>
requestVars == <<pc, hook, user, msg>>
familyVars == <<listed, reported, failed, reached>>
vars == <<filterVars, bodyVars, queueVars, requestVars, familyVars>>

specificKey(id, h) == <<id, h.event, h.ratingKey, h.viewOffset>>
traktKey(u, h) == <<DisplayName[u], h.event, h.ratingKey, h.viewOffset>>
SpecificKeys == {specificKey(h.id, h) : h \in Hooks}
TraktKeys == {traktKey(u, h) : u \in Users, h \in Hooks}
PassKeys == {<<specificKey(h.id, h), traktKey(u, h)>> : u \in Users, h \in Hooks}

lockKey(h) == <<h.player, h.ratingKey>>
Items == {lockKey(h) : h \in Hooks}

Actions == {"start", "pause", "stop", ""}
Progress == 0..100
Msgs == [action : Actions, progress : Progress]
Nothing == [action |-> "", progress |-> 0]
Bodies == [server : {h.server : h \in Hooks} \cup {""}, last : Msgs]
EmptyBody == [server |-> "", last |-> Nothing]
Ages == 0..(Retention + 1) \cup {None}

TypeOK ==
    /\ entries \in [SpecificKeys -> Ages]
    /\ traktScrobbles \in [TraktKeys -> Ages]
    /\ passed \in [PassKeys -> Ages]
    /\ body \in [Items -> Bodies] /\ heard \in [Items -> Bodies]
    /\ queue \subseteq [item : Items, msg : Msgs]
    /\ draining \in [item : Items, msg : Msgs] \cup {None}
    /\ pc \in [Requests -> {"idle", "user", "filter", "checked", "handle", "send", "write",
                             "members", "parse", "broadcast", "respond"}]
    /\ hook \in [Requests -> Hooks \cup {None}]
    /\ user \in [Requests -> Users \cup {None}]
    /\ msg \in [Requests -> Msgs]
    /\ listed \in [Requests -> SUBSET Members]
    /\ reported \in [Requests -> SUBSET Members]
    /\ failed \in [Requests -> SUBSET Members]
    /\ reached \in [Requests -> SUBSET Members]

Init ==
    /\ entries = [k \in SpecificKeys |-> None]
    /\ traktScrobbles = [k \in TraktKeys |-> None]
    /\ passed = [k \in PassKeys |-> None]
    /\ body = [i \in Items |-> EmptyBody] /\ heard = [i \in Items |-> EmptyBody]
    /\ queue = {} /\ draining = None
    /\ pc = [r \in Requests |-> "idle"]
    /\ hook = [r \in Requests |-> None] /\ user = [r \in Requests |-> None]
    /\ msg = [r \in Requests |-> Nothing]
    /\ listed = [r \in Requests |-> {}] /\ reported = [r \in Requests |-> {}]
    /\ failed = [r \in Requests |-> {}] /\ reached = [r \in Requests |-> {}]

Goto(r, there) == pc' = [pc EXCEPT ![r] = there]

\* The request is answered and its goroutine ends.
Finish(r) ==
    /\ Goto(r, "idle")
    /\ hook' = [hook EXCEPT ![r] = None]
    /\ user' = [user EXCEPT ![r] = None]
    /\ msg' = [msg EXCEPT ![r] = Nothing]

-----------------------------------------------------------------------------
(* The handler api *)

\* A webhook arrives.  It takes the family's way if its account is in a family
\* group, and the user's way otherwise or if that lookup fails.
Arrive(r, h) ==
    /\ pc[r] = "idle"
    /\ hook' = [hook EXCEPT ![r] = h]
    /\ \/ h.username \in Families /\ Goto(r, "members")
       \/ Goto(r, "user")
    /\ UNCHANGED <<filterVars, bodyVars, queueVars, user, msg, familyVars>>

\* The user of a webhook: the one of the URL, or for an owner's webhook the one
\* with the account's name.
UserOf(h) ==
    {u \in Users : h.id \in Users /\ IF h.owner /\ h.username # Name[h.id]
                                     THEN Name[u] = h.username ELSE u = h.id}

\* apiSf.Do: requests with the same key that are in flight together share the
\* result of one of them.  No user, or a failed token refresh, is an error.
LookupUser(r) ==
    /\ pc[r] = "user"
    /\ \/ \E q \in Requests :
            /\ pc[q] = "user"
            /\ hook[q].username = hook[r].username /\ hook[q].id = hook[r].id
            /\ \E u \in UserOf(hook[q]) : user' = [user EXCEPT ![r] = u]
            /\ Goto(r, "filter")
            /\ UNCHANGED <<hook, msg>>
       \/ Finish(r)
    /\ UNCHANGED <<filterVars, bodyVars, queueVars, familyVars>>

\* A time within a window blocks.
Recent(age, window) == age # None /\ age < window

\* Variant of Purged: only the last second is kept.
PurgedEarly(age) == IF age # None /\ age > 0 THEN None ELSE age

\* The purge drops what is older than the retention.
Purged(age) == IF age # None /\ age > Retention THEN None ELSE age

\* shouldProcess, under the mutex of webhookDedupeCache.
ShouldProcess(r) ==
    LET h == hook[r]
        specific == specificKey(h.id, h)
        trakt == traktKey(user[r], h) IN
    /\ pc[r] = "filter"
    /\ IF Recent(entries[specific], SpecificWindow) \/ Recent(traktScrobbles[trakt], TraktWindow)
       THEN Finish(r) /\ UNCHANGED filterVars
       ELSE /\ entries' = [k \in SpecificKeys |-> IF k = specific THEN 0 ELSE Purged(entries[k])]
            /\ traktScrobbles' =
                 [k \in TraktKeys |-> IF k = trakt THEN 0 ELSE Purged(traktScrobbles[k])]
            /\ passed' = [passed EXCEPT ![<<specific, trakt>>] = 0]
            /\ Goto(r, "checked")
            /\ UNCHANGED <<hook, user, msg>>
    /\ UNCHANGED <<bodyVars, queueVars, familyVars>>

\* A second passes; ages beyond the retention are not told apart.
Older(age) == IF age = None \/ age > Retention THEN age ELSE age + 1
Faded(age) ==
    IF age = None \/ (age + 1 >= SpecificWindow /\ age + 1 >= TraktWindow) THEN None ELSE age + 1
Tick ==
    /\ entries' = [k \in SpecificKeys |-> Older(entries[k])]
    /\ traktScrobbles' = [k \in TraktKeys |-> Older(traktScrobbles[k])]
    /\ passed' = [k \in PassKeys |-> Faded(passed[k])]
    /\ UNCHANGED <<bodyVars, queueVars, requestVars, familyVars>>

-----------------------------------------------------------------------------
(* Handle *)

\* Inside the lock of a player and item.
Holds(r, i) == pc[r] \in {"handle", "send", "write"} /\ lockKey(hook[r]) = i

\* Variant of Lock: a key per URL.
LockPerUrl(r) ==
    /\ pc[r] = "checked"
    /\ IF hook[r].username # Name[user[r]] \/ hook[r].player = "" \/ hook[r].ratingKey = ""
       THEN Finish(r)
       ELSE /\ \A q \in Requests : ~(Holds(q, lockKey(hook[r])) /\ hook[q].id = hook[r].id)
            /\ Goto(r, "handle")
            /\ UNCHANGED <<hook, user, msg>>
    /\ UNCHANGED <<filterVars, bodyVars, queueVars, familyVars>>

\* api skips the webhooks of other accounts; Handle ignores one without a player
\* or item, and locks its key.
Lock(r) ==
    /\ pc[r] = "checked"
    /\ IF hook[r].username # Name[user[r]] \/ hook[r].player = "" \/ hook[r].ratingKey = ""
       THEN Finish(r)
       ELSE /\ \A q \in Requests : ~Holds(q, lockKey(hook[r]))
            /\ Goto(r, "handle")
            /\ UNCHANGED <<hook, user, msg>>
    /\ UNCHANGED <<filterVars, bodyVars, queueVars, familyVars>>

\* Variant of ProgressOf: in tenths of a percent.
ProgressTenths(h, b) ==
    IF h.duration > 0 THEN (2000 * h.viewOffset + h.duration) \div (2 * h.duration)
    ELSE b.last.progress

\* getAction: the progress is rounded to a percentage, or the recorded one if
\* the webhook has no duration.
ProgressOf(h, b) ==
    IF h.duration > 0 THEN (200 * h.viewOffset + h.duration) \div (2 * h.duration)
    ELSE b.last.progress

getAction(h, b) ==
    LET p == ProgressOf(h, b) IN
    CASE h.event \in {"media.play", "media.resume", "playback.started"} ->
            [action |-> "start", progress |-> p]
      [] h.event \in {"media.pause", "media.stop"} ->
            [action |-> IF p >= ProgressThreshold THEN "stop" ELSE "pause", progress |-> p]
      [] h.event = "media.scrobble" ->
            [action |-> "stop", progress |-> IF p < ProgressThreshold THEN ProgressThreshold ELSE p]
      [] OTHER -> [action |-> "", progress |-> p]

\* A webhook that repeats what is on record: anything after a stop, or the same
\* action at the same progress.
Repeats(h, m, b) == b.server = h.server /\ (b.last.action = "stop" \/ b.last = m)

\* handleShow and handleMovie, with findEpisode and findMovie as their fallback.
FindsBody(h) == h.section \in {"show", "movie"} /\ (h.guids \/ h.legacy)

\* What Handle and ParseWebhookForScrobble ignore.
Ignores(h, b) ==
    LET m == getAction(h, b) IN
    m.action = "" \/ Repeats(h, m, b) \/ (b.server # h.server /\ ~FindsBody(h))

\* Handle reads the record and decides.
Decide(r) ==
    LET h == hook[r]
        b == body[lockKey(h)] IN
    /\ pc[r] = "handle"
    /\ IF Ignores(h, b) THEN Finish(r)
       ELSE /\ msg' = [msg EXCEPT ![r] = getAction(h, b)]
            /\ Goto(r, "send")
            /\ UNCHANGED <<hook, user>>
    /\ UNCHANGED <<filterVars, bodyVars, queueVars, familyVars>>

\* Trakt has accepted something that Handle does not record.
Forget(i) == heard' = [heard EXCEPT ![i] = EmptyBody]

\* scrobbleRequest, 200 or 201: Trakt accepts.  A response that cannot be decoded
\* is not recorded.
SendAccepted(r) ==
    LET h == hook[r] IN
    /\ pc[r] = "send"
    /\ \/ /\ heard' = [heard EXCEPT ![lockKey(h)] = [server |-> h.server, last |-> msg[r]]]
          /\ Goto(r, "write")
          /\ UNCHANGED <<hook, user, msg>>
       \/ Forget(lockKey(h)) /\ Finish(r)
    /\ UNCHANGED <<filterVars, body, queueVars, familyVars>>

\* scrobbleRequest, no response, or 429, 502, 503 or 504: the event is queued
\* unless the queue refuses it.  A lost response may follow an acceptance.
SendTransient(r) ==
    LET i == lockKey(hook[r]) IN
    /\ pc[r] = "send"
    /\ (heard' = heard) \/ Forget(i)
    /\ LET q == queue \cup {[item |-> i, msg |-> msg[r]]} IN
        (queue' = queue) \/ (Cardinality(q) <= MaxQueue /\ queue' = q)
    /\ Finish(r)
    /\ UNCHANGED <<filterVars, body, draining, familyVars>>

\* scrobbleRequest, any other status: the event is dropped.
SendRefused(r) ==
    /\ pc[r] = "send"
    /\ Finish(r)
    /\ UNCHANGED <<filterVars, bodyVars, queueVars, familyVars>>

\* Variant of WriteScrobbleBody: the action is not recorded.
WriteScrobbleBodyProgress(i, server, m) ==
    body' = IF KeepsBodies
            THEN [body EXCEPT ![i] = [server |-> server,
                                      last |-> [m EXCEPT !.action = body[i].last.action]]]
            ELSE body

\* WriteScrobbleBody of the stores: only Redis keeps it.
WriteScrobbleBody(i, server, m) ==
    body' = IF KeepsBodies THEN [body EXCEPT ![i] = [server |-> server, last |-> m]] ELSE body

\* scrobbleRequest records what Trakt accepted, and Handle unlocks.
Write(r) ==
    /\ pc[r] = "write"
    /\ WriteScrobbleBody(lockKey(hook[r]), hook[r].server, msg[r])
    /\ Finish(r)
    /\ UNCHANGED <<filterVars, heard, queueVars, familyVars>>

\* Redis: the record expires.
Expire(i) ==
    /\ body[i] # EmptyBody
    /\ body' = [body EXCEPT ![i] = EmptyBody]
    /\ Forget(i)
    /\ UNCHANGED <<filterVars, queueVars, requestVars, familyVars>>

-----------------------------------------------------------------------------
(* ScrobbleFromQueue, called by a drain *)

\* A drain sends a queued event: Trakt accepts it, or the event is given up.
DrainSend(e) ==
    /\ draining = None /\ e \in queue
    /\ \/ draining' = e /\ queue' = queue /\ Forget(e.item)
       \/ draining' = None /\ queue' = queue \ {e} /\ heard' = heard
    /\ UNCHANGED <<filterVars, body, requestVars, familyVars>>

\* It records the event, without the server, which the queue does not keep; a
\* response that cannot be decoded is not recorded.  The event is deleted.
DrainWrite ==
    /\ draining # None
    /\ \/ WriteScrobbleBody(draining.item, "", draining.msg) /\ Forget(draining.item)
       \/ UNCHANGED bodyVars
    /\ queue' = queue \ {draining}
    /\ draining' = None
    /\ UNCHANGED <<filterVars, requestVars, familyVars>>

-----------------------------------------------------------------------------
(* handleFamilyWebhook and BroadcastScrobble *)

\* ListGroupMembers fails, or returns members; those authorized are kept.
ListMembers(r) ==
    /\ pc[r] = "members"
    /\ \E S \in SUBSET Members :
        IF S = {} THEN Finish(r) /\ UNCHANGED listed
        ELSE /\ listed' = [listed EXCEPT ![r] = S]
             /\ Goto(r, "parse")
             /\ UNCHANGED <<hook, user, msg>>
    /\ UNCHANGED <<filterVars, bodyVars, queueVars, reported, failed, reached>>

Forgotten(r) ==
    /\ listed' = [listed EXCEPT ![r] = {}]
    /\ reported' = [reported EXCEPT ![r] = {}]
    /\ failed' = [failed EXCEPT ![r] = {}]
    /\ reached' = [reached EXCEPT ![r] = {}]

\* ParseWebhookForScrobble, without the lock.
ParseWebhook(r) ==
    LET h == hook[r] IN
    /\ pc[r] = "parse"
    /\ \/ /\ h.player = "" \/ h.ratingKey = "" \/ Ignores(h, body[lockKey(h)])
          /\ Finish(r) /\ Forgotten(r)
       \/ /\ h.player # "" /\ h.ratingKey # "" /\ ~Ignores(h, body[lockKey(h)])
          /\ msg' = [msg EXCEPT ![r] = getAction(h, body[lockKey(h)])]
          /\ Goto(r, "broadcast")
          /\ UNCHANGED <<hook, user, familyVars>>
    /\ UNCHANGED <<filterVars, bodyVars, queueVars>>

\* The goroutine of a member sends the scrobble and reports to the channel, which
\* has room for every member.
ReportMember(r, m) ==
    /\ pc[r] = "broadcast" /\ m \in listed[r] \ reported[r]
    /\ reported' = [reported EXCEPT ![r] = @ \cup {m}]
    /\ \/ failed' = failed /\ reached' = [reached EXCEPT ![r] = @ \cup {m}]
       \/ failed' = [failed EXCEPT ![r] = @ \cup {m}] /\ reached' = reached
    /\ UNCHANGED <<filterVars, bodyVars, queueVars, requestVars, listed>>

\* Variant of Collect: the channel is closed before every goroutine is done.
CollectEarly(r) ==
    /\ pc[r] = "broadcast" /\ reported[r] # {}
    /\ Goto(r, "respond")
    /\ UNCHANGED <<filterVars, bodyVars, queueVars, hook, user, msg, familyVars>>

\* wg.Wait and close: the collector leaves its loop when all have reported.
Collect(r) ==
    /\ pc[r] = "broadcast" /\ reported[r] = listed[r]
    /\ Goto(r, "respond")
    /\ UNCHANGED <<filterVars, bodyVars, queueVars, hook, user, msg, familyVars>>

\* handleFamilyWebhook answers with the number of members that failed.  It builds
\* a retry item for each failure that may be transient, and drops it.
Respond(r) ==
    /\ pc[r] = "respond"
    /\ Finish(r) /\ Forgotten(r)
    /\ UNCHANGED <<filterVars, bodyVars, queueVars>>

HandleStep(r) ==
    \/ LookupUser(r) \/ ShouldProcess(r) \/ Lock(r) \/ Decide(r)
    \/ SendAccepted(r) \/ SendTransient(r) \/ SendRefused(r) \/ Write(r)

FamilyStep(r) ==
    \/ ListMembers(r) \/ ParseWebhook(r) \/ Collect(r) \/ Respond(r)
    \/ \E m \in Members : ReportMember(r, m)

Next ==
    \/ \E r \in Requests :
        \/ \E h \in Hooks : Arrive(r, h)
        \/ HandleStep(r)
        \/ FamilyStep(r)
    \/ Tick
    \/ \E i \in Items : Expire(i)
    \/ \E e \in queue : DrainSend(e)
    \/ DrainWrite

Spec == Init /\ [][Next]_vars

-----------------------------------------------------------------------------
(* Properties *)

\* Two webhooks pass shouldProcess with the same URL, event, item and offset only
\* SpecificWindow seconds apart, and with the same Trakt account only TraktWindow
\* seconds apart, although every pass purges old entries of both maps.
NoRapidRepeat ==
    [][\A r \in Requests : pc[r] = "filter" /\ pc'[r] = "checked" =>
        LET h == hook[r] IN
        \A k \in PassKeys :
            /\ k[1] = specificKey(h.id, h) => ~Recent(passed[k], SpecificWindow)
            /\ k[2] = traktKey(user[r], h) => ~Recent(passed[k], TraktWindow)]_vars

\* On Redis, Handle never sends Trakt what Trakt has already heard from it: an
\* action at the same progress, or anything after a stop.  The record may expire,
\* a response may be lost, and a drain may overwrite the record; nothing else
\* lets a webhook through twice, whatever other requests do meanwhile.
NoRepeat ==
    KeepsBodies => \A r \in Requests :
        LET told == heard[lockKey(hook[r])] IN
        pc[r] = "send" /\ told.server = hook[r].server
            => told.last.action # "stop" /\ told.last # msg[r]

\* On Redis, the record of an item that no request is recording is what Trakt
\* last heard of it.
RecordIsCurrent ==
    KeepsBodies => \A i \in Items :
        heard[i] # EmptyBody /\ (\A r \in Requests : ~(Holds(r, i) /\ pc[r] = "write"))
            => body[i] = heard[i]

\* A family's webhook is answered after every member has been tried, and every
\* member counted as a success has been reached.
SuccessIsReal ==
    \A r \in Requests : pc[r] = "respond" => listed[r] \ failed[r] \subseteq reached[r]
=============================================================================
