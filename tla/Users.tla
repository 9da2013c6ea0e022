-------------------------------- MODULE Users --------------------------------
(***************************************************************************)
(* The users' records and the Trakt tokens in them: the webhooks that      *)
(* refresh a token shortly before it expires (main.go, api), the callbacks *)
(* that create and renew a user (authorize, persistAuthorizedUser), the    *)
(* pages that edit or delete one, over each of the three stores.           *)
(*                                                                         *)
(* Every one of them reads a record, and later writes the whole of it.     *)
(* PostgreSQL writes a row.  Redis executes a pipeline, which is one step  *)
(* here: its few short commands are run as they are read.  The disk store  *)
(* writes the name, and then the other fields.  A token stands for the     *)
(* pair of access and refresh token that Trakt gave out together; its      *)
(* expiry is the moment from which a webhook refreshes it.  The display    *)
(* name is left out.                                                       *)
(***************************************************************************)
EXTENDS Naturals

CONSTANTS Backends,    \* the stores explored: "postgres", "redis", "disk"
          Ids,         \* identifiers of users
          Names,       \* Plex usernames
          Handlers,    \* requests in flight
          None,
          DueAfter,    \* time until a token is refreshed: 90 days - 48 hours
          RecordLife,  \* accessTokenTimeout of the Redis store: 75 days
          MaxTokens,   \* bound: tokens Trakt gives out
          MaxClock,    \* bound: time explored
          MaxTroubles  \* bound: crashes, failing requests and writes explored

ASSUME UsersAssumption ==
    /\ Backends \subseteq {"postgres", "redis", "disk"}
    /\ None \notin Ids \cup Names
    /\ {DueAfter, RecordLife, MaxTokens} \subseteq Nat \ {0}
    /\ {MaxClock, MaxTroubles} \subseteq Nat

VARIABLES backend,  \* the store this deployment was configured with
          users,    \* users[i]: the fields stored under id i
          ttl,      \* ttl[i]: until when Redis keeps the record
          bound,    \* bound[n]: the id Redis maps username n to, and until when
          used,     \* identifiers uuid() has returned
          live,     \* the refresh tokens Trakt accepts
          issued,   \* how many tokens Trakt has given out
          job,      \* job[h]: what request h does, and how far it is
          broken,   \* history: records whose token a trouble or an edit lost
          clock, troubles

store == <<backend, users, ttl, bound, used>>
trakt == <<live, issued>>
vars == <<store, trakt, job, broken, clock, troubles>>

Times == 0..(MaxClock + DueAfter + RecordLife)
Tokens == 0..MaxTokens   \* 0: none

\* A stored record, and a copy of one.  No field is there before it is written.
Record == [name: Names \cup {None}, token: Tokens, exp: Times]
Missing == [name |-> None, token |-> 0, exp |-> 0]
Forever == 0
Unbound == [id |-> None, until |-> Forever]

\* A request: where it is, what it does; the username and the id it was given (of
\* a webhook: its key in apiSf), and whether the webhook is of the server's owner
\* (kept until the user is looked up); the id and the copy of the record it works
\* on; who held the name when the Redis store looked.
Saving == {"row", "holder", "pipe", "name", "rest"}
Job == [pc: {"idle", "join", "get", "byname", "reget", "refresh", "exchange",
             "persist"} \cup Saving,
        kind: {"none", "hook", "renew", "onboard", "edit", "admin", "delete"},
        arg: Names \cup {None}, url: Ids \cup {None}, owner: BOOLEAN,
        who: Ids \cup {None}, rec: Record, holder: Ids \cup {None}]
Idle == [pc |-> "idle", kind |-> "none", arg |-> None, url |-> None, owner |-> FALSE,
         who |-> None, rec |-> Missing, holder |-> None]

TypeOK ==
    /\ backend \in Backends
    /\ users \in [Ids -> Record]
    /\ ttl \in [Ids -> Times]
    /\ bound \in [Names -> [id: Ids \cup {None}, until: Times]]
    /\ used \subseteq Ids
    /\ live \subseteq Tokens \ {0}
    /\ issued \in Tokens
    /\ job \in [Handlers -> Job]
    /\ broken \subseteq Ids
    /\ clock \in 0..MaxClock
    /\ troubles \in 0..MaxTroubles

Init ==
    /\ backend \in Backends
    /\ users = [i \in Ids |-> Missing]
    /\ ttl = [i \in Ids |-> Forever]
    /\ bound = [n \in Names |-> Unbound]
    /\ used = {}
    /\ live = {}
    /\ issued = 0
    /\ job = [h \in Handlers |-> Idle]
    /\ broken = {}
    /\ clock = 0
    /\ troubles = 0

-----------------------------------------------------------------------------
(* The stores *)

\* GetUser finds the record.
Exists(i) == users[i].token # 0 /\ users[i].name # None

\* The ids GetUserByName may come upon; the disk store prefers the latest update.
WithName(n) ==
    LET named == {i \in Ids : Exists(i) /\ users[i].name = n}
    IN  CASE backend = "redis" -> {bound[n].id} \ {None}
          [] backend = "postgres" -> named
          [] OTHER -> {i \in named : \A j \in named : users[j].exp <= users[i].exp}

At(h, at) == job' = [job EXCEPT ![h].pc = at]

\* The request is answered; for a webhook, so are those that wait for its key.
Waiting(h) == {g \in Handlers : /\ job[g].pc = "join"
                                /\ job[h].kind = "hook"
                                /\ job[g].arg = job[h].arg /\ job[g].url = job[h].url}

End(h) == job' = [g \in Handlers |-> IF g = h \/ g \in Waiting(h) THEN Idle ELSE job[g]]

\* WriteUser is called with record r of user i.
FirstWrite ==
    CASE backend = "postgres" -> "row" [] backend = "redis" -> "holder" [] OTHER -> "name"

Write(h, i, r) ==
    job' = [job EXCEPT ![h].who = i, ![h].rec = r, ![h].pc = FirstWrite]

\* A user that DiskStore.GetUser returned has no store: its save panics, and the
\* server drops the request.
SaveLoaded(h, i, r) == IF backend = "disk" THEN End(h) ELSE Write(h, i, r)

\* A token is stored.  One that Trakt does not accept any more can only come from
\* a page that edits the record and had read it before a refresh.
TokenStored(h) ==
    LET j == job[h]
    IN  broken' = IF j.rec.token \in live \cup {0} THEN broken \ {j.who}
                  ELSE IF j.kind \in {"edit", "admin"} THEN broken \cup {j.who}
                  ELSE broken

\* PostgreSQL writes, or deletes, the row.
WriteRow(h) ==
    /\ job[h].pc = "row"
    /\ users' = [users EXCEPT ![job[h].who] = job[h].rec]
    /\ TokenStored(h)
    /\ End(h)
    /\ UNCHANGED <<backend, ttl, bound, used, trakt, clock, troubles>>

\* RedisStore.WriteUser asks who holds the name, before the pipeline.
LookForHolder(h) ==
    LET i == bound[job[h].rec.name].id
    IN  /\ job[h].pc = "holder"
        /\ job' = [job EXCEPT ![h].pc = "pipe",
                              ![h].holder = IF i # None /\ Exists(i) THEN i ELSE None]
        /\ UNCHANGED <<store, trakt, broken, clock, troubles>>

\* The pipelines of RedisStore.WriteUser, which binds the name to the id, or lets
\* the binding expire later, depending on who held it, and of DeleteUser, which
\* removes the binding of the name, whoever it is to.
Pipeline(h) ==
    LET j == job[h]
        until == clock + RecordLife
    IN  /\ j.pc = "pipe"
        /\ users' = [users EXCEPT ![j.who] = j.rec]
        /\ ttl' = [ttl EXCEPT ![j.who] = IF j.kind = "delete" THEN Forever ELSE until]
        /\ bound' = IF j.kind = "delete" THEN [bound EXCEPT ![j.arg] = Unbound]
                    ELSE IF j.holder = None
                    THEN [bound EXCEPT ![j.rec.name] = [id |-> j.who, until |-> until]]
                    ELSE IF j.holder = j.who /\ bound[j.rec.name] # Unbound
                    THEN [bound EXCEPT ![j.rec.name].until = until]
                    ELSE bound
        /\ TokenStored(h)
        /\ End(h)
        /\ UNCHANGED <<backend, used, trakt, clock, troubles>>

\* The disk store writes, or erases, one field after another.
WriteName(h) ==
    /\ job[h].pc = "name"
    /\ users' = [users EXCEPT ![job[h].who].name = job[h].rec.name]
    /\ At(h, "rest")
    /\ UNCHANGED <<backend, ttl, bound, used, trakt, broken, clock, troubles>>

WriteRest(h) ==
    /\ job[h].pc = "rest"
    /\ users' = [users EXCEPT ![job[h].who].token = job[h].rec.token,
                              ![job[h].who].exp = job[h].rec.exp]
    /\ TokenStored(h)
    /\ End(h)
    /\ UNCHANGED <<backend, ttl, bound, used, trakt, clock, troubles>>

\* A write that fails panics, or is answered with an error when a page deletes the
\* user; what a webhook was about to store is lost.
WriteFails(h) ==
    LET j == job[h]
    IN  /\ j.pc \in Saving \ {"holder"}
        /\ backend = "disk" => j.kind # "delete"
        /\ troubles < MaxTroubles
        /\ troubles' = troubles + 1
        /\ End(h)
        /\ broken' = IF j.kind = "hook" THEN broken \cup {j.who} ELSE broken
        /\ UNCHANGED <<store, trakt, clock>>

-----------------------------------------------------------------------------
(* Webhooks *)

\* Variant of Hook: without the singleflight group.
HookAlone(h, i, n, o) ==
    /\ job[h].pc = "idle"
    /\ job' = [job EXCEPT ![h] =
          [Idle EXCEPT !.pc = "get", !.kind = "hook", !.arg = n, !.url = i, !.owner = o, !.who = i]]
    /\ UNCHANGED <<store, trakt, broken, clock, troubles>>

\* A webhook of Plex user n with the URL of user i.  A request whose key is in
\* flight waits for the answer of that one.
Hook(h, i, n, o) ==
    LET busy == \E g \in Handlers : job[g].kind = "hook" /\ job[g].arg = n /\ job[g].url = i
    IN  /\ job[h].pc = "idle"
        /\ job' = [job EXCEPT ![h] =
              [Idle EXCEPT !.pc = IF busy THEN "join" ELSE "get", !.kind = "hook",
                           !.arg = n, !.url = i, !.owner = o /\ ~busy, !.who = i]]
        /\ UNCHANGED <<store, trakt, broken, clock, troubles>>

\* What follows once the user is found: a token that is due is refreshed.
Found(h) ==
    LET i == job[h].who
    IN  IF Exists(i) /\ users[i].exp <= clock
        THEN job' = [job EXCEPT ![h].rec = users[i], ![h].owner = FALSE, ![h].pc = "refresh"]
        ELSE End(h)

Lookup(h) ==
    LET j == job[h]
    IN  /\ j.pc = "get"
        /\ IF Exists(j.who) /\ j.owner /\ users[j.who].name # j.arg
           THEN At(h, "byname")
           ELSE Found(h)
        /\ UNCHANGED <<store, trakt, broken, clock, troubles>>

LookupByName(h) ==
    /\ job[h].pc = "byname"
    /\ \/ /\ WithName(job[h].arg) = {}
          /\ End(h)
       \/ \E i \in WithName(job[h].arg) :
              job' = [job EXCEPT ![h].who = i, ![h].owner = FALSE, ![h].pc = "reget"]
    /\ UNCHANGED <<store, trakt, broken, clock, troubles>>

LookupAgain(h) ==
    /\ job[h].pc = "reget"
    /\ Found(h)
    /\ UNCHANGED <<store, trakt, broken, clock, troubles>>

\* Variant of Renewed: the lifetime of the token is added twice.
RenewedTwice(n) == [name |-> n, token |-> issued + 1, exp |-> clock + DueAfter + DueAfter]

\* The record of Plex user n with the token Trakt gives out next.
Renewed(n) == [name |-> n, token |-> issued + 1, exp |-> clock + DueAfter]

\* Variant of RefreshAccepted: the new token is not saved.
RefreshUnsaved(h) ==
    LET j == job[h]
    IN  /\ j.pc = "refresh"
        /\ j.rec.token \in live
        /\ issued < MaxTokens
        /\ issued' = issued + 1
        /\ live' = (live \ {j.rec.token}) \cup {issued + 1}
        /\ End(h)
        /\ broken' = IF backend = "disk" THEN broken \cup {j.who} ELSE broken
        /\ UNCHANGED <<store, clock, troubles>>

\* Trakt replaces a refresh token by the next one, and UpdateUser saves it.
RefreshAccepted(h) ==
    LET j == job[h]
    IN  /\ j.pc = "refresh"
        /\ j.rec.token \in live
        /\ issued < MaxTokens
        /\ issued' = issued + 1
        /\ live' = (live \ {j.rec.token}) \cup {issued + 1}
        /\ SaveLoaded(h, j.who, Renewed(j.rec.name))
        /\ broken' = IF backend = "disk" THEN broken \cup {j.who} ELSE broken
        /\ UNCHANGED <<store, clock, troubles>>

\* A token that was used before is refused: the webhook is answered with 401.
RefreshRefused(h) ==
    /\ job[h].pc = "refresh"
    /\ job[h].rec.token \notin live
    /\ End(h)
    /\ UNCHANGED <<store, trakt, broken, clock, troubles>>

\* Trakt does not answer, or its answer does not arrive.
RefreshFails(h) ==
    LET j == job[h]
    IN  /\ j.pc = "refresh"
        /\ troubles < MaxTroubles
        /\ troubles' = troubles + 1
        /\ \/ UNCHANGED <<live, broken>>
           \/ /\ j.rec.token \in live
              /\ live' = live \ {j.rec.token}
              /\ broken' = broken \cup {j.who}
        /\ End(h)
        /\ UNCHANGED <<store, issued, clock>>

-----------------------------------------------------------------------------
(* Authorization *)

\* authorize is called for a new user, whose id uuid() makes up later, or for user
\* i; in mode "renew" the stored name then replaces the one supplied.
Onboard(h, i, n) ==
    /\ job[h].pc = "idle"
    /\ i \notin used
    /\ used' = used \cup {i}
    /\ job' = [job EXCEPT ![h] =
          [Idle EXCEPT !.pc = "exchange", !.kind = "onboard", !.arg = n, !.who = i]]
    /\ UNCHANGED <<backend, users, ttl, bound, trakt, broken, clock, troubles>>

Renew(h, i, n, mode) ==
    /\ job[h].pc = "idle"
    /\ i \in used
    /\ job' = [job EXCEPT ![h] =
          [Idle EXCEPT !.pc = "exchange", !.kind = "renew", !.who = i,
                       !.arg = IF mode = "renew" /\ Exists(i) THEN users[i].name ELSE n]]
    /\ UNCHANGED <<store, trakt, broken, clock, troubles>>

\* Trakt exchanges the code for tokens; those given out before stay valid.
Exchange(h) ==
    LET j == job[h]
    IN  /\ j.pc = "exchange"
        /\ issued < MaxTokens
        /\ issued' = issued + 1
        /\ live' = live \cup {issued + 1}
        /\ IF j.kind = "renew"
           THEN job' = [job EXCEPT ![h].rec = Renewed(j.arg), ![h].pc = "persist"]
           ELSE Write(h, j.who, Renewed(j.arg))
        /\ UNCHANGED <<store, broken, clock, troubles>>

\* The user cancelled, or the code is not valid.
ExchangeFails(h) ==
    /\ job[h].pc = "exchange"
    /\ End(h)
    /\ UNCHANGED <<store, trakt, broken, clock, troubles>>

\* persistAuthorizedUser reads the record again; it must still be there, and of
\* the same Plex user.
Persist(h) ==
    LET j == job[h]
    IN  /\ j.pc = "persist"
        /\ IF Exists(j.who) /\ users[j.who].name = j.arg
           THEN SaveLoaded(h, j.who, j.rec)
           ELSE End(h)
        /\ UNCHANGED <<store, trakt, broken, clock, troubles>>

-----------------------------------------------------------------------------
(* Pages *)

\* updateTraktDisplayName, updateAdminUser and deleteAdminUser.  The first saves
\* the record it loaded, the second hands it to the store.
Edit(h, i) ==
    /\ job[h].pc = "idle"
    /\ Exists(i)
    /\ backend # "disk"
    /\ job' = [job EXCEPT ![h] =
          [Idle EXCEPT !.pc = FirstWrite, !.kind = "edit", !.who = i, !.rec = users[i]]]
    /\ UNCHANGED <<store, trakt, broken, clock, troubles>>

Admin(h, i, n) ==
    /\ job[h].pc = "idle"
    /\ Exists(i)
    /\ job' = [job EXCEPT ![h] =
          [Idle EXCEPT !.pc = FirstWrite, !.kind = "admin", !.who = i,
                       !.rec = [users[i] EXCEPT !.name = n]]]
    /\ UNCHANGED <<store, trakt, broken, clock, troubles>>

Delete(h, i) ==
    /\ job[h].pc = "idle"
    /\ Exists(i)
    /\ job' = [job EXCEPT ![h] =
          [Idle EXCEPT !.pc = IF backend = "redis" THEN "pipe" ELSE FirstWrite,
                       !.kind = "delete", !.who = i, !.arg = users[i].name]]
    /\ UNCHANGED <<store, trakt, broken, clock, troubles>>

-----------------------------------------------------------------------------
(* The environment *)

\* Time passes; Redis drops the keys whose time has come.
Tick ==
    /\ clock < MaxClock
    /\ clock' = clock + 1
    /\ users' = [i \in Ids |-> IF ttl[i] = Forever \/ ttl[i] > clock THEN users[i] ELSE Missing]
    /\ ttl' = [i \in Ids |-> IF ttl[i] > clock THEN ttl[i] ELSE Forever]
    /\ bound' = [n \in Names |-> IF bound[n].until > clock THEN bound[n] ELSE Unbound]
    /\ UNCHANGED <<backend, used, trakt, job, broken, troubles>>

\* The process dies; a webhook that has not stored the token it got loses it.
Crash ==
    /\ troubles < MaxTroubles
    /\ troubles' = troubles + 1
    /\ job' = [h \in Handlers |-> Idle]
    /\ broken' = broken \cup {i \in Ids : \E h \in Handlers :
          job[h].kind = "hook" /\ job[h].who = i /\ job[h].pc \in Saving}
    /\ UNCHANGED <<store, trakt, clock>>

Request(h) ==
    \/ \E i \in Ids, n \in Names, o \in BOOLEAN : Hook(h, i, n, o)
    \/ \E i \in Ids, n \in Names, m \in {"renew", "onboarding"} : Renew(h, i, n, m)
    \/ \E i \in Ids, n \in Names : Onboard(h, i, n) \/ Admin(h, i, n)
    \/ \E i \in Ids : Edit(h, i) \/ Delete(h, i)

Step(h) ==
    \/ Lookup(h) \/ LookupByName(h) \/ LookupAgain(h)
    \/ RefreshAccepted(h) \/ RefreshRefused(h) \/ RefreshFails(h)
    \/ Exchange(h) \/ ExchangeFails(h) \/ Persist(h)
    \/ WriteRow(h) \/ LookForHolder(h) \/ Pipeline(h) \/ WriteName(h) \/ WriteRest(h)
    \/ WriteFails(h)

Next == \/ \E h \in Handlers : Request(h) \/ Step(h)
        \/ Tick \/ Crash

Spec == Init /\ [][Next]_vars

-----------------------------------------------------------------------------
(* Properties *)

\* A webhook holds the only token of user i that Trakt accepts, and has not stored
\* it yet.
Carried(i) == \E h \in Handlers : /\ job[h].kind = "hook" /\ job[h].who = i
                                  /\ job[h].pc \in Saving
                                  /\ job[h].rec.token \in live

\* The token in a record is one that Trakt accepts, or its successor is about to be
\* stored: refreshes under different keys, renewals and deletions never leave a user
\* with a token that was used up.  Only a page that saves a record it read before a
\* refresh, a crash, a lost answer or a failing write does, and the disk store, where
\* UpdateUser has no store to save to.
TokenKept == \A i \in Ids \ broken : Exists(i) => users[i].token \in live \/ Carried(i)

\* Trakt refuses a refresh only when the record has changed since it was read, was
\* broken, or another refresh is under way whose key in apiSf is different: the
\* requests of one Plex user for one URL never present one refresh token twice.
RefusalExplained ==
    \A h \in Handlers :
        LET j == job[h]
        IN  j.pc = "refresh" /\ j.rec.token \notin live =>
              \/ j.who \in broken
              \/ users[j.who].token # j.rec.token
              \/ \E g \in Handlers : /\ job[g].kind = "hook" /\ job[g].who = j.who
                                     /\ job[g].pc \in Saving
                                     /\ <<job[g].arg, job[g].url>> # <<j.arg, j.url>>
=============================================================================
