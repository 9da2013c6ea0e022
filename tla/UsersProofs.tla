----------------------------- MODULE UsersProofs -----------------------------
(***************************************************************************)
(* Proofs about Users, for any users, names, requests in flight, tokens    *)
(* and troubles, on each of the three stores.                              *)
(*                                                                         *)
(* That a record keeps a token Trakt accepts is not inductive: one has to  *)
(* know that a token that has not been stored yet is known to one request  *)
(* alone (Unseen), so that nobody can have used it up; that a token is     *)
(* never in the hands of two users (OneOwner), so that a refresh only      *)
(* takes the token of its own user; and that one webhook works per key     *)
(* (Leaders), which is what singleflight provides.                         *)
(***************************************************************************)
EXTENDS Users, TLAPS

\* How the fields of a request hang together.
JobOK(j) ==
    /\ j.pc # "idle" => j.who \in Ids
    /\ j.pc = "idle" => j.kind = "none"
    /\ j.pc \in {"join", "get", "byname", "reget", "refresh"} => j.kind = "hook" /\ j.arg \in Names
    /\ j.pc \in {"idle", "join", "get", "byname", "reget", "exchange"} => j.rec.token = 0
    /\ j.pc = "exchange" => j.kind \in {"renew", "onboard"} /\ j.arg \in Names
    /\ j.pc = "refresh" => j.rec.token # 0
    /\ j.pc = "persist" => j.kind = "renew"
    /\ j.pc \in Saving => j.kind # "none"
    /\ j.pc = "holder" => j.kind # "delete"
    /\ j.pc \in Saving \cup {"refresh", "persist"} /\ j.kind # "delete" => j.rec.name \in Names
    /\ j.kind = "delete" => j.rec.token = 0

TInv == TypeOK /\ \A h \in Handlers : JobOK(job[h])

\* Request h has a token that was not in any record yet.
New(j) == j.kind \in {"hook", "renew", "onboard"} /\ j.pc \in Saving \cup {"persist"}

Known ==
    /\ \A t \in live : t <= issued
    /\ \A i \in Ids : users[i].token <= issued
    /\ \A h \in Handlers : job[h].rec.token <= issued

OneOwner ==
    /\ \A i, k \in Ids : users[i].token = users[k].token /\ users[i].token # 0 => i = k
    /\ \A h \in Handlers, i \in Ids :
          job[h].rec.token = users[i].token /\ users[i].token # 0 => job[h].who = i
    /\ \A g, h \in Handlers :
          job[g].rec.token = job[h].rec.token /\ job[h].rec.token # 0 => job[g].who = job[h].who

Unseen == \A h \in Handlers : New(job[h]) =>
    /\ job[h].rec.token \in live
    /\ \A i \in Ids : users[i].token # job[h].rec.token
    /\ \A g \in Handlers \ {h} : job[g].rec.token # job[h].rec.token

Works(j) == j.kind = "hook" /\ j.pc # "join"

Leaders == \A g, h \in Handlers :
    Works(job[g]) /\ Works(job[h]) /\ job[g].arg = job[h].arg /\ job[g].url = job[h].url => g = h

Kept == \A i \in Ids \ broken : users[i].token # 0 => users[i].token \in live \/ Carried(i)

KInv == Known /\ OneOwner /\ Unseen /\ Leaders /\ Kept

-----------------------------------------------------------------------------
(* Types *)

LEMMA Values ==
    /\ MaxTokens \in Nat /\ MaxClock \in Nat /\ MaxTroubles \in Nat
    /\ DueAfter \in Nat /\ RecordLife \in Nat
    /\ 0 \in Times /\ 0 \in Tokens /\ Forever \in Times
    /\ \A c \in 0..MaxClock : c + DueAfter \in Times /\ c + RecordLife \in Times
BY UsersAssumption DEF Times, Tokens, Forever

LEMMA Empty == Missing \in Record /\ Idle \in Job /\ JobOK(Idle) /\ Unbound \in [id: Ids \cup {None}, until: Times]
<1>1. Missing \in Record /\ Missing.token = 0
  BY Values, Zenon DEF Missing, Record
<1>2. Idle.pc = "idle" /\ Idle.kind = "none" /\ Idle.rec = Missing /\ Idle \in Job
  BY <1>1, Zenon DEF Idle, Job
<1>3. JobOK(Idle)
  BY <1>1, <1>2, Zenon DEF JobOK, Saving
<1> QED BY <1>1, <1>2, <1>3, Values, Zenon DEF Unbound

LEMMA InitTInv == Init => TInv
BY Values, Empty DEF Init, TInv, TypeOK

\* Ending a request leaves the others as they are, or idle if they waited for it.
LEMMA Ended ==
    ASSUME TInv, NEW h \in Handlers, End(h)
    PROVE  /\ job' \in [Handlers -> Job]
           /\ \A g \in Handlers : JobOK(job'[g])
           /\ job'[h] = Idle
           /\ \A g \in Handlers \ {h} :
                 job'[g] = job[g] \/ (job'[g] = Idle /\ job[g].pc = "join")
BY Empty, Zenon DEF End, Waiting, TInv, TypeOK

\* Giving one request a well-formed record.
LEMMA Moved ==
    ASSUME TInv, NEW h \in Handlers, NEW j \in Job, JobOK(j), job' = [job EXCEPT ![h] = j]
    PROVE  job' \in [Handlers -> Job] /\ \A g \in Handlers : JobOK(job'[g])
BY Zenon DEF TInv, TypeOK

-----------------------------------------------------------------------------
(* The kinds of steps, and the invariant *)

Carries(j, i) == j.kind = "hook" /\ j.who = i /\ j.pc \in Saving /\ j.rec.token \in live

\* What steps that only read do not change.
Reading == /\ users \in [Ids -> Record] /\ users' \in [Ids -> Record]
           /\ \A i \in Ids : users'[i].token = users[i].token
           /\ live' = live /\ issued' = issued /\ broken' = broken

\* A request goes on with a token that is in the record or that it had before.
LEMMA MovesKInv ==
    ASSUME TInv, KInv, NEW h \in Handlers, NEW j \in Job, JobOK(j),
           job' = [job EXCEPT ![h] = j], Reading,
           \/ j.rec.token = 0
           \/ j.rec.token = users[j.who].token
           \/ j.rec.token = job[h].rec.token /\ j.who = job[h].who,
           New(j) \/ New(job[h]) => /\ New(j) /\ New(job[h]) /\ j.kind = job[h].kind
                                    /\ j.who = job[h].who /\ j.rec.token = job[h].rec.token
                                    /\ j.pc \in Saving \/ job[h].kind = "renew",
           Works(j) => \/ Works(job[h]) /\ j.arg = job[h].arg /\ j.url = job[h].url
                       \/ \A g \in Handlers : Works(job[g]) => j.arg # job[g].arg \/ j.url # job[g].url
    PROVE  KInv'
<1>1. /\ job \in [Handlers -> Job] /\ job' \in [Handlers -> Job]
      /\ job'[h] = j /\ \A g \in Handlers \ {h} : job'[g] = job[g]
  BY Zenon DEF TInv, TypeOK
<1>2. /\ live \subseteq Nat \ {0} /\ issued \in Nat
      /\ \A g \in Handlers : job[g].rec.token \in Nat /\ job'[g].rec.token \in Nat
      /\ \A i \in Ids : users[i].token \in Nat
  BY <1>1, UsersAssumption DEF TInv, TypeOK, Job, Record, Tokens, Reading
<1>3. j.rec.token # 0 => j.who \in Ids
  BY Zenon DEF JobOK
<1>4. Known'
  BY <1>1, <1>2, <1>3 DEF KInv, Known, Reading
<1>5. OneOwner'
  BY <1>1, <1>2, <1>3 DEF KInv, OneOwner, Reading
<1>6. Unseen'
  <2> SUFFICES ASSUME NEW g \in Handlers, New(job'[g])
               PROVE  /\ job'[g].rec.token \in live
                      /\ \A i \in Ids : users[i].token # job'[g].rec.token
                      /\ \A f \in Handlers \ {g} : job'[f].rec.token # job'[g].rec.token
    BY ZenonT(60) DEF Unseen, Reading, New
  <2>1. New(job[g]) /\ job'[g].rec.token = job[g].rec.token
    BY <1>1, Zenon
  <2>2. /\ job[g].rec.token \in live
        /\ \A i \in Ids : users[i].token # job[g].rec.token
        /\ \A f \in Handlers \ {g} : job[f].rec.token # job[g].rec.token
    BY <2>1, Zenon DEF KInv, Unseen
  <2> QED BY <1>1, <1>2, <1>3, <2>1, <2>2, ZenonT(60)
<1>7. Leaders'
  BY <1>1 DEF KInv, Leaders, Works
<1>8. Kept'
  <2> SUFFICES ASSUME NEW i \in Ids \ broken, users[i].token # 0, users[i].token \notin live
               PROVE  Carried(i)'
    BY Zenon DEF Kept, Reading
  <2>1. PICK g \in Handlers : Carries(job[g], i)
    BY Zenon DEF KInv, Kept, Carried, Carries
  <2>2. New(job[g])
    BY <2>1, Zenon DEF Carries, New
  <2>3. Carries(job'[g], i)
    BY <1>1, <2>1, <2>2, Zenon DEF Carries, New
  <2> QED BY <2>3, Zenon DEF Carried, Carries, Reading
<1> QED BY <1>4, <1>5, <1>6, <1>7, <1>8, Zenon DEF KInv

\* The types the lemmas below use.
LEMMA Numbers ==
    ASSUME TInv
    PROVE  /\ live \subseteq Nat \ {0} /\ issued \in Nat
           /\ job \in [Handlers -> Job] /\ users \in [Ids -> Record]
           /\ \A g \in Handlers : job[g].rec.token \in Nat
           /\ \A i \in Ids : users[i].token \in Nat
           /\ Idle.rec.token = 0 /\ ~Works(Idle) /\ ~New(Idle)
           /\ \A i \in Ids : ~Carries(Idle, i)
<1>1. live \subseteq Nat \ {0} /\ issued \in Nat /\ job \in [Handlers -> Job] /\ users \in [Ids -> Record]
  BY UsersAssumption DEF TInv, TypeOK, Tokens
<1>2. /\ \A g \in Handlers : job[g].rec.token \in Nat
      /\ \A i \in Ids : users[i].token \in Nat
  BY <1>1, UsersAssumption DEF Job, Record, Tokens
<1>3. Idle.rec.token = 0 /\ Idle.kind = "none"
  BY Zenon DEF Idle, Missing
<1> QED BY <1>1, <1>2, <1>3, Zenon DEF Works, New, Carries

\* A request is answered that has no token to store, or gives up a renewal.
LEMMA EndsKInv ==
    ASSUME TInv, KInv, NEW h \in Handlers, End(h), Reading,
           ~New(job[h]) \/ job[h].kind # "hook"
    PROVE  KInv'
<1>1. /\ job'[h] = Idle
      /\ \A g \in Handlers \ {h} : job'[g] = job[g] \/ (job'[g] = Idle /\ job[g].pc = "join")
  BY Ended, Zenon
<1>2. \A g \in Handlers : job'[g] = job[g] \/ job'[g] = Idle
  BY <1>1, Zenon
<1>3. Known'
  BY <1>2, Numbers DEF KInv, Known, Reading
<1>4. OneOwner'
  BY <1>2, Numbers DEF KInv, OneOwner, Reading
<1>5. Unseen'
  BY <1>2, Numbers, ZenonT(60) DEF KInv, Unseen, Reading, New
<1>6. Leaders'
  BY <1>2, Numbers, ZenonT(60) DEF KInv, Leaders, Works
<1>7. Kept'
  <2> SUFFICES ASSUME NEW i \in Ids \ broken, users[i].token # 0, users[i].token \notin live
               PROVE  Carried(i)'
    BY Zenon DEF Kept, Reading
  <2>1. PICK g \in Handlers : Carries(job[g], i)
    BY Zenon DEF KInv, Kept, Carried, Carries
  <2>2. g # h /\ job[g].pc # "join"
    BY <2>1, Zenon DEF Carries, New, Saving
  <2>3. job'[g] = job[g]
    BY <1>1, <2>2, Zenon
  <2> QED BY <2>1, <2>3, Zenon DEF Carried, Carries, Reading
<1> QED BY <1>3, <1>4, <1>5, <1>6, <1>7, Zenon DEF KInv

\* A record is stored (WriteRow, Pipeline, WriteRest).
LEMMA StoresKInv ==
    ASSUME TInv, KInv, NEW h \in Handlers, job[h].pc \in Saving, End(h), TokenStored(h),
           users' \in [Ids -> Record], users'[job[h].who].token = job[h].rec.token,
           \A i \in Ids \ {job[h].who} : users'[i].token = users[i].token,
           live' = live, issued' = issued
    PROVE  KInv'
<1> DEFINE w == job[h].who
           t == job[h].rec.token
<1>1. /\ job'[h] = Idle
      /\ \A g \in Handlers \ {h} : job'[g] = job[g] \/ (job'[g] = Idle /\ job[g].pc = "join")
  BY Ended, Zenon
<1>2. \A g \in Handlers : (job'[g] = job[g] /\ g # h) \/ job'[g] = Idle
  BY <1>1, Zenon
<1>3. w \in Ids /\ (job[h].kind \in {"hook", "renew", "onboard", "edit", "admin"} \/ t = 0)
  <2>1. JobOK(job[h]) /\ job[h] \in Job
    BY Zenon DEF TInv, TypeOK
  <2> QED BY <2>1, Zenon DEF JobOK, Saving, Job
<1>4. Known'
  BY <1>2, <1>3, Numbers DEF KInv, Known
<1>5. OneOwner'
  BY <1>2, <1>3, Numbers, SMTT(30) DEF KInv, OneOwner
<1>6. Unseen'
  <2> SUFFICES ASSUME NEW g \in Handlers, New(job'[g])
               PROVE  /\ job'[g].rec.token \in live
                      /\ \A i \in Ids : users'[i].token # job'[g].rec.token
                      /\ \A f \in Handlers \ {g} : job'[f].rec.token # job'[g].rec.token
    BY Zenon DEF Unseen, New
  <2>1. job'[g] = job[g] /\ g # h /\ New(job[g])
    BY <1>2, Numbers, Zenon DEF New
  <2>2. /\ job[g].rec.token \in live
        /\ \A i \in Ids : users[i].token # job[g].rec.token
        /\ \A f \in Handlers \ {g} : job[f].rec.token # job[g].rec.token
    BY <2>1, Zenon DEF KInv, Unseen
  <2> QED BY <1>2, <1>3, <2>1, <2>2, Numbers, Zenon
<1>7. Leaders'
  BY <1>2, Numbers DEF KInv, Leaders, Works
<1>8. Kept'
  <2> SUFFICES ASSUME NEW i \in Ids, i \notin broken', users'[i].token # 0, users'[i].token \notin live
               PROVE  Carried(i)'
    BY Zenon DEF Kept
  <2>1. i # w
    <3>1. CASE New(job[h])
      BY <3>1, Zenon DEF KInv, Unseen
    <3>2. CASE ~New(job[h])
      BY <3>2, <1>3, Zenon DEF New, TokenStored
    <3> QED BY <3>1, <3>2, Zenon
  <2>2. i \notin broken /\ users[i].token # 0 /\ users[i].token \notin live
    BY <2>1, Zenon DEF TokenStored
  <2>3. PICK g \in Handlers : Carries(job[g], i)
    BY <2>2, Zenon DEF KInv, Kept, Carried, Carries
  <2>4. g # h /\ job[g].pc # "join"
    BY <2>1, <2>3, Zenon DEF Carries, Saving
  <2>5. job'[g] = job[g]
    BY <1>1, <2>4, Zenon
  <2> QED BY <2>3, <2>5, Zenon DEF Carried, Carries
<1> QED BY <1>4, <1>5, <1>6, <1>7, <1>8, Zenon DEF KInv

\* Trakt gives request h a token (RefreshAccepted, which uses up the set S, and
\* Exchange).
LEMMA ObtainsKInv ==
    ASSUME TInv, KInv, NEW h \in Handlers, NEW j \in Job, job' = [job EXCEPT ![h] = j],
           ~New(job[h]), New(j), j.rec.token = issued + 1, j.who = job[h].who,
           j.kind = job[h].kind, j.arg = job[h].arg, j.url = job[h].url, job[h].pc # "join",
           NEW S \in SUBSET {job[h].rec.token}, S = {} \/ (j.kind = "hook" /\ j.pc \in Saving),
           issued' = issued + 1, live' = (live \ S) \cup {issued + 1},
           users' = users, broken' = broken
    PROVE  KInv'
<1>1. job'[h] = j /\ \A g \in Handlers \ {h} : job'[g] = job[g]
  BY Numbers, Zenon
<1>2. Known'
  BY <1>1, Numbers DEF KInv, Known
<1>3. OneOwner'
  BY <1>1, Numbers DEF KInv, OneOwner, Known
<1>4. Unseen'
  <2> SUFFICES ASSUME NEW g \in Handlers, New(job'[g])
               PROVE  /\ job'[g].rec.token \in live'
                      /\ \A i \in Ids : users[i].token # job'[g].rec.token
                      /\ \A f \in Handlers \ {g} : job'[f].rec.token # job'[g].rec.token
    BY Zenon DEF Unseen, New
  <2>1. CASE g = h
    BY <2>1, <1>1, Numbers DEF KInv, Known
  <2>2. CASE g # h
    <3>1. /\ job[g].rec.token \in live
          /\ \A i \in Ids : users[i].token # job[g].rec.token
          /\ \A f \in Handlers \ {g} : job[f].rec.token # job[g].rec.token
      BY <2>2, <1>1, Zenon DEF KInv, Unseen
    <3> QED BY <2>2, <3>1, <1>1, Numbers DEF KInv, Known
  <2> QED BY <2>1, <2>2, Zenon
<1>5. Leaders'
  BY <1>1 DEF KInv, Leaders, Works, New, Saving
<1>6. Kept'
  <2> SUFFICES ASSUME NEW i \in Ids \ broken, users[i].token # 0, users[i].token \notin live'
               PROVE  Carried(i)'
    BY Zenon DEF Kept
  <2>1. CASE users[i].token \in live
    <3>1. j.who = i /\ j.kind = "hook" /\ j.pc \in Saving
      BY <2>1, Zenon DEF KInv, OneOwner
    <3> QED BY <3>1, <1>1 DEF Carried
  <2>2. CASE users[i].token \notin live
    <3>1. PICK g \in Handlers : Carries(job[g], i)
      BY <2>2, Zenon DEF KInv, Kept, Carried, Carries
    <3>2. New(job[g]) /\ g # h
      BY <3>1, Zenon DEF Carries, New
    <3>3. job[g].rec.token # job[h].rec.token
      BY <3>2, Zenon DEF KInv, Unseen
    <3> QED BY <3>1, <3>2, <3>3, <1>1 DEF Carried, Carries
  <2> QED BY <2>1, <2>2, Zenon
<1> QED BY <1>2, <1>3, <1>4, <1>5, <1>6, Zenon DEF KInv

\* A refresh used up its token and the next one is lost (RefreshFails, WriteFails,
\* and RefreshAccepted on disk).
LEMMA LosesKInv ==
    ASSUME TInv, KInv, NEW h \in Handlers, End(h),
           live \ {job[h].rec.token} \subseteq live', live' \subseteq live \cup {issued'},
           issued' \in {issued, issued + 1}, live' \subseteq Nat \ {0},
           users' = users, broken' = broken \cup {job[h].who}
    PROVE  KInv'
<1>1. /\ job'[h] = Idle
      /\ \A g \in Handlers \ {h} : job'[g] = job[g] \/ (job'[g] = Idle /\ job[g].pc = "join")
  BY Ended, Zenon
<1>2. \A g \in Handlers : (job'[g] = job[g] /\ g # h) \/ job'[g] = Idle
  BY <1>1, Zenon
<1>3. Known'
  BY <1>2, Numbers DEF KInv, Known
<1>4. OneOwner'
  BY <1>2, Numbers DEF KInv, OneOwner
<1>5. Unseen'
  <2> SUFFICES ASSUME NEW g \in Handlers, New(job'[g])
               PROVE  /\ job'[g].rec.token \in live'
                      /\ \A i \in Ids : users[i].token # job'[g].rec.token
                      /\ \A f \in Handlers \ {g} : job'[f].rec.token # job'[g].rec.token
    BY Zenon DEF Unseen, New
  <2>1. job'[g] = job[g] /\ g # h /\ New(job[g])
    BY <1>2, Numbers, Zenon DEF New
  <2>2. /\ job[g].rec.token \in live
        /\ \A i \in Ids : users[i].token # job[g].rec.token
        /\ \A f \in Handlers \ {g} : job[f].rec.token # job[g].rec.token
    BY <2>1, Zenon DEF KInv, Unseen
  <2> QED BY <1>2, <2>1, <2>2, Numbers, Zenon
<1>6. Leaders'
  BY <1>2, Numbers DEF KInv, Leaders, Works
<1>7. Kept'
  <2> SUFFICES ASSUME NEW i \in Ids, i \notin broken, i # job[h].who,
                      users[i].token # 0, users[i].token \notin live'
               PROVE  Carried(i)'
    BY Zenon DEF Kept
  <2>1. users[i].token \notin live
    BY Zenon DEF KInv, OneOwner
  <2>2. PICK g \in Handlers : Carries(job[g], i)
    BY <2>1, Zenon DEF KInv, Kept, Carried, Carries
  <2>3. g # h /\ job[g].pc # "join" /\ New(job[g])
    BY <2>2, Zenon DEF Carries, Saving, New
  <2>4. job'[g] = job[g] /\ job[g].rec.token # job[h].rec.token
    BY <1>1, <2>3, Zenon DEF KInv, Unseen
  <2> QED BY <2>2, <2>4, Zenon DEF Carried, Carries
<1> QED BY <1>3, <1>4, <1>5, <1>6, <1>7, Zenon DEF KInv

-----------------------------------------------------------------------------
(* The steps *)

\* Steps that leave everything but the requests alone.
Quiet == UNCHANGED <<store, trakt, broken, clock, troubles>>

LEMMA QuietIsReading ==
    ASSUME TInv, Quiet
    PROVE  Reading /\ (job' \in [Handlers -> Job] /\ (\A g \in Handlers : JobOK(job'[g])) => TInv')
BY Zenon DEF Quiet, Reading, TInv, TypeOK, store, trakt

LEMMA QuietEnd ==
    ASSUME TInv, KInv, NEW h \in Handlers, End(h), Quiet, ~New(job[h]) \/ job[h].kind # "hook"
    PROVE  TInv' /\ KInv'
BY QuietIsReading, Ended, EndsKInv, Zenon

\* A new request j, of no token or of the one in the record.
LEMMA Starts ==
    ASSUME TInv, KInv, NEW h \in Handlers, job[h].pc = "idle", NEW j \in Job, JobOK(j),
           job' = [job EXCEPT ![h] = j], Quiet, ~New(j), ~Works(j),
           j.rec.token = 0 \/ j.rec.token = users[j.who].token
    PROVE  TInv' /\ KInv'
<1>1. ~New(job[h])
  BY Zenon DEF New, Saving
<1>2. TInv'
  BY Moved, QuietIsReading, Zenon
<1>3. KInv'
  BY <1>1, MovesKInv, QuietIsReading, Zenon
<1> QED BY <1>2, <1>3, Zenon

LEMMA HookStep ==
    ASSUME TInv, KInv, NEW h \in Handlers, NEW i \in Ids, NEW n \in Names, NEW o \in BOOLEAN,
           Hook(h, i, n, o)
    PROVE  TInv' /\ KInv'
<1> DEFINE busy == \E g \in Handlers : job[g].kind = "hook" /\ job[g].arg = n /\ job[g].url = i
           j == [Idle EXCEPT !.pc = IF busy THEN "join" ELSE "get", !.kind = "hook",
                             !.arg = n, !.url = i, !.owner = o /\ ~busy, !.who = i]
<1>1. Quiet /\ job' = [job EXCEPT ![h] = j] /\ job[h].pc = "idle"
  BY Zenon DEF Hook, Quiet
<1>2. /\ j \in Job /\ j.pc = (IF busy THEN "join" ELSE "get") /\ j.kind = "hook" /\ j.arg = n
      /\ j.url = i /\ j.who = i /\ j.rec = Missing
  <2>1. (o /\ ~busy) \in BOOLEAN
    BY Zenon
  <2> QED BY <2>1, Values, Empty, ZenonT(60) DEF Idle, Job
<1>3. JobOK(j) /\ ~New(j) /\ j.rec.token = 0
  BY <1>2 DEF JobOK, New, Saving, Missing
<1>4. ~New(job[h])
  BY <1>1, Zenon DEF New, Saving
<1>5. Works(j) => \A g \in Handlers : Works(job[g]) => j.arg # job[g].arg \/ j.url # job[g].url
  BY <1>2, Zenon DEF Works
<1> HIDE DEF j, busy
<1>6. TInv'
  BY <1>1, <1>2, <1>3, Moved, QuietIsReading, Zenon
<1>7. KInv'
  BY <1>1, <1>2, <1>3, <1>4, <1>5, MovesKInv, QuietIsReading, Zenon
<1> QED BY <1>6, <1>7, Zenon

LEMMA RequestStep ==
    ASSUME TInv, KInv, NEW h \in Handlers, Request(h)
    PROVE  TInv' /\ KInv'
<1>1. ASSUME NEW i \in Ids, NEW n \in Names, NEW o \in BOOLEAN, Hook(h, i, n, o)
      PROVE  TInv' /\ KInv'
  BY <1>1, HookStep, Zenon
<1>2. ASSUME NEW i \in Ids, NEW n \in Names, NEW m \in {"renew", "onboarding"}, Renew(h, i, n, m)
      PROVE  TInv' /\ KInv'
  <2> DEFINE a == IF m = "renew" /\ Exists(i) THEN users[i].name ELSE n
             j == [Idle EXCEPT !.pc = "exchange", !.kind = "renew", !.who = i, !.arg = a]
  <2>1. Quiet /\ job' = [job EXCEPT ![h] = j] /\ job[h].pc = "idle"
    BY <1>2, Zenon DEF Renew, Quiet
  <2>2. a \in Names
    BY Numbers, Zenon DEF Exists, Record
  <2> HIDE DEF a
  <2>3. j \in Job /\ j.pc = "exchange" /\ j.kind = "renew" /\ j.arg = a /\ j.who = i /\ j.rec = Missing
    BY <2>2, Values, Empty, Zenon DEF Idle, Job
  <2>4. JobOK(j) /\ ~New(j) /\ ~Works(j) /\ j.rec.token = 0
    BY <2>2, <2>3 DEF JobOK, New, Saving, Missing, Works
  <2> HIDE DEF j
  <2> QED BY <2>1, <2>3, <2>4, Starts, Zenon
<1>3. ASSUME NEW i \in Ids, NEW n \in Names, Onboard(h, i, n)
      PROVE  TInv' /\ KInv'
  <2> DEFINE j == [Idle EXCEPT !.pc = "exchange", !.kind = "onboard", !.arg = n, !.who = i]
  <2>1. Reading /\ job' = [job EXCEPT ![h] = j] /\ job[h].pc = "idle"
    BY <1>3, Numbers, Zenon DEF Onboard, Reading, trakt
  <2>2. j \in Job /\ j.pc = "exchange" /\ j.kind = "onboard" /\ j.arg = n /\ j.who = i /\ j.rec = Missing
    BY Values, Empty, Zenon DEF Idle, Job
  <2>3. JobOK(j) /\ ~New(j) /\ ~Works(j) /\ j.rec.token = 0
    BY <2>2 DEF JobOK, New, Saving, Missing, Works
  <2>4. ~New(job[h])
    BY <2>1, Zenon DEF New, Saving
  <2> HIDE DEF j
  <2>5. job' \in [Handlers -> Job] /\ \A g \in Handlers : JobOK(job'[g])
    BY <2>1, <2>2, <2>3, Moved, Zenon
  <2>6. TInv'
    BY <1>3, <2>5, Zenon DEF Onboard, TInv, TypeOK, trakt
  <2> QED BY <2>1, <2>2, <2>3, <2>4, <2>6, MovesKInv, Zenon
<1>4. ASSUME NEW i \in Ids, NEW n \in Names, Admin(h, i, n)
      PROVE  TInv' /\ KInv'
  <2> DEFINE r == [users[i] EXCEPT !.name = n]
             j == [Idle EXCEPT !.pc = FirstWrite, !.kind = "admin", !.who = i, !.rec = r]
  <2>1. Quiet /\ job' = [job EXCEPT ![h] = j] /\ job[h].pc = "idle"
    BY <1>4, Zenon DEF Admin, Quiet
  <2>2. r \in Record /\ r.name = n /\ r.token = users[i].token
    BY Numbers, Zenon DEF Record
  <2>3. FirstWrite \in Saving \ {"pipe", "rest"}
    BY Zenon DEF FirstWrite, Saving
  <2> HIDE DEF r
  <2>4. j \in Job /\ j.pc = FirstWrite /\ j.kind = "admin" /\ j.who = i /\ j.rec = r
    BY <2>2, <2>3, Values, Empty, Zenon DEF Idle, Job
  <2>5. JobOK(j) /\ ~New(j) /\ ~Works(j) /\ j.rec.token = users[j.who].token
    BY <2>2, <2>3, <2>4, Zenon DEF JobOK, New, Saving, Missing, Works
  <2> HIDE DEF j
  <2> QED BY <2>1, <2>4, <2>5, Starts, Zenon
<1>5. ASSUME NEW i \in Ids, Edit(h, i)
      PROVE  TInv' /\ KInv'
  <2> DEFINE j == [Idle EXCEPT !.pc = FirstWrite, !.kind = "edit", !.who = i, !.rec = users[i]]
  <2>1. Quiet /\ job' = [job EXCEPT ![h] = j] /\ job[h].pc = "idle"
    BY <1>5, Zenon DEF Edit, Quiet
  <2>2. users[i] \in Record /\ users[i].name \in Names
    BY <1>5, Numbers, Zenon DEF Record, Edit, Exists
  <2>3. FirstWrite \in Saving \ {"pipe", "rest"}
    BY Zenon DEF FirstWrite, Saving
  <2>4. j \in Job /\ j.pc = FirstWrite /\ j.kind = "edit" /\ j.who = i /\ j.rec = users[i]
    BY <2>2, <2>3, Values, Empty, Zenon DEF Idle, Job
  <2>5. JobOK(j) /\ ~New(j) /\ ~Works(j) /\ j.rec.token = users[j.who].token
    BY <2>2, <2>3, <2>4, Zenon DEF JobOK, New, Saving, Missing, Works
  <2> HIDE DEF j
  <2> QED BY <2>1, <2>4, <2>5, Starts, Zenon
<1>6. ASSUME NEW i \in Ids, Delete(h, i)
      PROVE  TInv' /\ KInv'
  <2> DEFINE p == IF backend = "redis" THEN "pipe" ELSE FirstWrite
             j == [Idle EXCEPT !.pc = p, !.kind = "delete", !.who = i, !.arg = users[i].name]
  <2>1. Quiet /\ job' = [job EXCEPT ![h] = j] /\ job[h].pc = "idle"
    BY <1>6, Zenon DEF Delete, Quiet
  <2>2. users[i].name \in Names
    BY <1>6, Numbers, Zenon DEF Record, Delete, Exists
  <2>3. p \in Saving /\ p # "holder"
    BY Zenon DEF FirstWrite, Saving
  <2> HIDE DEF p
  <2>4. j \in Job /\ j.pc = p /\ j.kind = "delete" /\ j.who = i /\ j.rec = Missing
    BY <2>2, <2>3, Values, Empty, Zenon DEF Idle, Job
  <2>5. JobOK(j) /\ ~New(j) /\ ~Works(j) /\ j.rec.token = 0
    BY <2>2, <2>3, <2>4 DEF JobOK, New, Saving, Missing, Works
  <2> HIDE DEF j
  <2> QED BY <2>1, <2>4, <2>5, Starts, Zenon
<1> QED BY <1>1, <1>2, <1>3, <1>4, <1>5, <1>6, Zenon DEF Request

\* The record that Lookup and LookupAgain find is due, or the request is over.
LEMMA FoundStep ==
    ASSUME TInv, KInv, NEW h \in Handlers, job[h].pc \in {"get", "reget"}, Found(h), Quiet
    PROVE  TInv' /\ KInv'
<1>1. job[h].kind = "hook" /\ job[h].who \in Ids /\ job[h].arg \in Names /\ ~New(job[h])
      /\ job[h] \in Job
  BY Numbers, Zenon DEF TInv, JobOK, New, Saving
<1>2. CASE Exists(job[h].who) /\ users[job[h].who].exp <= clock
  <2> DEFINE r == users[job[h].who]
             j == [job[h] EXCEPT !.rec = r, !.owner = FALSE, !.pc = "refresh"]
  <2>1. r \in Record /\ r.name \in Names /\ r.token # 0
    BY <1>1, <1>2, Numbers, Zenon DEF Exists, Record
  <2>2. j \in Job /\ j.pc = "refresh" /\ j.kind = "hook" /\ j.who = job[h].who /\ j.rec = r
        /\ j.arg = job[h].arg /\ j.url = job[h].url
    BY <1>1, <2>1, Zenon DEF Job
  <2>3. job' = [job EXCEPT ![h] = j]
    BY <1>2, Numbers, Zenon DEF Found
  <2>4. JobOK(j) /\ ~New(j) /\ Works(j) /\ Works(job[h])
    BY <1>1, <2>1, <2>2, Zenon DEF JobOK, New, Works, Saving
  <2>5. j.rec.token = users[j.who].token
    BY <2>2, Zenon
  <2> HIDE DEF j
  <2>6. TInv'
    BY <2>2, <2>3, <2>4, Moved, QuietIsReading, Zenon
  <2>7. KInv'
    BY <1>1, <2>2, <2>3, <2>4, <2>5, MovesKInv, QuietIsReading, Zenon
  <2> QED BY <2>6, <2>7, Zenon
<1>3. CASE ~(Exists(job[h].who) /\ users[job[h].who].exp <= clock)
  BY <1>1, <1>3, QuietEnd, Zenon DEF Found
<1> QED BY <1>2, <1>3, Zenon

LEMMA LookupStep ==
    ASSUME TInv, KInv, NEW h \in Handlers, Lookup(h) \/ LookupByName(h) \/ LookupAgain(h)
    PROVE  TInv' /\ KInv'
<1>1. Quiet /\ job[h].pc \in {"get", "byname", "reget"}
  BY Zenon DEF Lookup, LookupByName, LookupAgain, Quiet
<1>2. /\ job[h].kind = "hook" /\ job[h].who \in Ids /\ job[h].arg \in Names /\ ~New(job[h])
      /\ job[h] \in Job /\ job[h].rec.token = 0 /\ Works(job[h])
  BY <1>1, Numbers, Zenon DEF TInv, JobOK, New, Saving, Works
<1>3. ASSUME NEW i \in Ids, NEW p \in {"byname", "reget"}, NEW o \in BOOLEAN,
             job' = [job EXCEPT ![h] = [job[h] EXCEPT !.who = i, !.owner = o, !.pc = p]]
      PROVE  TInv' /\ KInv'
  <2> DEFINE j == [job[h] EXCEPT !.who = i, !.owner = o, !.pc = p]
  <2>1. j \in Job /\ j.pc = p /\ j.kind = "hook" /\ j.who = i /\ j.rec = job[h].rec
        /\ j.arg = job[h].arg /\ j.url = job[h].url
    BY <1>2, Zenon DEF Job
  <2>2. JobOK(j) /\ ~New(j) /\ Works(j) /\ j.rec.token = 0
    BY <1>2, <2>1, Zenon DEF JobOK, New, Works, Saving
  <2>3. job' = [job EXCEPT ![h] = j]
    BY <1>3, Zenon
  <2> HIDE DEF j
  <2>4. TInv'
    BY <1>1, <2>1, <2>2, <2>3, Moved, QuietIsReading, Zenon
  <2>5. KInv'
    BY <1>1, <1>2, <2>1, <2>2, <2>3, MovesKInv, QuietIsReading, Zenon
  <2> QED BY <2>4, <2>5, Zenon
<1>4. CASE Lookup(h) /\ job' = [job EXCEPT ![h].pc = "byname"]
  <2>1. [job[h] EXCEPT !.pc = "byname"]
          = [job[h] EXCEPT !.who = job[h].who, !.owner = job[h].owner, !.pc = "byname"]
        /\ job[h].owner \in BOOLEAN
    BY <1>2, Zenon DEF Job
  <2>2. job' = [job EXCEPT ![h] = [job[h] EXCEPT !.who = job[h].who, !.owner = job[h].owner,
                                                 !.pc = "byname"]]
    BY <1>4, <2>1, Numbers, Zenon
  <2> QED BY <1>2, <1>3, <2>1, <2>2, Zenon
<1>5. CASE (Lookup(h) \/ LookupAgain(h)) /\ Found(h)
  <2>1. job[h].pc \in {"get", "reget"}
    BY <1>5, Zenon DEF Lookup, LookupAgain
  <2> QED BY <1>1, <1>5, <2>1, FoundStep, Zenon
<1>6. CASE LookupByName(h) /\ End(h)
  BY <1>1, <1>2, <1>6, QuietEnd, Zenon
<1>7. CASE LookupByName(h) /\ ~End(h)
  <2>1. PICK i \in WithName(job[h].arg) :
            job' = [job EXCEPT ![h].who = i, ![h].owner = FALSE, ![h].pc = "reget"]
    BY <1>7, Zenon DEF LookupByName
  <2>2. WithName(job[h].arg) \subseteq Ids
    <3>1. bound[job[h].arg].id \in Ids \cup {None}
      BY <1>2, Zenon DEF TInv, TypeOK
    <3> QED BY <3>1, Zenon DEF WithName
  <2>3. job' = [job EXCEPT ![h] = [job[h] EXCEPT !.who = i, !.owner = FALSE, !.pc = "reget"]]
    BY <2>1, Numbers, Zenon
  <2> QED BY <1>3, <2>2, <2>3, Zenon
<1> QED BY <1>4, <1>5, <1>6, <1>7, Zenon DEF Lookup, LookupAgain, At

LEMMA RefreshStep ==
    ASSUME TInv, KInv, NEW h \in Handlers,
           RefreshAccepted(h) \/ RefreshRefused(h) \/ RefreshFails(h)
    PROVE  TInv' /\ KInv'
<1>1. /\ job[h].kind = "hook" /\ job[h].who \in Ids /\ job[h].arg \in Names /\ ~New(job[h])
      /\ job[h] \in Job /\ job[h].rec.name \in Names /\ Works(job[h]) /\ job[h].pc = "refresh"
  <2>1. job[h].pc = "refresh" /\ job[h] \in Job /\ JobOK(job[h])
    BY Numbers, Zenon DEF TInv, RefreshAccepted, RefreshRefused, RefreshFails
  <2> QED BY <2>1, Zenon DEF JobOK, New, Saving, Works
<1>2. CASE RefreshRefused(h)
  BY <1>1, <1>2, QuietEnd, Zenon DEF RefreshRefused, Quiet
<1>3. CASE RefreshFails(h)
  <2>1. /\ End(h) /\ users' = users /\ issued' = issued /\ backend' = backend /\ ttl' = ttl
        /\ bound' = bound /\ used' = used /\ clock' = clock /\ troubles' = troubles + 1
        /\ troubles < MaxTroubles
    BY <1>3, Zenon DEF RefreshFails, store
  <2>2. live' \subseteq live /\ broken' \subseteq Ids
    BY <1>1, <1>3, Zenon DEF RefreshFails, TInv, TypeOK
  <2>3. TInv'
    BY <2>1, <2>2, Ended, Values DEF TInv, TypeOK
  <2>4. CASE UNCHANGED <<live, broken>>
    <3>1. Reading
      BY <2>1, <2>4, Numbers, Zenon DEF Reading
    <3> QED BY <1>1, <2>1, <2>3, <3>1, EndsKInv, Zenon
  <2>5. CASE live' = live \ {job[h].rec.token} /\ broken' = broken \cup {job[h].who}
    BY <1>1, <2>1, <2>3, <2>5, LosesKInv, Numbers, Zenon
  <2> QED BY <1>3, <2>4, <2>5, Zenon DEF RefreshFails
<1>4. CASE RefreshAccepted(h)
  <2> DEFINE r == Renewed(job[h].rec.name)
             T == job[h].rec.token
  <2>1. /\ users' = users /\ issued' = issued + 1 /\ backend' = backend /\ ttl' = ttl
        /\ bound' = bound /\ used' = used /\ clock' = clock /\ troubles' = troubles
        /\ live' = (live \ {T}) \cup {issued + 1} /\ issued < MaxTokens
    BY <1>4, Zenon DEF RefreshAccepted, store
  <2>2. issued + 1 \in Tokens \ {0} /\ r \in Record /\ r.token = issued + 1 /\ r.name \in Names
    BY <1>1, <2>1, Values DEF Renewed, Record, Tokens, TInv, TypeOK
  <2> HIDE DEF r
  <2>3. live' \subseteq Tokens \ {0} /\ issued' \in Tokens
    BY <2>1, <2>2, Zenon DEF TInv, TypeOK
  <2>4. CASE backend = "disk"
    <3>1. End(h) /\ broken' = broken \cup {job[h].who}
      BY <1>4, <2>4, Zenon DEF RefreshAccepted, SaveLoaded
    <3>2. TInv'
      BY <1>1, <2>1, <2>3, <3>1, Ended, Zenon DEF TInv, TypeOK
    <3>3. KInv'
      <4>1. live' \subseteq Nat \ {0}
        BY <2>1, Numbers
      <4>2. live \ {job[h].rec.token} \subseteq live' /\ live' \subseteq live \cup {issued'}
        BY <2>1, Zenon
      <4>3. issued' \in {issued, issued + 1} /\ users' = users
        BY <2>1, Zenon
      <4> QED BY <3>1, <4>1, <4>2, <4>3, LosesKInv, Zenon
    <3> QED BY <3>2, <3>3, Zenon
  <2>5. CASE backend # "disk"
    <3> DEFINE j == [job[h] EXCEPT !.who = job[h].who, !.rec = r, !.pc = FirstWrite]
    <3>1. broken' = broken /\ job' = [job EXCEPT ![h] = j]
      BY <1>4, <2>5, Numbers, Zenon DEF RefreshAccepted, SaveLoaded, Write, r
    <3>2. FirstWrite \in Saving
      BY Zenon DEF FirstWrite, Saving
    <3>3. j \in Job /\ j.pc = FirstWrite /\ j.kind = "hook" /\ j.who = job[h].who /\ j.rec = r
          /\ j.arg = job[h].arg /\ j.url = job[h].url
      BY <1>1, <2>2, <3>2, Zenon DEF Job
    <3>4. JobOK(j) /\ New(j)
      BY <1>1, <2>2, <3>2, <3>3, Zenon DEF JobOK, New, Saving
    <3> HIDE DEF j
    <3>5. TInv'
      <4>1. job' \in [Handlers -> Job] /\ \A g \in Handlers : JobOK(job'[g])
        BY <3>1, <3>3, <3>4, Moved, Zenon
      <4> QED BY <2>1, <2>3, <3>1, <4>1, Zenon DEF TInv, TypeOK
    <3>6. KInv'
      BY <1>1, <2>1, <2>2, <3>1, <3>2, <3>3, <3>4, ObtainsKInv, Zenon
    <3> QED BY <3>5, <3>6, Zenon
  <2> QED BY <2>4, <2>5, Zenon
<1> QED BY <1>2, <1>3, <1>4, Zenon

LEMMA AuthorizeStep ==
    ASSUME TInv, KInv, NEW h \in Handlers, Exchange(h) \/ ExchangeFails(h) \/ Persist(h)
    PROVE  TInv' /\ KInv'
<1>1. job[h] \in Job /\ JobOK(job[h])
  BY Numbers, Zenon DEF TInv
<1>2. CASE ExchangeFails(h)
  BY <1>1, <1>2, QuietEnd, Zenon DEF ExchangeFails, Quiet, New, Saving
<1>3. CASE Exchange(h)
  <2> DEFINE r == Renewed(job[h].arg)
             p == IF job[h].kind = "renew" THEN "persist" ELSE FirstWrite
             j == [job[h] EXCEPT !.rec = r, !.pc = p]
  <2>1. /\ users' = users /\ issued' = issued + 1 /\ backend' = backend /\ ttl' = ttl
        /\ bound' = bound /\ used' = used /\ clock' = clock /\ troubles' = troubles
        /\ live' = live \cup {issued + 1} /\ issued < MaxTokens /\ broken' = broken
    BY <1>3, Zenon DEF Exchange, store
  <2>2. /\ job[h].pc = "exchange" /\ job[h].kind \in {"renew", "onboard"} /\ job[h].arg \in Names
        /\ job[h].who \in Ids
    BY <1>1, <1>3, Zenon DEF Exchange, JobOK
  <2>3. issued + 1 \in Tokens \ {0} /\ r \in Record /\ r.token = issued + 1 /\ r.name \in Names
    BY <2>1, <2>2, Values DEF Renewed, Record, Tokens, TInv, TypeOK
  <2>4. p \in Saving \cup {"persist"} /\ (p = "persist" => job[h].kind = "renew")
    BY Zenon DEF FirstWrite, Saving
  <2>5. job' = [job EXCEPT ![h] = j]
    <3>1. CASE job[h].kind = "renew"
      BY <1>3, <3>1, Numbers, Zenon DEF Exchange
    <3>2. CASE job[h].kind # "renew"
      <4>1. job' = [job EXCEPT ![h] = [job[h] EXCEPT !.who = job[h].who, !.rec = r, !.pc = FirstWrite]]
        BY <1>3, <3>2, Numbers, Zenon DEF Exchange, Write
      <4>2. [job[h] EXCEPT !.who = job[h].who, !.rec = r, !.pc = FirstWrite] = j
        BY <1>1, <3>2, Zenon DEF Job
      <4> QED BY <4>1, <4>2, Zenon
    <3> QED BY <3>1, <3>2, Zenon
  <2> HIDE DEF r, p
  <2>6. /\ j \in Job /\ j.pc = p /\ j.kind = job[h].kind /\ j.who = job[h].who /\ j.rec = r
        /\ j.arg = job[h].arg /\ j.url = job[h].url
    BY <1>1, <2>3, <2>4, ZenonT(60) DEF Job
  <2>7. JobOK(j) /\ New(j) /\ ~New(job[h])
    BY <2>2, <2>3, <2>4, <2>6, Zenon DEF JobOK, New, Saving
  <2> HIDE DEF j
  <2>8. TInv'
    <3>1. job' \in [Handlers -> Job] /\ \A g \in Handlers : JobOK(job'[g])
      BY <2>5, <2>6, <2>7, Moved, Zenon
    <3> QED BY <2>1, <2>3, <3>1, Zenon DEF TInv, TypeOK
  <2>9. KInv'
    <3>1. live' = (live \ {}) \cup {issued + 1} /\ {} \in SUBSET {job[h].rec.token}
      BY <2>1, Zenon
    <3> QED BY <2>1, <2>2, <2>3, <2>5, <2>6, <2>7, <3>1, ObtainsKInv, Zenon
  <2> QED BY <2>8, <2>9, Zenon
<1>4. CASE Persist(h)
  <2>1. Quiet /\ job[h].kind = "renew" /\ job[h].pc = "persist" /\ job[h].who \in Ids
        /\ job[h].rec.name \in Names /\ New(job[h])
    BY <1>1, <1>4, Zenon DEF Persist, Quiet, JobOK, New
  <2>2. CASE End(h)
    BY <2>1, <2>2, QuietEnd, Zenon
  <2>3. CASE ~End(h)
    <3> DEFINE j == [job[h] EXCEPT !.who = job[h].who, !.rec = job[h].rec, !.pc = FirstWrite]
    <3>1. job' = [job EXCEPT ![h] = j]
      BY <1>4, <2>3, Numbers, Zenon DEF Persist, SaveLoaded, Write
    <3>2. FirstWrite \in Saving
      BY Zenon DEF FirstWrite, Saving
    <3>3. /\ j \in Job /\ j.pc = FirstWrite /\ j.kind = "renew" /\ j.who = job[h].who
          /\ j.rec = job[h].rec
      BY <1>1, <2>1, <3>2, Zenon DEF Job
    <3>4. JobOK(j) /\ New(j) /\ ~Works(j)
      BY <2>1, <3>2, <3>3, Zenon DEF JobOK, New, Saving, Works
    <3> HIDE DEF j
    <3>5. TInv'
      BY <2>1, <3>1, <3>3, <3>4, Moved, QuietIsReading, Zenon
    <3>6. KInv'
      BY <2>1, <3>1, <3>3, <3>4, MovesKInv, QuietIsReading, Zenon
    <3> QED BY <3>5, <3>6, Zenon
  <2> QED BY <2>2, <2>3, Zenon
<1> QED BY <1>2, <1>3, <1>4, Zenon

LEMMA WriteStep ==
    ASSUME TInv, KInv, NEW h \in Handlers,
           \/ WriteRow(h) \/ LookForHolder(h) \/ Pipeline(h) \/ WriteName(h) \/ WriteRest(h)
    PROVE  TInv' /\ KInv'
<1> DEFINE w == job[h].who
           r == job[h].rec
<1>1. job[h] \in Job /\ JobOK(job[h]) /\ job[h].pc \in Saving
  BY Numbers, Zenon DEF TInv, WriteRow, LookForHolder, Pipeline, WriteName, WriteRest, Saving
<1>2. w \in Ids /\ r \in Record /\ (job[h].kind # "delete" => r.name \in Names)
  BY <1>1, Zenon DEF JobOK, Job, Saving
<1>3. TokenStored(h) => broken' \subseteq Ids
  BY <1>2, Zenon DEF TokenStored, TInv, TypeOK
<1>4. CASE WriteRow(h)
  <2>1. /\ users' = [users EXCEPT ![w] = r] /\ TokenStored(h) /\ End(h) /\ live' = live
        /\ issued' = issued
    BY <1>4, Zenon DEF WriteRow, trakt
  <2>2. users' \in [Ids -> Record] /\ users'[w].token = r.token
        /\ \A i \in Ids \ {w} : users'[i].token = users[i].token
    BY <1>2, <2>1, Numbers, Zenon
  <2>3. TInv'
    BY <1>3, <1>4, <2>1, <2>2, Ended, Zenon DEF WriteRow, TInv, TypeOK
  <2> QED BY <1>1, <2>1, <2>2, <2>3, StoresKInv, Zenon
<1>5. CASE Pipeline(h)
  <2> DEFINE until == clock + RecordLife
             B == [id: Ids \cup {None}, until: Times]
  <2>1. /\ users' = [users EXCEPT ![w] = r] /\ TokenStored(h) /\ End(h) /\ live' = live
        /\ issued' = issued
    BY <1>5, Zenon DEF Pipeline, trakt
  <2>2. users' \in [Ids -> Record] /\ users'[w].token = r.token
        /\ \A i \in Ids \ {w} : users'[i].token = users[i].token
    BY <1>2, <2>1, Numbers, Zenon
  <2>3. until \in Times /\ Unbound \in B /\ [id |-> w, until |-> until] \in B
    BY <1>2, Values, Empty, Zenon DEF TInv, TypeOK
  <2>4. ttl' \in [Ids -> Times]
    BY <1>2, <1>5, <2>3, Values, Zenon DEF Pipeline, TInv, TypeOK
  <2>5. bound' \in [Names -> B]
    <3>0. bound \in [Names -> B]
      BY Zenon DEF TInv, TypeOK
    <3> DEFINE n == r.name
    <3> HIDE DEF until
    <3>1. CASE bound' = [bound EXCEPT ![job[h].arg] = Unbound]
      BY <2>3, <3>0, <3>1, Zenon
    <3>2. CASE bound' = [bound EXCEPT ![n] = [id |-> w, until |-> until]]
      BY <2>3, <3>0, <3>2, Zenon
    <3>3. CASE bound' = [bound EXCEPT ![n].until = until]
      BY <2>3, <3>0, <3>3, Zenon
    <3>4. CASE bound' = bound
      BY <3>0, <3>4, Zenon
    <3> QED BY <1>5, <3>1, <3>2, <3>3, <3>4, Zenon DEF Pipeline, until
  <2>6. TInv'
    BY <1>3, <1>5, <2>1, <2>2, <2>4, <2>5, Ended, Zenon DEF Pipeline, TInv, TypeOK, trakt
  <2> QED BY <1>1, <2>1, <2>2, <2>6, StoresKInv, Zenon
<1>6. CASE WriteRest(h)
  <2>1. /\ users' = [users EXCEPT ![w].token = r.token, ![w].exp = r.exp] /\ TokenStored(h)
        /\ End(h) /\ live' = live /\ issued' = issued
    BY <1>6, Zenon DEF WriteRest, trakt
  <2>2. users' \in [Ids -> Record] /\ users'[w].token = r.token
        /\ \A i \in Ids \ {w} : users'[i].token = users[i].token
    BY <1>2, <2>1, Numbers, Zenon DEF Record
  <2>3. TInv'
    BY <1>3, <1>6, <2>1, <2>2, Ended, Zenon DEF WriteRest, TInv, TypeOK
  <2> QED BY <1>1, <2>1, <2>2, <2>3, StoresKInv, Zenon
<1>7. ASSUME NEW p \in Saving, p # "holder", NEW f \in Ids \cup {None}, Reading,
             job' = [job EXCEPT ![h] = [job[h] EXCEPT !.pc = p, !.holder = f]]
      PROVE  job' \in [Handlers -> Job] /\ (\A g \in Handlers : JobOK(job'[g])) /\ KInv'
  <2> DEFINE j == [job[h] EXCEPT !.pc = p, !.holder = f]
  <2>1. /\ j \in Job /\ j.pc = p /\ j.kind = job[h].kind /\ j.who = w /\ j.rec = r
        /\ j.arg = job[h].arg /\ j.url = job[h].url
    BY <1>1, <1>7, Zenon DEF Job
  <2>2. JobOK(j) /\ (New(j) <=> New(job[h])) /\ (Works(j) => Works(job[h]))
    BY <1>1, <1>2, <1>7, <2>1, Zenon DEF JobOK, New, Saving, Works
  <2>3. job' = [job EXCEPT ![h] = j]
    BY <1>7, Zenon
  <2> HIDE DEF j
  <2>4. job' \in [Handlers -> Job] /\ \A g \in Handlers : JobOK(job'[g])
    BY <2>1, <2>2, <2>3, Moved, Zenon
  <2>5. KInv'
    BY <1>7, <2>1, <2>2, <2>3, MovesKInv, Zenon
  <2> QED BY <2>4, <2>5, Zenon
<1>8. CASE LookForHolder(h)
  <2> DEFINE i == bound[r.name].id
             f == IF i # None /\ Exists(i) THEN i ELSE None
  <2>1. Quiet /\ job[h].pc = "holder"
    BY <1>8, Zenon DEF LookForHolder, Quiet
  <2>2. i \in Ids \cup {None}
    BY <1>1, <1>2, <2>1, Zenon DEF TInv, TypeOK, JobOK
  <2>3. job' = [job EXCEPT ![h] = [job[h] EXCEPT !.pc = "pipe", !.holder = f]]
    BY <1>8, Numbers, Zenon DEF LookForHolder
  <2>4. f \in Ids \cup {None}
    BY <2>2, Zenon
  <2> HIDE DEF f
  <2>5. "pipe" \in Saving
    BY Zenon DEF Saving
  <2> QED BY <1>7, <2>1, <2>3, <2>4, <2>5, QuietIsReading, Zenon
<1>9. CASE WriteName(h)
  <2>1. users' = [users EXCEPT ![w].name = r.name] /\ live' = live /\ issued' = issued
        /\ broken' = broken
    BY <1>9, Zenon DEF WriteName, trakt
  <2>2. Reading
    BY <1>2, <2>1, Numbers, Zenon DEF Reading, Record
  <2>3. job' = [job EXCEPT ![h] = [job[h] EXCEPT !.pc = "rest", !.holder = job[h].holder]]
    <3>1. job' = [job EXCEPT ![h] = [job[h] EXCEPT !.pc = "rest"]]
      BY <1>9, Numbers, Zenon DEF WriteName, At
    <3>2. [job[h] EXCEPT !.pc = "rest"] = [job[h] EXCEPT !.pc = "rest", !.holder = job[h].holder]
      BY <1>1, Zenon DEF Job
    <3> QED BY <3>1, <3>2, Zenon
  <2>4. "rest" \in Saving /\ job[h].holder \in Ids \cup {None}
    BY <1>1, Zenon DEF Saving, Job
  <2>5. job' \in [Handlers -> Job] /\ (\A g \in Handlers : JobOK(job'[g])) /\ KInv'
    BY <1>7, <2>2, <2>3, <2>4, Zenon
  <2>6. TInv'
    BY <1>9, <2>2, <2>5, Zenon DEF WriteName, Reading, TInv, TypeOK, trakt
  <2> QED BY <2>5, <2>6, Zenon
<1> QED BY <1>4, <1>5, <1>6, <1>8, <1>9, Zenon

LEMMA WriteFailsStep ==
    ASSUME TInv, KInv, NEW h \in Handlers, WriteFails(h)
    PROVE  TInv' /\ KInv'
<1>1. /\ End(h) /\ users' = users /\ issued' = issued /\ live' = live /\ backend' = backend
      /\ ttl' = ttl /\ bound' = bound /\ used' = used /\ clock' = clock
      /\ troubles' = troubles + 1 /\ troubles < MaxTroubles
  BY Zenon DEF WriteFails, store, trakt
<1>2. job[h].who \in Ids
  BY Zenon DEF WriteFails, TInv, JobOK, Saving
<1>3. broken' \subseteq Ids
  BY <1>2, Zenon DEF WriteFails, TInv, TypeOK
<1>4. TInv'
  BY <1>1, <1>3, Ended, Values DEF TInv, TypeOK
<1>5. CASE job[h].kind = "hook"
  <2>1. broken' = broken \cup {job[h].who}
    BY <1>5, Zenon DEF WriteFails
  <2> QED BY <1>1, <1>4, <2>1, LosesKInv, Numbers, Zenon
<1>6. CASE job[h].kind # "hook"
  <2>1. broken' = broken
    BY <1>6, Zenon DEF WriteFails
  <2>2. Reading
    BY <1>1, <2>1, Numbers, Zenon DEF Reading
  <2> QED BY <1>1, <1>4, <1>6, <2>2, EndsKInv, Zenon
<1> QED BY <1>5, <1>6, Zenon

LEMMA TickStep ==
    ASSUME TInv, KInv, Tick
    PROVE  TInv' /\ KInv'
<1>1. /\ users' \in [Ids -> Record] /\ ttl' \in [Ids -> Times] /\ clock' \in 0..MaxClock
      /\ bound' \in [Names -> [id: Ids \cup {None}, until: Times]]
  BY Empty, Values DEF Tick, TInv, TypeOK
<1>2. TInv'
  BY <1>1, Zenon DEF Tick, TInv, TypeOK, trakt
<1>3. \A i \in Ids : users'[i].token = users[i].token \/ users'[i].token = 0
  BY Zenon DEF Tick, Missing
<1>4. live' = live /\ issued' = issued /\ job' = job /\ broken' = broken
  BY Zenon DEF Tick, trakt
<1>5. Known'
  BY <1>3, <1>4, Numbers DEF KInv, Known
<1>6. OneOwner'
  BY <1>3, <1>4, Numbers DEF KInv, OneOwner
<1>7. Unseen'
  BY <1>3, <1>4, Numbers, ZenonT(60) DEF KInv, Unseen, New
<1>8. Leaders' /\ Kept'
  BY <1>3, <1>4, ZenonT(60) DEF KInv, Leaders, Works, Kept, Carried
<1> QED BY <1>2, <1>5, <1>6, <1>7, <1>8, Zenon DEF KInv

LEMMA CrashStep ==
    ASSUME TInv, KInv, Crash
    PROVE  TInv' /\ KInv'
<1>1. /\ users' = users /\ live' = live /\ issued' = issued /\ broken \subseteq broken'
      /\ \A h \in Handlers : job'[h] = Idle
  BY Zenon DEF Crash, store, trakt
<1>2. TInv'
  BY Empty, Values, SMTT(30) DEF Crash, TInv, TypeOK, store, trakt
<1>3. Known' /\ OneOwner' /\ Unseen' /\ Leaders'
  BY <1>1, Numbers DEF KInv, Known, OneOwner, Unseen, Leaders, New, Works
<1>4. Kept'
  BY <1>1, Zenon DEF Crash, KInv, Kept, Carried
<1> QED BY <1>2, <1>3, <1>4, Zenon DEF KInv

-----------------------------------------------------------------------------
(* Theorems *)

LEMMA Inductive == Spec => [](TInv /\ KInv)
<1>1. Init => TInv /\ KInv
  <2>1. ASSUME Init PROVE KInv
    <3>1. /\ \A i \in Ids : users[i].token = 0
          /\ \A h \in Handlers : job[h] = Idle
          /\ live = {} /\ issued = 0
      BY <2>1, Zenon DEF Init, Missing
    <3>2. Idle.rec.token = 0 /\ ~Works(Idle) /\ ~New(Idle)
      BY <2>1, Numbers, InitTInv, Zenon
    <3>3. Known
      BY <3>1, <3>2 DEF Known
    <3>4. OneOwner /\ Unseen /\ Leaders /\ Kept
      BY <3>1, <3>2, Zenon DEF OneOwner, Unseen, Leaders, Kept
    <3> QED BY <3>3, <3>4, Zenon DEF KInv
  <2> QED BY <2>1, InitTInv, Zenon
<1>2. TInv /\ KInv /\ [Next]_vars => (TInv /\ KInv)'
  <2> SUFFICES ASSUME TInv, KInv, [Next]_vars PROVE TInv' /\ KInv'
    BY Zenon
  <2>1. CASE UNCHANGED vars
    <3>1. /\ backend' = backend /\ users' = users /\ ttl' = ttl /\ bound' = bound /\ used' = used
          /\ live' = live /\ issued' = issued /\ job' = job /\ broken' = broken
          /\ clock' = clock /\ troubles' = troubles
      BY <2>1, Zenon DEF vars, store, trakt
    <3>2. TInv'
      BY <3>1, Zenon DEF TInv, TypeOK
    <3>3. Known' /\ OneOwner' /\ Unseen'
      BY <3>1, Zenon DEF KInv, Known, OneOwner, Unseen
    <3>4. Leaders' /\ Kept'
      BY <3>1, Zenon DEF KInv, Leaders, Kept, Carried
    <3> QED BY <3>2, <3>3, <3>4, Zenon DEF KInv
  <2>2. ASSUME NEW h \in Handlers, Step(h) PROVE TInv' /\ KInv'
    BY <2>2, LookupStep, RefreshStep, AuthorizeStep, WriteStep, WriteFailsStep, Zenon DEF Step
  <2> QED BY <2>1, <2>2, RequestStep, TickStep, CrashStep, Zenon DEF Next
<1> QED BY <1>1, <1>2, PTL DEF Spec

\* Every variable of the model keeps its type, whatever the requests do.
THEOREM TypeCorrect == Spec => []TypeOK
BY Inductive, PTL DEF TInv

\* A record that no stale page, crash, lost answer, failing write or disk store
\* spoiled holds a token that Trakt accepts, or the webhook that got the next one is
\* about to store it.
THEOREM TokenKeptHolds == Spec => []TokenKept
<1>1. KInv => TokenKept
  BY Zenon DEF KInv, Kept, TokenKept, Exists
<1> QED BY <1>1, Inductive, PTL

\* A webhook presents a refresh token that was used before only if its record was
\* spoiled or has changed, or if a webhook with another key refreshed it: this
\* joins what Kept says of the record to what Leaders says of the keys.
THEOREM RefusalExplainedHolds == Spec => []RefusalExplained
<1>1. TInv /\ KInv => RefusalExplained
  <2> SUFFICES ASSUME TInv, KInv, NEW h \in Handlers, job[h].pc = "refresh",
                      job[h].rec.token \notin live, job[h].who \notin broken,
                      users[job[h].who].token = job[h].rec.token
               PROVE  \E g \in Handlers : /\ job[g].kind = "hook" /\ job[g].who = job[h].who
                                          /\ job[g].pc \in Saving
                                          /\ <<job[g].arg, job[g].url>> # <<job[h].arg, job[h].url>>
    BY Zenon DEF RefusalExplained
  <2>1. job[h].who \in Ids /\ Works(job[h]) /\ job[h].rec.token # 0
    BY Zenon DEF TInv, JobOK, Works
  <2>2. PICK g \in Handlers : Carries(job[g], job[h].who)
    BY <2>1, Zenon DEF KInv, Kept, Carried, Carries
  <2>3. g # h /\ Works(job[g])
    BY <2>2, Zenon DEF Carries, Works, Saving
  <2> QED BY <2>1, <2>2, <2>3, Zenon DEF KInv, Leaders, Carries
<1> QED BY <1>1, Inductive, PTL
=============================================================================
