---------------------------- MODULE WebhookProofs ----------------------------
(***************************************************************************)
(* Proofs about Webhook, for any number of requests, webhooks, users and   *)
(* family members, any windows of the filter and either kind of store.     *)
(*                                                                         *)
(* Each property rests on what one group of variables says of another:     *)
(* the maps of shouldProcess are never older than the passes they stand    *)
(* for (Remembers); one request is inside the lock of an item (OneHolder)  *)
(* and the record is behind what Trakt accepted only while that request    *)
(* is about to write it (Records); a member has reported only with an      *)
(* outcome (Outcomes).                                                     *)
(***************************************************************************)
EXTENDS Webhook, TLAPS

PCs == {"idle", "user", "filter", "checked", "handle", "send", "write",
        "members", "parse", "broadcast", "respond"}
Personal == {"filter", "checked", "handle", "send", "write"}
Inside == {"handle", "send", "write"}

\* The type invariant, by the groups of variables that the steps change together,
\* with what a request knows of itself.
FilterOK ==
    /\ entries \in [SpecificKeys -> Ages]
    /\ traktScrobbles \in [TraktKeys -> Ages]
    /\ passed \in [PassKeys -> Ages]

BodyOK == body \in [Items -> Bodies] /\ heard \in [Items -> Bodies]

QueueOK ==
    /\ queue \subseteq [item : Items, msg : Msgs]
    /\ draining \in [item : Items, msg : Msgs] \cup {None}

RequestOK ==
    /\ pc \in [Requests -> PCs]
    /\ hook \in [Requests -> Hooks \cup {None}]
    /\ user \in [Requests -> Users \cup {None}]
    /\ msg \in [Requests -> Msgs]
    /\ \A r \in Requests : pc[r] # "idle" => hook[r] \in Hooks
    /\ \A r \in Requests : pc[r] \in Personal => user[r] \in Users

FamilyOK ==
    /\ listed \in [Requests -> SUBSET Members]
    /\ reported \in [Requests -> SUBSET Members]
    /\ failed \in [Requests -> SUBSET Members]
    /\ reached \in [Requests -> SUBSET Members]

TInv == FilterOK /\ BodyOK /\ QueueOK /\ RequestOK /\ FamilyOK

-----------------------------------------------------------------------------
(* Which steps change which variables *)

RequestAction(r) ==
    \/ \E h \in Hooks : Arrive(r, h)
    \/ HandleStep(r)
    \/ ListMembers(r) \/ ParseWebhook(r) \/ Collect(r) \/ Respond(r)

\* Only Tick and shouldProcess touch the filter's maps.
LEMMA FilterUsers ==
    ASSUME [Next]_vars
    PROVE  UNCHANGED filterVars \/ Tick \/ \E r \in Requests : ShouldProcess(r)
BY ZenonT(60) DEF Next, vars, Arrive, HandleStep, FamilyStep, LookupUser, Lock, Decide, SendAccepted,
             SendTransient, SendRefused, Write, ListMembers, ParseWebhook, Collect, Respond,
             ReportMember, Expire, DrainSend, DrainWrite

\* Only the sends, the writes and the expiry touch the record.
LEMMA BodyUsers ==
    ASSUME [Next]_vars
    PROVE  \/ UNCHANGED bodyVars
           \/ \E r \in Requests : SendAccepted(r) \/ SendTransient(r) \/ Write(r)
           \/ \E i \in Items : Expire(i)
           \/ \E e \in queue : DrainSend(e)
           \/ DrainWrite
BY ZenonT(60) DEF Next, vars, Arrive, HandleStep, FamilyStep, LookupUser, ShouldProcess, Lock, Decide,
             SendRefused, ListMembers, ParseWebhook, Collect, Respond, ReportMember, Tick

\* Only a transient failure and a drain touch the offline queue.
LEMMA QueueUsers ==
    ASSUME [Next]_vars
    PROVE  \/ UNCHANGED queueVars
           \/ \E r \in Requests : SendTransient(r)
           \/ \E e \in queue : DrainSend(e)
           \/ DrainWrite
BY ZenonT(60) DEF Next, vars, Arrive, HandleStep, FamilyStep, LookupUser, ShouldProcess, Lock, Decide,
             SendAccepted, SendRefused, Write, ListMembers, ParseWebhook, Collect, Respond,
             ReportMember, Tick, Expire

\* Only a request's own steps move it.
LEMMA RequestUsers ==
    ASSUME [Next]_vars
    PROVE  UNCHANGED requestVars \/ \E r \in Requests : RequestAction(r)
BY Zenon DEF Next, vars, FamilyStep, RequestAction, ReportMember, Tick, Expire, DrainSend, DrainWrite

\* Only the family's steps touch the reports of the members.
LEMMA FamilyUsers ==
    ASSUME [Next]_vars
    PROVE  \/ UNCHANGED familyVars
           \/ \E r \in Requests : \/ ListMembers(r) \/ ParseWebhook(r) \/ Respond(r)
                                  \/ \E m \in Members : ReportMember(r, m)
BY ZenonT(60) DEF Next, vars, Arrive, HandleStep, FamilyStep, LookupUser, ShouldProcess, Lock, Decide,
             SendAccepted, SendTransient, SendRefused, Write, Collect, Tick, Expire, DrainSend,
             DrainWrite

-----------------------------------------------------------------------------
(* Types *)

\* The rounding of getAction stays a percentage.
LEMMA Percent ==
    ASSUME NEW v \in Nat, NEW d \in Nat, d > 0, v <= d
    PROVE  (200 * v + d) \div (2 * d) \in 0..100
<1> DEFINE x == 200 * v + d
           y == 2 * d
<1>1. x \in Nat /\ y \in Nat /\ y > 0 /\ x < 101 * y
  OBVIOUS
<1>2. ASSUME NEW a \in Nat, NEW b \in Nat, b > 0, a < 101 * b
      PROVE  a \div b \in 0..100
  <2>1. a \div b \in Int /\ b * (a \div b) <= a /\ a < b * ((a \div b) + 1)
    BY <1>2
  <2>2. ASSUME NEW c \in Int, b * c <= a, a < b * (c + 1)
        PROVE  c \in 0..100
    <3>1. ASSUME c < 0 PROVE FALSE
      BY <1>2, <2>2, <3>1
    <3>2. ASSUME c > 100 PROVE FALSE
      BY <1>2, <2>2, <3>2
    <3> QED BY <3>1, <3>2
  <2> QED BY <2>1, <2>2
<1> QED BY <1>1, <1>2

\* getAction returns an action and a percentage.
LEMMA ActionType ==
    ASSUME NEW h \in Hooks, NEW b \in Bodies
    PROVE  getAction(h, b) \in Msgs
<1>1. ProgressOf(h, b) \in 0..100
  <2>1. h.viewOffset \in Nat /\ h.duration \in Nat /\ (h.duration > 0 => h.viewOffset <= h.duration)
    BY WebhookAssumption, Zenon
  <2>2. b.last.progress \in 0..100
    BY DEF Bodies, Msgs, Progress
  <2> QED BY <2>1, <2>2, Percent DEF ProgressOf
<1>2. ASSUME NEW p \in 0..100, ProgressOf(h, b) = p
      PROVE  getAction(h, b) \in Msgs
  <2>1. ProgressThreshold \in 0..100
    BY WebhookAssumption
  <2> QED BY <1>2, <2>1 DEF getAction, Msgs, Actions, Progress
<1> QED BY <1>1, <1>2, SMTT(30)

\* The records that are written.
LEMMA BodyTypes ==
    /\ Nothing \in Msgs /\ EmptyBody \in Bodies
    /\ \A h \in Hooks, m \in Msgs : [server |-> h.server, last |-> m] \in Bodies
    /\ \A m \in Msgs : [server |-> "", last |-> m] \in Bodies
<1>1. Nothing \in Msgs
  BY DEF Nothing, Msgs, Actions, Progress
<1> QED BY <1>1, Zenon DEF EmptyBody, Bodies

\* A request that is answered is idle.
LEMMA FinishOK ==
    ASSUME RequestOK, NEW r \in Requests, Finish(r)
    PROVE  RequestOK'
BY BodyTypes, Zenon DEF RequestOK, Finish, Goto, PCs, Personal

\* A request that goes on keeps its webhook, and its user once it has one.
LEMMA GoOK ==
    ASSUME RequestOK, NEW r \in Requests, NEW there \in PCs, Goto(r, there), UNCHANGED hook,
           user' \in [Requests -> Users \cup {None}], msg' \in [Requests -> Msgs],
           \A q \in Requests \ {r} : user'[q] = user[q],
           hook[r] \in Hooks, there \in Personal => user'[r] \in Users
    PROVE  RequestOK'
BY Zenon DEF RequestOK, Goto

LEMMA RequestStep ==
    ASSUME TInv, NEW r \in Requests, RequestAction(r)
    PROVE  RequestOK'
<1> USE DEF TInv
<1>h. pc[r] # "idle" => hook[r] \in Hooks
  BY Zenon DEF RequestOK
<1>u. pc[r] \in Personal => user[r] \in Users
  BY Zenon DEF RequestOK
<1>s. /\ UNCHANGED user => /\ user' \in [Requests -> Users \cup {None}]
                          /\ \A q \in Requests \ {r} : user'[q] = user[q]
      /\ UNCHANGED msg => msg' \in [Requests -> Msgs]
  BY Zenon DEF RequestOK
<1>1. ASSUME NEW h \in Hooks, Arrive(r, h) PROVE RequestOK'
  BY <1>1, Zenon DEF Arrive, RequestOK, Goto, PCs, Personal
<1>2. CASE LookupUser(r)
  <2>1. CASE Finish(r)
    BY <2>1, FinishOK, Zenon
  <2>2. ASSUME NEW u \in Users, user' = [user EXCEPT ![r] = u], Goto(r, "filter"),
               UNCHANGED <<hook, msg>>
        PROVE  RequestOK'
    <3>1. /\ user' \in [Requests -> Users \cup {None}] /\ user'[r] \in Users
          /\ \A q \in Requests \ {r} : user'[q] = user[q]
      BY <2>2, Zenon DEF RequestOK
    <3> QED BY <1>2, <1>h, <1>s, <2>2, <3>1, GoOK, Zenon DEF LookupUser, PCs
  <2> QED BY <1>2, <2>1, <2>2, Zenon DEF LookupUser, UserOf
<1>3. CASE ShouldProcess(r)
  <2>1. pc[r] = "filter" /\ (Finish(r) \/ (Goto(r, "checked") /\ UNCHANGED <<hook, user, msg>>))
    BY <1>3, Zenon DEF ShouldProcess
  <2> QED BY <1>h, <1>u, <1>s, <2>1, FinishOK, GoOK, Zenon DEF PCs, Personal
<1>4. CASE Lock(r)
  <2>1. pc[r] = "checked" /\ (Finish(r) \/ (Goto(r, "handle") /\ UNCHANGED <<hook, user, msg>>))
    BY <1>4, Zenon DEF Lock
  <2> QED BY <1>h, <1>u, <1>s, <2>1, FinishOK, GoOK, Zenon DEF PCs, Personal
<1>m. ASSUME hook[r] \in Hooks, msg' = [msg EXCEPT ![r] = getAction(hook[r], body[lockKey(hook[r])])]
      PROVE  msg' \in [Requests -> Msgs]
  <2>1. body[lockKey(hook[r])] \in Bodies
    BY <1>m, Zenon DEF BodyOK, Items
  <2>2. getAction(hook[r], body[lockKey(hook[r])]) \in Msgs
    BY <1>m, <2>1, ActionType, Zenon
  <2> QED BY <1>m, <2>2, Zenon DEF RequestOK
<1>5. CASE Decide(r)
  <2>1. /\ pc[r] = "handle"
        /\ \/ Finish(r)
           \/ /\ Goto(r, "send") /\ UNCHANGED <<hook, user>>
              /\ msg' = [msg EXCEPT ![r] = getAction(hook[r], body[lockKey(hook[r])])]
    BY <1>5, Zenon DEF Decide
  <2> QED BY <1>h, <1>u, <1>s, <1>m, <2>1, FinishOK, GoOK, Zenon DEF PCs, Personal
<1>6. CASE SendAccepted(r)
  <2>1. pc[r] = "send" /\ (Finish(r) \/ (Goto(r, "write") /\ UNCHANGED <<hook, user, msg>>))
    BY <1>6, Zenon DEF SendAccepted
  <2> QED BY <1>h, <1>u, <1>s, <2>1, FinishOK, GoOK, Zenon DEF PCs, Personal
<1>7. CASE SendTransient(r) \/ SendRefused(r) \/ Write(r) \/ Respond(r)
  BY <1>7, FinishOK, Zenon DEF SendTransient, SendRefused, Write, Respond
<1>8. CASE ListMembers(r)
  <2>1. pc[r] = "members" /\ (Finish(r) \/ (Goto(r, "parse") /\ UNCHANGED <<hook, user, msg>>))
    BY <1>8, Zenon DEF ListMembers
  <2> QED BY <1>h, <1>s, <2>1, FinishOK, GoOK, Zenon DEF PCs, Personal
<1>9. CASE ParseWebhook(r)
  <2>1. /\ pc[r] = "parse"
        /\ \/ Finish(r)
           \/ /\ Goto(r, "broadcast") /\ UNCHANGED <<hook, user>>
              /\ msg' = [msg EXCEPT ![r] = getAction(hook[r], body[lockKey(hook[r])])]
    BY <1>9, Zenon DEF ParseWebhook
  <2> QED BY <1>h, <1>s, <1>m, <2>1, FinishOK, GoOK, Zenon DEF PCs, Personal
<1>10. CASE Collect(r)
  <2>1. pc[r] = "broadcast" /\ Goto(r, "respond") /\ UNCHANGED <<hook, user, msg>>
    BY <1>10, Zenon DEF Collect
  <2> QED BY <1>h, <1>s, <2>1, GoOK, Zenon DEF PCs, Personal
<1> QED BY <1>1, <1>2, <1>3, <1>4, <1>5, <1>6, <1>7, <1>8, <1>9, <1>10, Zenon
        DEF RequestAction, HandleStep

\* Ages grow to just beyond the retention, and fade or are purged.
LEMMA AgeTypes ==
    /\ 0 \in Ages /\ None \in Ages
    /\ \A a \in Ages : Older(a) \in Ages /\ Purged(a) \in Ages /\ Faded(a) \in Ages
<1>1. 0 \in Ages /\ None \in Ages
  BY WebhookAssumption DEF Ages
<1>2. ASSUME NEW a \in Ages PROVE Older(a) \in Ages /\ Purged(a) \in Ages /\ Faded(a) \in Ages
  <2>1. CASE a = None
    BY <1>1, <2>1, Zenon DEF Older, Purged, Faded
  <2>2. CASE a # None
    <3>1. a \in 0..(Retention + 1)
      BY <1>2, <2>2, Zenon DEF Ages
    <3>2. Older(a) \in Ages /\ Purged(a) \in Ages
      BY <2>2, <3>1, WebhookAssumption DEF Older, Purged, Ages
    <3>3. Faded(a) \in Ages
      BY <2>2, <3>1, WebhookAssumption DEF Faded, Ages
    <3> QED BY <3>2, <3>3, Zenon
  <2> QED BY <2>1, <2>2, Zenon
<1> QED BY <1>1, <1>2, Zenon

LEMMA FilterTypes == TInv /\ [Next]_vars => FilterOK'
<1> SUFFICES ASSUME TInv, [Next]_vars PROVE FilterOK'
  BY Zenon
<1>t. /\ entries \in [SpecificKeys -> Ages] /\ traktScrobbles \in [TraktKeys -> Ages]
      /\ passed \in [PassKeys -> Ages]
  BY Zenon DEF TInv, FilterOK
<1>1. CASE UNCHANGED filterVars
  BY <1>1, <1>t, Zenon DEF filterVars, FilterOK
<1>2. CASE Tick
  BY <1>2, <1>t, AgeTypes, Zenon DEF Tick, FilterOK
<1>3. ASSUME NEW r \in Requests, ShouldProcess(r) PROVE FilterOK'
  <2>1. CASE UNCHANGED filterVars
    BY <2>1, <1>1, Zenon
  <2> DEFINE specific == specificKey(hook[r].id, hook[r])
             trakt == traktKey(user[r], hook[r])
  <2>2. ASSUME entries' = [k \in SpecificKeys |-> IF k = specific THEN 0 ELSE Purged(entries[k])],
               traktScrobbles' =
                 [k \in TraktKeys |-> IF k = trakt THEN 0 ELSE Purged(traktScrobbles[k])],
               passed' = [passed EXCEPT ![<<specific, trakt>>] = 0]
        PROVE  FilterOK'
    <3>1. entries' \in [SpecificKeys -> Ages] /\ traktScrobbles' \in [TraktKeys -> Ages]
      BY <1>t, <2>2, AgeTypes, Zenon
    <3>2. passed' \in [PassKeys -> Ages]
      BY <1>t, <2>2, AgeTypes, Zenon
    <3> QED BY <3>1, <3>2, Zenon DEF FilterOK
  <2> QED BY <1>3, <2>1, <2>2, Zenon DEF ShouldProcess
<1> QED BY <1>1, <1>2, <1>3, FilterUsers, Zenon

LEMMA BodyStepTypes == TInv /\ [Next]_vars => BodyOK'
<1> SUFFICES ASSUME TInv, [Next]_vars PROVE BodyOK'
  BY Zenon
<1>t. body \in [Items -> Bodies] /\ heard \in [Items -> Bodies]
  BY Zenon DEF TInv, BodyOK
<1>f. ASSUME NEW i, Forget(i) PROVE heard' \in [Items -> Bodies]
  BY <1>t, <1>f, BodyTypes, Zenon DEF Forget
<1>1. CASE UNCHANGED bodyVars
  BY <1>1, <1>t, Zenon DEF bodyVars, BodyOK
<1>2. ASSUME NEW r \in Requests, SendAccepted(r) \/ SendTransient(r) \/ Write(r) PROVE BodyOK'
  <2>1. hook[r] \in Hooks /\ msg[r] \in Msgs
    BY <1>2, Zenon DEF SendAccepted, SendTransient, Write, TInv, RequestOK
  <2>2. [server |-> hook[r].server, last |-> msg[r]] \in Bodies
    BY <2>1, BodyTypes, Zenon
  <2>3. CASE SendAccepted(r)
    BY <1>t, <1>f, <2>2, <2>3, Zenon DEF SendAccepted, BodyOK
  <2>4. CASE SendTransient(r)
    BY <1>t, <1>f, <2>4, Zenon DEF SendTransient, BodyOK
  <2>5. CASE Write(r)
    BY <1>t, <2>2, <2>5, Zenon DEF Write, WriteScrobbleBody, BodyOK
  <2> QED BY <1>2, <2>3, <2>4, <2>5, Zenon
<1>3. ASSUME NEW i \in Items, Expire(i) PROVE BodyOK'
  BY <1>3, <1>t, <1>f, BodyTypes, Zenon DEF Expire, BodyOK
<1>4. ASSUME NEW e \in queue, DrainSend(e) PROVE BodyOK'
  BY <1>4, <1>t, <1>f, Zenon DEF DrainSend, BodyOK
<1>5. CASE DrainWrite
  <2>1. CASE UNCHANGED bodyVars
    BY <2>1, <1>1, Zenon
  <2>2. CASE WriteScrobbleBody(draining.item, "", draining.msg) /\ Forget(draining.item)
    <3>1. draining.msg \in Msgs
      BY <1>5 DEF DrainWrite, TInv, QueueOK
    <3>2. [server |-> "", last |-> draining.msg] \in Bodies
      BY <3>1, BodyTypes, Zenon
    <3> QED BY <1>t, <1>f, <2>2, <3>2, Zenon DEF WriteScrobbleBody, BodyOK
  <2> QED BY <1>5, <2>1, <2>2, Zenon DEF DrainWrite
<1> QED BY <1>1, <1>2, <1>3, <1>4, <1>5, BodyUsers, Zenon

LEMMA QueueTypes == TInv /\ [Next]_vars => QueueOK'
<1> SUFFICES ASSUME TInv, [Next]_vars PROVE QueueOK'
  BY Zenon
<1>1. CASE UNCHANGED queueVars
  BY <1>1, Zenon DEF queueVars, TInv, QueueOK
<1>2. ASSUME NEW r \in Requests, SendTransient(r) PROVE QueueOK'
  <2>1. lockKey(hook[r]) \in Items /\ msg[r] \in Msgs
    BY <1>2, Zenon DEF SendTransient, TInv, RequestOK, Items
  <2>2. [item |-> lockKey(hook[r]), msg |-> msg[r]] \in [item : Items, msg : Msgs]
    BY <2>1, Zenon
  <2> QED BY <1>2, <2>2, Zenon DEF SendTransient, TInv, QueueOK
<1>3. ASSUME NEW e \in queue, DrainSend(e) PROVE QueueOK'
  BY <1>3, Zenon DEF DrainSend, TInv, QueueOK
<1>4. CASE DrainWrite
  BY <1>4, Zenon DEF DrainWrite, TInv, QueueOK
<1> QED BY <1>1, <1>2, <1>3, <1>4, QueueUsers, Zenon

LEMMA FamilyTypes == TInv /\ [Next]_vars => FamilyOK'
<1> SUFFICES ASSUME TInv, [Next]_vars PROVE FamilyOK'
  BY Zenon
<1> USE DEF TInv
<1>1. CASE UNCHANGED familyVars
  BY <1>1, Zenon DEF familyVars, FamilyOK
<1>2. ASSUME NEW r \in Requests, Forgotten(r) PROVE FamilyOK'
  <2>1. {} \in SUBSET Members
    BY Zenon
  <2> QED BY <1>2, <2>1, Zenon DEF Forgotten, FamilyOK
<1>3. ASSUME NEW r \in Requests, ListMembers(r) PROVE FamilyOK'
  BY <1>3, Zenon DEF ListMembers, FamilyOK
<1>4. ASSUME NEW r \in Requests, ParseWebhook(r) \/ Respond(r) PROVE FamilyOK'
  BY <1>1, <1>2, <1>4, Zenon DEF ParseWebhook, Respond
<1>5. ASSUME NEW r \in Requests, NEW m \in Members, ReportMember(r, m) PROVE FamilyOK'
  <2>1. /\ reported[r] \cup {m} \in SUBSET Members
        /\ failed[r] \cup {m} \in SUBSET Members /\ reached[r] \cup {m} \in SUBSET Members
    BY Zenon DEF FamilyOK
  <2> QED BY <1>5, <2>1, Zenon DEF ReportMember, FamilyOK
<1> QED BY <1>1, <1>3, <1>4, <1>5, FamilyUsers, Zenon

LEMMA InitTInv == Init => TInv
<1> SUFFICES ASSUME Init PROVE TInv
  BY Zenon
<1>1. FilterOK
  BY AgeTypes, Zenon DEF Init, FilterOK
<1>2. BodyOK /\ QueueOK
  BY BodyTypes, Zenon DEF Init, BodyOK, QueueOK
<1>3. RequestOK
  BY BodyTypes, Zenon DEF Init, RequestOK, PCs, Personal
<1>4. FamilyOK
  <2>1. {} \in SUBSET Members
    BY Zenon
  <2> QED BY <2>1, Zenon DEF Init, FamilyOK
<1> QED BY <1>1, <1>2, <1>3, <1>4, Zenon DEF TInv

LEMMA NextTInv == TInv /\ [Next]_vars => TInv'
<1> SUFFICES ASSUME TInv, [Next]_vars PROVE TInv'
  BY Zenon
<1>1. RequestOK'
  <2>1. CASE UNCHANGED requestVars
    BY <2>1, Zenon DEF requestVars, TInv, RequestOK
  <2> QED BY <2>1, RequestUsers, RequestStep, Zenon
<1> QED BY <1>1, FilterTypes, BodyStepTypes, QueueTypes, FamilyTypes, Zenon DEF TInv

\* A request's step leaves the other requests where they are.
LEMMA OthersStay ==
    ASSUME TInv, NEW r \in Requests, RequestAction(r)
    PROVE  \A q \in Requests \ {r} : pc'[q] = pc[q] /\ hook'[q] = hook[q] /\ msg'[q] = msg[q]
<1>1. /\ \E there : pc' = [pc EXCEPT ![r] = there]
      /\ hook' = hook \/ \E h : hook' = [hook EXCEPT ![r] = h]
      /\ msg' = msg \/ \E m : msg' = [msg EXCEPT ![r] = m]
  BY Zenon DEF RequestAction, HandleStep, Arrive, LookupUser, ShouldProcess, Lock, Decide,
     SendAccepted, SendTransient, SendRefused, Write, ListMembers, ParseWebhook, Collect, Respond,
     Finish, Goto
<1>2. /\ pc \in [Requests -> PCs] /\ hook \in [Requests -> Hooks \cup {None}]
      /\ msg \in [Requests -> Msgs]
  BY Zenon DEF TInv, RequestOK
<1> QED BY <1>1, <1>2, Zenon

LEMMA TInvHolds == Spec => []TInv
BY InitTInv, NextTInv, PTL DEF Spec

\* Every variable of the handler, the filter, the record and the broadcast keeps its
\* type: in particular getAction's rounding stays within 0 to 100 percent for every
\* offset and duration, and the ages of the filter's maps stay within the retention.
THEOREM TypeCorrect == Spec => []TypeOK
<1>1. TInv => TypeOK
  BY Zenon DEF TInv, FilterOK, BodyOK, QueueOK, RequestOK, FamilyOK, PCs, TypeOK
<1> QED BY <1>1, TInvHolds, PTL

-----------------------------------------------------------------------------
(* The broadcast *)

\* A member has reported only with an outcome, and the answer waits for all reports.
Outcomes ==
    \A r \in Requests : /\ reported[r] \subseteq failed[r] \cup reached[r]
                        /\ pc[r] = "respond" => listed[r] \subseteq reported[r]

LEMMA OutcomesStep == TInv /\ Outcomes /\ [Next]_vars => Outcomes'
<1> SUFFICES ASSUME TInv, Outcomes, [Next]_vars PROVE Outcomes'
  BY Zenon
<1>t. pc \in [Requests -> PCs] /\ FamilyOK
  BY Zenon DEF TInv, RequestOK
<1>p. ASSUME NEW r \in Requests, RequestAction(r)
      PROVE  \A q \in Requests : pc'[q] = "respond" => pc[q] = "respond" \/ (q = r /\ Collect(r))
  <2>1. pc'[r] = "respond" => pc[r] = "respond" \/ Collect(r)
    BY <1>p, <1>t, Zenon DEF RequestAction, HandleStep, Arrive, LookupUser, ShouldProcess, Lock, Decide,
       SendAccepted, SendTransient, SendRefused, Write, ListMembers, ParseWebhook, Respond,
       Finish, Goto
  <2>2. \A q \in Requests \ {r} : pc'[q] = pc[q]
    BY <1>p, OthersStay, Zenon
  <2> QED BY <2>1, <2>2, Zenon
<1>1. CASE UNCHANGED familyVars
  <2>1. CASE UNCHANGED requestVars
    BY <1>1, <2>1, Zenon DEF familyVars, requestVars, Outcomes
  <2>2. ASSUME NEW r \in Requests, RequestAction(r) PROVE Outcomes'
    BY <1>1, <1>p, <2>2, Zenon DEF familyVars, Collect, Outcomes
  <2> QED BY <2>1, <2>2, RequestUsers, Zenon
<1>2. ASSUME NEW r \in Requests, ListMembers(r) PROVE Outcomes'
  <2>1. RequestAction(r) /\ pc[r] # "respond" /\ ~Collect(r)
    BY <1>2, Zenon DEF RequestAction, ListMembers, Collect
  <2>2. \A q \in Requests \ {r} : listed'[q] = listed[q]
    BY <1>2, <1>t, Zenon DEF ListMembers, FamilyOK
  <2> QED BY <1>2, <1>p, <2>1, <2>2, Zenon DEF ListMembers, Outcomes
<1>3. ASSUME NEW r \in Requests, ParseWebhook(r) \/ Respond(r) PROVE Outcomes'
  <2>1. RequestAction(r) /\ ~Collect(r)
    BY <1>3, Zenon DEF RequestAction, ParseWebhook, Respond, Collect
  <2>2. CASE UNCHANGED familyVars
    BY <1>1, <2>2, Zenon
  <2>3. CASE Forgotten(r)
    <3>1. /\ listed'[r] = {} /\ reported'[r] = {}
          /\ \A q \in Requests \ {r} : /\ listed'[q] = listed[q] /\ reported'[q] = reported[q]
                                       /\ failed'[q] = failed[q] /\ reached'[q] = reached[q]
      BY <1>t, <2>3, Zenon DEF Forgotten, FamilyOK
    <3> QED BY <1>p, <2>1, <3>1, Zenon DEF Outcomes
  <2> QED BY <1>3, <2>2, <2>3, Zenon DEF ParseWebhook, Respond
<1>4. ASSUME NEW r \in Requests, NEW m \in Members, ReportMember(r, m) PROVE Outcomes'
  <2>1. pc' = pc /\ listed' = listed
    BY <1>4, Zenon DEF ReportMember, requestVars
  <2>2. /\ reported'[r] = reported[r] \cup {m}
        /\ \/ failed'[r] = failed[r] /\ reached'[r] = reached[r] \cup {m}
           \/ failed'[r] = failed[r] \cup {m} /\ reached'[r] = reached[r]
        /\ \A q \in Requests \ {r} : /\ reported'[q] = reported[q]
                                     /\ failed'[q] = failed[q] /\ reached'[q] = reached[q]
    BY <1>4, <1>t, Zenon DEF ReportMember, FamilyOK
  <2> QED BY <2>1, <2>2, Zenon DEF Outcomes
<1> QED BY <1>1, <1>2, <1>3, <1>4, FamilyUsers, Zenon

\* handleFamilyWebhook answers when every member's goroutine has reported, and each
\* member it does not count as failed has Trakt's acceptance, however the goroutines
\* of this and other broadcasts interleave.
THEOREM SuccessHolds == Spec => []SuccessIsReal
<1>1. Init => Outcomes
  BY Zenon DEF Init, Outcomes
<1>2. Outcomes => SuccessIsReal
  BY Zenon DEF Outcomes, SuccessIsReal
<1> QED BY <1>1, <1>2, OutcomesStep, TInvHolds, PTL DEF Spec

-----------------------------------------------------------------------------
(* The filter of repeated requests *)

\* As long as a window may be open after a pass, both maps know of a pass at least as
\* recent: a later pass renews the time, and the purge is later than both windows.
Remembers ==
    \A k \in PassKeys : passed[k] # None =>
        /\ passed[k] <= Retention
        /\ entries[k[1]] # None /\ entries[k[1]] <= passed[k]
        /\ traktScrobbles[k[2]] # None /\ traktScrobbles[k[2]] <= passed[k]

LEMMA KeyTypes == \A k \in PassKeys : k[1] \in SpecificKeys /\ k[2] \in TraktKeys
<1> TAKE k \in PassKeys
<1>1. PICK u \in Users, h \in Hooks : k = <<specificKey(h.id, h), traktKey(u, h)>>
  BY DEF PassKeys
<1>2. specificKey(h.id, h) \in SpecificKeys /\ traktKey(u, h) \in TraktKeys
  BY DEF SpecificKeys, TraktKeys
<1>3. k[1] = specificKey(h.id, h) /\ k[2] = traktKey(u, h)
  BY <1>1
<1> QED BY <1>2, <1>3, Zenon

\* An age that is no older than a pass stays so when time passes.
LEMMA OlderThanPass ==
    ASSUME NEW a \in Ages, NEW p \in Ages, p # None, p <= Retention, a # None, a <= p,
           Faded(p) # None
    PROVE  Faded(p) <= Retention /\ Older(a) # None /\ Older(a) <= Faded(p)
<1>1. a \in Nat /\ p \in Nat /\ Faded(p) = p + 1
  BY WebhookAssumption DEF Ages, Faded
<1>2. ~(p + 1 >= SpecificWindow /\ p + 1 >= TraktWindow)
  BY Zenon DEF Faded
<1>3. p + 1 <= Retention
  BY <1>1, <1>2, WebhookAssumption
<1>4. ~(a = None \/ a > Retention)
  BY <1>1, WebhookAssumption
<1>5. Older(a) = a + 1 /\ a + 1 \in Nat
  BY <1>1, <1>4 DEF Older
<1> QED BY <1>1, <1>3, <1>5, WebhookAssumption

LEMMA RemembersStep == TInv /\ Remembers /\ [Next]_vars => Remembers'
<1> SUFFICES ASSUME TInv, Remembers, [Next]_vars PROVE Remembers'
  BY Zenon
<1>t. /\ entries \in [SpecificKeys -> Ages] /\ traktScrobbles \in [TraktKeys -> Ages]
      /\ passed \in [PassKeys -> Ages]
  BY Zenon DEF TInv, FilterOK
<1>k. ASSUME NEW k \in PassKeys
      PROVE  /\ k[1] \in SpecificKeys /\ k[2] \in TraktKeys /\ passed[k] \in Ages
             /\ entries[k[1]] \in Ages /\ traktScrobbles[k[2]] \in Ages
  BY <1>t, KeyTypes, Zenon
<1>1. CASE UNCHANGED filterVars
  BY <1>1, Zenon DEF filterVars, Remembers
<1>2. CASE Tick
  <2> SUFFICES ASSUME NEW k \in PassKeys, passed'[k] # None
               PROVE  /\ passed'[k] <= Retention
                      /\ entries'[k[1]] # None /\ entries'[k[1]] <= passed'[k]
                      /\ traktScrobbles'[k[2]] # None /\ traktScrobbles'[k[2]] <= passed'[k]
    BY Zenon DEF Remembers
  <2>1. /\ passed'[k] = Faded(passed[k]) /\ entries'[k[1]] = Older(entries[k[1]])
        /\ traktScrobbles'[k[2]] = Older(traktScrobbles[k[2]])
    BY <1>2, <1>k, Zenon DEF Tick
  <2>2. passed[k] # None
    BY <2>1, Zenon DEF Faded
  <2> QED BY <1>k, <2>1, <2>2, OlderThanPass, Zenon DEF Remembers
<1>3. ASSUME NEW r \in Requests, ShouldProcess(r) PROVE Remembers'
  <2>1. CASE UNCHANGED filterVars
    BY <2>1, <1>1, Zenon
  <2> DEFINE specific == specificKey(hook[r].id, hook[r])
             trakt == traktKey(user[r], hook[r])
  <2>2. ASSUME entries' = [k \in SpecificKeys |-> IF k = specific THEN 0 ELSE Purged(entries[k])],
               traktScrobbles' =
                 [k \in TraktKeys |-> IF k = trakt THEN 0 ELSE Purged(traktScrobbles[k])],
               passed' = [passed EXCEPT ![<<specific, trakt>>] = 0]
        PROVE  Remembers'
    <3> SUFFICES ASSUME NEW k \in PassKeys, passed'[k] # None
                 PROVE  /\ passed'[k] <= Retention
                        /\ entries'[k[1]] # None /\ entries'[k[1]] <= passed'[k]
                        /\ traktScrobbles'[k[2]] # None /\ traktScrobbles'[k[2]] <= passed'[k]
      BY Zenon DEF Remembers
    <3>1. /\ entries'[k[1]] = IF k[1] = specific THEN 0 ELSE Purged(entries[k[1]])
          /\ traktScrobbles'[k[2]] = IF k[2] = trakt THEN 0 ELSE Purged(traktScrobbles[k[2]])
      BY <1>k, <2>2, Zenon
    <3>2. CASE k = <<specific, trakt>>
      <4>1. k[1] = specific /\ k[2] = trakt
        BY <3>2
      <4>2. passed'[k] = 0
        BY <1>t, <2>2, <3>2, Zenon
      <4> QED BY <3>1, <4>1, <4>2, WebhookAssumption
    <3>3. CASE k # <<specific, trakt>>
      <4>1. passed'[k] = passed[k]
        BY <1>t, <2>2, <3>3, Zenon
      <4>2. /\ passed[k] # None /\ passed[k] <= Retention
            /\ entries[k[1]] # None /\ entries[k[1]] <= passed[k]
            /\ traktScrobbles[k[2]] # None /\ traktScrobbles[k[2]] <= passed[k]
        BY <4>1, Zenon DEF Remembers
      <4>3. ASSUME NEW a \in Ages, a # None, a <= passed[k] PROVE Purged(a) = a
        BY <1>k, <4>2, <4>3, WebhookAssumption DEF Purged, Ages
      <4>4. 0 <= passed[k] /\ 0 # None
        BY <1>k, <4>2, WebhookAssumption DEF Ages
      <4> QED BY <1>k, <3>1, <4>1, <4>2, <4>3, <4>4, Zenon
    <3> QED BY <3>2, <3>3, Zenon
  <2> QED BY <1>3, <2>1, <2>2, Zenon DEF ShouldProcess
<1> QED BY <1>1, <1>2, <1>3, FilterUsers, Zenon

\* Within the window of a pass, the filter's map still blocks.
LEMMA Blocks ==
    ASSUME TInv, Remembers, NEW k \in PassKeys
    PROVE  /\ Recent(passed[k], SpecificWindow) => Recent(entries[k[1]], SpecificWindow)
           /\ Recent(passed[k], TraktWindow) => Recent(traktScrobbles[k[2]], TraktWindow)
<1>1. /\ passed[k] \in Ages
      /\ entries[k[1]] \in Ages /\ traktScrobbles[k[2]] \in Ages
  BY KeyTypes, Zenon DEF TInv, FilterOK
<1>2. ASSUME NEW a \in Ages, NEW p \in Ages, NEW w \in Nat, a # None, a <= p, Recent(p, w)
      PROVE  Recent(a, w)
  BY <1>2, WebhookAssumption DEF Recent, Ages
<1>3. SpecificWindow \in Nat /\ TraktWindow \in Nat
  BY WebhookAssumption, Zenon
<1>4. ASSUME passed[k] # None
      PROVE  /\ entries[k[1]] # None /\ entries[k[1]] <= passed[k]
             /\ traktScrobbles[k[2]] # None /\ traktScrobbles[k[2]] <= passed[k]
  BY <1>4, Zenon DEF Remembers
<1>5. \A w : Recent(passed[k], w) => passed[k] # None
  BY Zenon DEF Recent
<1> QED BY <1>1, <1>2, <1>3, <1>4, <1>5, Zenon

\* shouldProcess lets no webhook pass within the window of an earlier one with the
\* same URL, or the same Trakt account, event, item and offset, whichever requests
\* pass in between and whatever they purge from the two maps.
THEOREM NoRapidRepeatHolds == Spec => NoRapidRepeat
<1> DEFINE A == \A r \in Requests : pc[r] = "filter" /\ pc'[r] = "checked" =>
                  LET h == hook[r] IN
                  \A k \in PassKeys :
                      /\ k[1] = specificKey(h.id, h) => ~Recent(passed[k], SpecificWindow)
                      /\ k[2] = traktKey(user[r], h) => ~Recent(passed[k], TraktWindow)
<1>1. TInv /\ Remembers /\ [Next]_vars => [A]_vars
  <2> SUFFICES ASSUME TInv, Remembers, [Next]_vars, NEW r \in Requests,
                      pc[r] = "filter", pc'[r] = "checked"
               PROVE  \A k \in PassKeys :
                        /\ k[1] = specificKey(hook[r].id, hook[r]) => ~Recent(passed[k], SpecificWindow)
                        /\ k[2] = traktKey(user[r], hook[r]) => ~Recent(passed[k], TraktWindow)
    BY Zenon
  <2>1. ShouldProcess(r)
    <3>1. PICK q \in Requests : RequestAction(q)
      BY RequestUsers, Zenon DEF requestVars
    <3>2. q = r
      BY <3>1, OthersStay, Zenon
    <3> QED BY <3>1, <3>2, Zenon DEF RequestAction, HandleStep, Arrive, LookupUser, Lock, Decide,
            SendAccepted, SendTransient, SendRefused, Write, ListMembers, ParseWebhook, Collect,
            Respond
  <2>2. ~Finish(r)
    BY Zenon DEF TInv, RequestOK, Finish, Goto
  <2>3. /\ ~Recent(entries[specificKey(hook[r].id, hook[r])], SpecificWindow)
        /\ ~Recent(traktScrobbles[traktKey(user[r], hook[r])], TraktWindow)
    BY <2>1, <2>2, Zenon DEF ShouldProcess
  <2> QED BY <2>3, Blocks, Zenon
<1>2. Init => Remembers
  BY Zenon DEF Init, Remembers
<1> QED BY <1>1, <1>2, RemembersStep, TInvHolds, PTL DEF Spec, NoRapidRepeat

-----------------------------------------------------------------------------
(* The record of what Trakt was told *)

\* One request is inside the lock of a player and item.
OneHolder ==
    \A q, r \in Requests :
        pc[q] \in Inside /\ pc[r] \in Inside /\ lockKey(hook[q]) = lockKey(hook[r]) => q = r

\* What a request that is about to write has told Trakt, unless something else has
\* been accepted since.
Records ==
    \A r \in Requests : pc[r] = "write" =>
        heard[lockKey(hook[r])] \in {EmptyBody, [server |-> hook[r].server, last |-> msg[r]]}

\* Handle does not send what getAction has no action for.
Speaks == \A r \in Requests : pc[r] = "send" => msg[r].action # ""

Writing(i) == \E r \in Requests : pc[r] = "write" /\ lockKey(hook[r]) = i

\* RecordIsCurrent and NoRepeat, for the store that keeps bodies.
Current == \A i \in Items : heard[i] # EmptyBody /\ ~Writing(i) => body[i] = heard[i]
Unheard(r) ==
    LET told == heard[lockKey(hook[r])] IN
    told.server = hook[r].server => told.last.action # "stop" /\ told.last # msg[r]
NoneHeard == \A r \in Requests : pc[r] = "send" => Unheard(r)

RInv == OneHolder /\ Records /\ Speaks /\ Current /\ NoneHeard

\* A step that makes the handler forget, or leaves alone, what it knows of each item.
Forgets ==
    \A i \in Items : heard'[i] = EmptyBody \/ (heard'[i] = heard[i] /\ body'[i] = body[i])

LEMMA EmptyFacts == EmptyBody.last.action = ""
BY DEF EmptyBody, Nothing

LEMMA ItemTypes ==
    ASSUME TInv
    PROVE  \A r \in Requests : pc[r] # "idle" => hook[r] \in Hooks /\ lockKey(hook[r]) \in Items
BY Zenon DEF TInv, RequestOK, Items

\* Steps of the drains, of the clock and of the broadcasts: no request moves.
LEMMA QuietRInv ==
    ASSUME TInv, RInv, UNCHANGED requestVars, Forgets
    PROVE  RInv'
<1> USE DEF RInv
<1>0. pc' = pc /\ hook' = hook /\ msg' = msg
  BY Zenon DEF requestVars
<1>1. OneHolder' /\ Speaks'
  BY <1>0, Zenon DEF OneHolder, Speaks
<1>2. Records'
  BY <1>0, ItemTypes, Zenon DEF Records, Forgets
<1>3. Current'
  BY <1>0, Zenon DEF Current, Writing, Forgets
<1>4. NoneHeard'
  <2> SUFFICES ASSUME NEW r \in Requests, pc[r] = "send" PROVE Unheard(r)'
    BY <1>0, Zenon DEF NoneHeard
  <2>1. lockKey(hook[r]) \in Items /\ Unheard(r) /\ msg[r].action # ""
    BY ItemTypes, Zenon DEF NoneHeard, Speaks
  <2>2. CASE heard'[lockKey(hook[r])] = EmptyBody
    BY <1>0, <2>1, <2>2, EmptyFacts, Zenon DEF Unheard
  <2>3. CASE heard'[lockKey(hook[r])] = heard[lockKey(hook[r])]
    BY <1>0, <2>1, <2>3, Zenon DEF Unheard
  <2> QED BY <2>1, <2>2, <2>3, Zenon DEF Forgets
<1> QED BY <1>1, <1>2, <1>3, <1>4, Zenon

\* A request enters a lock that nobody holds, and is inside it until it is answered.
LEMMA HolderStep ==
    ASSUME TInv, OneHolder, NEW r \in Requests, RequestAction(r)
    PROVE  OneHolder'
<1>1. \/ pc'[r] \notin Inside
      \/ pc[r] \in Inside /\ hook' = hook
      \/ hook' = hook /\ \A q \in Requests : ~Holds(q, lockKey(hook[r]))
  <2>1. pc \in [Requests -> PCs]
    BY Zenon DEF TInv, RequestOK
  <2> QED BY <2>1, Zenon DEF RequestAction, HandleStep, Arrive, LookupUser, ShouldProcess, Lock,
          Decide, SendAccepted, SendTransient, SendRefused, Write, ListMembers, ParseWebhook, Collect,
          Respond, Finish, Goto, Inside
<1>2. \A q \in Requests \ {r} : pc'[q] = pc[q] /\ hook'[q] = hook[q]
  BY OthersStay, Zenon
<1> QED BY <1>1, <1>2, ZenonT(60) DEF OneHolder, Holds, Inside

\* A request moves on outside the send and the write.
LEMMA MoveRInv ==
    ASSUME TInv, RInv, NEW r \in Requests, RequestAction(r), Forgets,
           pc[r] # "write", pc'[r] \notin {"send", "write"}
    PROVE  RInv'
<1> USE DEF RInv
<1>0. \A q \in Requests \ {r} : pc'[q] = pc[q] /\ hook'[q] = hook[q] /\ msg'[q] = msg[q]
  BY OthersStay, Zenon
<1>1. OneHolder'
  BY HolderStep, Zenon
<1>2. Speaks'
  BY <1>0, Zenon DEF Speaks
<1>3. Records'
  BY <1>0, ItemTypes, ZenonT(60) DEF Records, Forgets
<1>4. Current'
  <2>1. \A i : Writing(i)' <=> Writing(i)
    BY <1>0, Zenon DEF Writing
  <2> QED BY <2>1, Zenon DEF Current, Forgets
<1>5. NoneHeard'
  <2> SUFFICES ASSUME NEW q \in Requests, pc'[q] = "send" PROVE Unheard(q)'
    BY Zenon DEF NoneHeard
  <2>0. pc[q] = "send" /\ hook'[q] = hook[q] /\ msg'[q] = msg[q]
    BY <1>0, Zenon
  <2>1. lockKey(hook[q]) \in Items /\ Unheard(q) /\ msg[q].action # ""
    BY <2>0, ItemTypes, Zenon DEF NoneHeard, Speaks
  <2>2. CASE heard'[lockKey(hook[q])] = EmptyBody
    BY <2>0, <2>1, <2>2, EmptyFacts, Zenon DEF Unheard
  <2>3. CASE heard'[lockKey(hook[q])] = heard[lockKey(hook[q])]
    BY <2>0, <2>1, <2>3, Zenon DEF Unheard
  <2> QED BY <2>1, <2>2, <2>3, Zenon DEF Forgets
<1> QED BY <1>1, <1>2, <1>3, <1>4, <1>5, Zenon

\* Handle decides to send: what is on record is what Trakt has heard.
LEMMA DecideRInv ==
    ASSUME TInv, RInv, NEW r \in Requests, Decide(r), ~Finish(r)
    PROVE  RInv'
<1> USE DEF RInv
<1> DEFINE h == hook[r]
           b == body[lockKey(h)]
<1>0. /\ pc[r] = "handle" /\ Goto(r, "send") /\ hook' = hook /\ ~Ignores(h, b)
      /\ msg' = [msg EXCEPT ![r] = getAction(h, b)] /\ UNCHANGED bodyVars
  BY Zenon DEF Decide
<1>1. /\ pc'[r] = "send" /\ msg'[r] = getAction(h, b) /\ body' = body /\ heard' = heard
      /\ \A q \in Requests \ {r} : pc'[q] = pc[q] /\ msg'[q] = msg[q]
  BY <1>0, Zenon DEF Goto, bodyVars, TInv, RequestOK
<1>2. OneHolder'
  BY HolderStep, Zenon DEF RequestAction, HandleStep
<1>3. getAction(h, b).action # "" /\ ~Repeats(h, getAction(h, b), b)
  BY <1>0, Zenon DEF Ignores
<1>4. Speaks'
  BY <1>1, <1>3, Zenon DEF Speaks
<1>5. Records' /\ Current'
  <2>1. \A i : Writing(i)' <=> Writing(i)
    BY <1>0, <1>1, Zenon DEF Writing
  <2> QED BY <1>0, <1>1, <2>1, Zenon DEF Records, Current
<1>6. Unheard(r)'
  <2>1. lockKey(h) \in Items
    BY <1>0, ItemTypes, Zenon
  <2>2. ~Writing(lockKey(h))
    BY <1>0, Zenon DEF Writing, OneHolder, Inside
  <2>3. CASE heard[lockKey(h)] = EmptyBody
    BY <1>0, <1>1, <1>3, <2>3, EmptyFacts, Zenon DEF Unheard
  <2>4. CASE b = heard[lockKey(h)]
    BY <1>0, <1>1, <1>3, <2>4, Zenon DEF Unheard, Repeats
  <2> QED BY <2>1, <2>2, <2>3, <2>4, Zenon DEF Current
<1>7. NoneHeard'
  BY <1>0, <1>1, <1>6, ZenonT(60) DEF NoneHeard, Unheard
<1> QED BY <1>2, <1>4, <1>5, <1>7, Zenon

\* Trakt accepts, and the request goes on to record it.
LEMMA AcceptRInv ==
    ASSUME TInv, RInv, NEW r \in Requests, SendAccepted(r), ~Finish(r)
    PROVE  RInv'
<1> USE DEF RInv
<1> DEFINE i == lockKey(hook[r])
           told == [server |-> hook[r].server, last |-> msg[r]]
<1>0. /\ pc[r] = "send" /\ Goto(r, "write") /\ hook' = hook /\ msg' = msg /\ body' = body
      /\ heard' = [heard EXCEPT ![i] = told]
  BY Zenon DEF SendAccepted
<1>1. /\ pc'[r] = "write" /\ heard'[i] = told /\ i \in Items
      /\ \A q \in Requests \ {r} : pc'[q] = pc[q]
      /\ \A j \in Items \ {i} : heard'[j] = heard[j]
  BY <1>0, ItemTypes, Zenon DEF Goto, TInv, RequestOK, BodyOK
<1>2. OneHolder'
  BY HolderStep, Zenon DEF RequestAction, HandleStep
<1>3. \A q \in Requests \ {r} : pc[q] \in Inside => lockKey(hook[q]) \in Items \ {i}
  BY <1>0, ItemTypes, Zenon DEF OneHolder, Inside
<1>4. Speaks'
  BY <1>0, <1>1, Zenon DEF Speaks
<1>5. Records'
  <2> SUFFICES ASSUME NEW q \in Requests, pc'[q] = "write"
               PROVE  heard'[lockKey(hook[q])]
                        \in {EmptyBody, [server |-> hook[q].server, last |-> msg[q]]}
    BY <1>0, Zenon DEF Records
  <2>1. CASE q = r
    BY <1>1, <2>1, Zenon
  <2>2. CASE q # r
    BY <1>1, <1>3, <2>2, ZenonT(60) DEF Records, Inside
  <2> QED BY <2>1, <2>2, Zenon
<1>6. Current'
  <2>1. Writing(i)'
    BY <1>0, <1>1, Zenon DEF Writing
  <2>2. \A j \in Items \ {i} : Writing(j)' <=> Writing(j)
    BY <1>0, <1>1, Zenon DEF Writing
  <2> QED BY <1>0, <1>1, <2>1, <2>2, Zenon DEF Current
<1>7. NoneHeard'
  BY <1>0, <1>1, <1>3, ZenonT(60) DEF NoneHeard, Unheard, Inside
<1> QED BY <1>2, <1>4, <1>5, <1>6, <1>7, Zenon

\* The request records what Trakt accepted, if it still is what Trakt has heard.
LEMMA WriteRInv ==
    ASSUME TInv, RInv, KeepsBodies, NEW r \in Requests, Write(r)
    PROVE  RInv'
<1> USE DEF RInv
<1> DEFINE i == lockKey(hook[r])
           told == [server |-> hook[r].server, last |-> msg[r]]
<1>0. /\ pc[r] = "write" /\ Finish(r) /\ heard' = heard /\ body' = [body EXCEPT ![i] = told]
  BY Zenon DEF Write, WriteScrobbleBody
<1>1. /\ pc'[r] = "idle" /\ body'[i] = told /\ i \in Items
      /\ \A q \in Requests \ {r} : pc'[q] = pc[q] /\ hook'[q] = hook[q] /\ msg'[q] = msg[q]
      /\ \A j \in Items \ {i} : body'[j] = body[j]
  BY <1>0, ItemTypes, Zenon DEF Finish, Goto, TInv, RequestOK, BodyOK
<1>2. OneHolder'
  BY HolderStep, Zenon DEF RequestAction, HandleStep
<1>3. Speaks' /\ Records'
  BY <1>0, <1>1, Zenon DEF Speaks, Records
<1>4. Current'
  <2>1. heard[i] = EmptyBody \/ heard[i] = told
    BY <1>0, Zenon DEF Records
  <2>2. \A j \in Items \ {i} : Writing(j)' <=> Writing(j)
    BY <1>0, <1>1, Zenon DEF Writing
  <2> QED BY <1>0, <1>1, <2>1, <2>2, Zenon DEF Current
<1>5. NoneHeard'
  BY <1>0, <1>1, Zenon DEF NoneHeard, Unheard
<1> QED BY <1>2, <1>3, <1>4, <1>5, Zenon

LEMMA NextRInv == TInv /\ RInv /\ KeepsBodies /\ [Next]_vars => RInv'
<1> SUFFICES ASSUME TInv, RInv, KeepsBodies, [Next]_vars PROVE RInv'
  BY Zenon
<1>t. heard \in [Items -> Bodies] /\ body \in [Items -> Bodies] /\ pc \in [Requests -> PCs]
  BY Zenon DEF TInv, BodyOK, RequestOK
<1>s. UNCHANGED bodyVars => Forgets
  BY Zenon DEF bodyVars, Forgets
<1>f. ASSUME NEW i, Forget(i), body' = body PROVE Forgets
  BY <1>f, <1>t, Zenon DEF Forget, Forgets
<1>1. ASSUME NEW i \in Items, Expire(i) PROVE RInv'
  <2>1. Forgets
    BY <1>1, <1>t, Zenon DEF Expire, Forget, Forgets
  <2> QED BY <1>1, <2>1, QuietRInv, Zenon DEF Expire
<1>2. ASSUME NEW e \in queue, DrainSend(e) PROVE RInv'
  <2>1. Forgets
    BY <1>2, <1>s, <1>f, Zenon DEF DrainSend, bodyVars
  <2> QED BY <1>2, <2>1, QuietRInv, Zenon DEF DrainSend
<1>3. CASE DrainWrite
  <2>1. Forgets
    BY <1>3, <1>s, <1>t, Zenon DEF DrainWrite, WriteScrobbleBody, Forget, Forgets
  <2> QED BY <1>3, <2>1, QuietRInv, Zenon DEF DrainWrite
<1>4. ASSUME NEW r \in Requests, SendAccepted(r) \/ SendTransient(r) \/ Write(r) PROVE RInv'
  <2>1. CASE Finish(r) /\ ~Write(r)
    <3>1. Forgets
      BY <1>4, <1>s, <1>f, <2>1, <1>t, Zenon DEF SendAccepted, SendTransient, Goto, Finish, bodyVars
    <3>2. pc[r] # "write" /\ pc'[r] = "idle" /\ RequestAction(r)
      BY <1>4, <1>t, <2>1, Zenon DEF SendAccepted, SendTransient, Finish, Goto, RequestAction, HandleStep
    <3> QED BY <3>1, <3>2, MoveRInv, Zenon
  <2>2. CASE SendAccepted(r) /\ ~Finish(r)
    BY <2>2, AcceptRInv, Zenon
  <2>3. CASE Write(r)
    BY <2>3, WriteRInv, Zenon
  <2> QED BY <1>4, <2>1, <2>2, <2>3, Zenon DEF SendTransient
<1>5. CASE UNCHANGED bodyVars
  <2>1. CASE UNCHANGED requestVars
    BY <1>5, <1>s, <2>1, QuietRInv, Zenon
  <2>2. ASSUME NEW r \in Requests, RequestAction(r) PROVE RInv'
    <3>1. CASE Decide(r) /\ ~Finish(r)
      BY <3>1, DecideRInv, Zenon
    <3>2. CASE SendAccepted(r) \/ SendTransient(r) \/ Write(r)
      BY <3>2, <1>4, Zenon
    <3>3. CASE ~(Decide(r) /\ ~Finish(r)) /\ ~(SendAccepted(r) \/ SendTransient(r) \/ Write(r))
      <4>1. pc[r] # "write" /\ pc'[r] \notin {"send", "write"}
        BY <1>t, <2>2, <3>3, Zenon DEF RequestAction, HandleStep, Arrive, LookupUser, ShouldProcess,
           Lock, Decide, SendRefused, ListMembers, ParseWebhook, Collect, Respond, Finish, Goto
      <4> QED BY <1>5, <1>s, <2>2, <4>1, MoveRInv, Zenon
    <3> QED BY <3>1, <3>2, <3>3, Zenon
  <2> QED BY <2>1, <2>2, RequestUsers, Zenon
<1> QED BY <1>1, <1>2, <1>3, <1>4, <1>5, BodyUsers, Zenon

LEMMA RInvHolds ==
    ASSUME KeepsBodies
    PROVE  Spec => []RInv
<1>1. Init => RInv
  BY Zenon DEF Init, RInv, OneHolder, Records, Speaks, Current, NoneHeard, Inside
<1>2. TInv /\ RInv /\ [Next]_vars => RInv'
  BY NextRInv, Zenon
<1> QED BY <1>1, <1>2, TInvHolds, PTL DEF Spec

\* With Redis, an item that nobody is recording has on record what Trakt last
\* accepted of it, although drains write the record without Handle's lock.
THEOREM RecordHolds == Spec => []RecordIsCurrent
<1>1. RInv => RecordIsCurrent
  BY Zenon DEF RInv, Current, Writing, RecordIsCurrent, Holds
<1>2. CASE KeepsBodies
  BY <1>1, <1>2, RInvHolds, PTL
<1>3. CASE ~KeepsBodies
  <2>1. RecordIsCurrent
    BY <1>3, Zenon DEF RecordIsCurrent
  <2> QED BY <2>1, PTL
<1> QED BY <1>2, <1>3, Zenon

\* With Redis, Handle never sends what Trakt has heard from it, for any webhooks and
\* any number of concurrent requests and drains.
THEOREM NoRepeatHolds == Spec => []NoRepeat
<1>1. RInv => NoRepeat
  BY Zenon DEF RInv, NoneHeard, Unheard, NoRepeat
<1>2. CASE KeepsBodies
  BY <1>1, <1>2, RInvHolds, PTL
<1>3. CASE ~KeepsBodies
  <2>1. NoRepeat
    BY <1>3, Zenon DEF NoRepeat
  <2> QED BY <2>1, PTL
<1> QED BY <1>2, <1>3, Zenon
=============================================================================
