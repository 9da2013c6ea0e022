------------------------- MODULE OfflineQueueProofs -------------------------
(***************************************************************************)
(* Proofs about OfflineQueue, for any number of handlers and drains, any   *)
(* limit, batch size and number of attempts, on each of the stores.        *)
(*                                                                         *)
(* TInv strengthens the type invariant to an inductive one: an event is    *)
(* known wherever a call is under way.  BoundedOverrun is inductive with   *)
(* TInv.  NothingLost is not: LInv adds why a drain may delete (Reasons)   *)
(* and, on disk, which files can be torn (Files).  On PostgreSQL a row     *)
(* that is gone stays away because every event is inserted once (Once),    *)
(* and Trakt's acceptances of an event are counted against the drains that *)
(* are past it (Counted, with Rows).                                       *)
(***************************************************************************)
EXTENDS OfflineQueue, FiniteSetTheorems, TLAPS

\* Events that have been created.
Begun == {f \in Events : created[f] # NoTime}

\* The type invariant in the parts that the actions change together, with what
\* they need: the queue is finite, and whoever is in the middle of a call knows
\* the event the call is about.
StoreOK ==
    /\ backend \in Backends
    /\ queue \subseteq Member
    /\ IsFiniteSet(queue)
    /\ created \in [Events -> [sec: 0..MaxClock, seq: Nat]]
    /\ IsFiniteSet(Begun)
    /\ user \in BOOLEAN
    /\ tracker \in BOOLEAN

HandlerOK ==
    /\ epc \in [Enqueuers -> {"idle", "check", "evict", "victim", "insert", "write"}]
    /\ eev \in [Enqueuers -> Events \cup {None}]
    /\ victim \in [Enqueuers -> Events \cup {None}]
    /\ \A w \in Enqueuers : epc[w] # "idle" => eev[w] \in Events
    /\ \A w \in Enqueuers : epc[w] = "victim" => victim[w] \in Events

Busy == {"send", "update", "rewrite", "readd", "delete", "remove"}

DrainOK ==
    /\ dpc \in [Drains -> {"new", "dequeue", "next", "done"} \cup Busy]
    /\ batch \in [Drains -> SUBSET Member]
    /\ cur \in [Drains -> Events \cup {None}]
    /\ attempt \in [Drains -> 0..MaxAttempts]
    /\ held \in [Drains -> Member \cup {NoMember}]
    /\ \A d \in Drains : dpc[d] \in Busy => cur[d] \in Events
    /\ \A d \in Drains : dpc[d] \in {"rewrite", "readd"} => backend # "postgres"

HistoryOK ==
    /\ acked \subseteq Events
    /\ sends \in [Events -> 0..MaxSends]
    /\ excused \subseteq Events
    /\ ignored \subseteq Events

BoundsOK ==
    /\ slips \in Nat
    /\ clock \in 1..MaxClock
    /\ crashes \in 0..MaxCrashes
    /\ faults \in 0..MaxFaults

TInv == StoreOK /\ HandlerOK /\ DrainOK /\ HistoryOK /\ BoundsOK

-----------------------------------------------------------------------------
\* A deployment keeps its store.
LEMMA StoreFixed == [Next]_vars => backend' = backend
<1>1. ASSUME NEW w \in Enqueuers, Enqueue(w) PROVE backend' = backend
  BY <1>1, Zenon DEF Enqueue, Begin, CheckSize, PopOldest, ChooseVictim, DeleteVictim, CapacityFault,
              InsertRow, AddMember, CreateFile, WriteFile, store
<1>2. ASSUME NEW d \in Drains, Drain(d) PROVE backend' = backend
  BY <1>2, Zenon DEF Drain, StartDrain, Dequeue, DequeueFault, NextEvent, SendAccepted, SendTransient,
              SendPermanent, FindForUpdate, Rewrite, Readd, FindForDelete, Delete, StoreFault,
              WriteFault, store
<1>3. DeleteUser \/ Tick \/ Crash => backend' = backend
  BY Zenon DEF DeleteUser, Tick, Crash, store
<1>4. UNCHANGED vars => backend' = backend
  BY Zenon DEF vars, store
<1> QED BY <1>1, <1>2, <1>3, <1>4, Zenon DEF Next

\* What stays the same stays well-typed.
LEMMA Same ==
    ASSUME TInv, backend' = backend
    PROVE  /\ UNCHANGED store => StoreOK'
           /\ UNCHANGED handler => HandlerOK'
           /\ UNCHANGED drain => DrainOK'
           /\ UNCHANGED history => HistoryOK'
           /\ UNCHANGED bounds => BoundsOK'
<1>1. UNCHANGED store => StoreOK'
  BY Zenon DEF TInv, StoreOK, store, Begun
<1>2. UNCHANGED handler => HandlerOK'
  BY Zenon DEF TInv, HandlerOK, handler
<1>3. UNCHANGED drain => DrainOK'
  BY Zenon DEF TInv, DrainOK, drain
<1>4. UNCHANGED history => HistoryOK'
  BY Zenon DEF TInv, HistoryOK, history
<1>5. UNCHANGED bounds => BoundsOK'
  BY Zenon DEF TInv, BoundsOK, bounds
<1> QED BY <1>1, <1>2, <1>3, <1>4, <1>5, Zenon

\* A change of the queue alone.
LEMMA QueueChange ==
    ASSUME TInv, UNCHANGED <<backend, created, user, tracker>>,
           queue' \subseteq Member, IsFiniteSet(queue')
    PROVE  StoreOK'
BY Zenon DEF TInv, StoreOK, Begun

\* The members the stores write are members.
LEMMA MemberTypes ==
    ASSUME TInv
    PROVE  /\ \A e \in Events : Fresh(e) \in Member /\ Torn(e) \in Member
           /\ \A d \in Drains : cur[d] \in Events => NewText(d) \in Member
           /\ \A m \in Member : m.id \in Events
BY QueueAssumption DEF TInv, DrainOK, Member, Fresh, Torn, NewText

\* TInv holds initially and is preserved by every step.
LEMMA InitTInv == Init => TInv
<1> SUFFICES ASSUME Init PROVE TInv
  BY Zenon
<1> USE QueueAssumption DEF Init
<1>1. Begun = {}
  BY Zenon DEF Begun
<1>2. NoTime \in [sec: 0..MaxClock, seq: Nat]
  BY DEF NoTime
<1>3. StoreOK
  BY <1>1, <1>2, FS_EmptySet, Zenon DEF StoreOK
<1>4. HandlerOK
  BY Zenon DEF HandlerOK
<1>5. DrainOK
  BY DEF DrainOK, Busy
<1>6. HistoryOK
  BY DEF HistoryOK
<1>7. BoundsOK
  BY DEF BoundsOK
<1> QED BY <1>3, <1>4, <1>5, <1>6, <1>7, Zenon DEF TInv

\* The steps of EnqueueScrobble.
LEMMA EnqueueTInv ==
    ASSUME TInv, backend' = backend, NEW w \in Enqueuers, Enqueue(w)
    PROVE  TInv'
<1> USE QueueAssumption
<1>t. queue \subseteq Member /\ IsFiniteSet(queue) /\ \A e \in Events : IsFiniteSet({e})
  BY FS_Singleton, Zenon DEF TInv, StoreOK
<1>1. CASE \E e \in Events : Begin(w, e)
  <2> PICK e \in Events : Begin(w, e)
    BY <1>1, Zenon
  <2>1. created' \in [Events -> [sec: 0..MaxClock, seq: Nat]]
    <3>1. Cardinality(Begun) \in Nat
      BY FS_CardinalityType, Zenon DEF TInv, StoreOK
    <3>2. [sec |-> clock, seq |-> 1 + Cardinality(Begun)] \in [sec: 0..MaxClock, seq: Nat]
      BY <3>1 DEF TInv, BoundsOK
    <3> QED BY <3>2, Zenon DEF Begin, Begun, TInv, StoreOK
  <2>2. Begun' \subseteq Begun \cup {e}
    BY Zenon DEF Begin, Begun, TInv, StoreOK
  <2>3. IsFiniteSet(Begun')
    BY <2>2, FS_Subset, FS_AddElement, Zenon DEF TInv, StoreOK
  <2>4. StoreOK'
    BY <2>1, <2>3, Zenon DEF Begin, TInv, StoreOK
  <2>5. HandlerOK'
    BY Zenon DEF Begin, TInv, HandlerOK
  <2> QED BY <2>4, <2>5, Same, Zenon DEF Begin, TInv
<1>2. CASE CheckSize(w)
  <2>1. HandlerOK'
    BY <1>2, Zenon DEF CheckSize, TInv, HandlerOK
  <2> QED BY <1>2, <2>1, Same, Zenon DEF CheckSize, TInv
<1>3. CASE PopOldest(w)
  <2>1. PICK S \in SUBSET queue : queue' = queue \ S /\ excused' = excused \cup {m.id : m \in S}
    BY <1>3, Zenon DEF PopOldest
  <2>2. StoreOK'
    BY <1>3, <2>1, <1>t, FS_Subset, QueueChange, Zenon DEF PopOldest
  <2>3. HandlerOK'
    BY <1>3, Zenon DEF PopOldest, TInv, HandlerOK
  <2>4. HistoryOK'
    BY <1>3, <2>1, <1>t, MemberTypes, Zenon DEF PopOldest, TInv, HistoryOK
  <2> QED BY <1>3, <2>2, <2>3, <2>4, Same, Zenon DEF PopOldest, TInv
<1>4. CASE ChooseVictim(w)
  <2>1. HandlerOK'
    BY <1>4, <1>t, MemberTypes, ZenonT(60) DEF ChooseVictim, TInv, HandlerOK
  <2>2. BoundsOK'
    BY <1>4 DEF ChooseVictim, TInv, BoundsOK
  <2> QED BY <1>4, <2>1, <2>2, Same, Zenon DEF ChooseVictim, TInv
<1>5. CASE DeleteVictim(w)
  <2>1. victim[w] \in Events
    BY <1>5, Zenon DEF DeleteVictim, TInv, HandlerOK
  <2>2. StoreOK'
    BY <1>5, <1>t, FS_Subset, QueueChange, Zenon DEF DeleteVictim
  <2>3. HandlerOK'
    BY <1>5, Zenon DEF DeleteVictim, TInv, HandlerOK
  <2>4. HistoryOK'
    BY <1>5, <2>1, Zenon DEF DeleteVictim, TInv, HistoryOK
  <2>5. BoundsOK'
    BY <1>5 DEF DeleteVictim, TInv, BoundsOK
  <2> QED BY <1>5, <2>2, <2>3, <2>4, <2>5, Same, Zenon DEF DeleteVictim, TInv
<1>6. CASE CapacityFault(w)
  <2>1. HandlerOK'
    BY <1>6, Zenon DEF CapacityFault, TInv, HandlerOK
  <2>2. BoundsOK'
    BY <1>6 DEF CapacityFault, TInv, BoundsOK
  <2> QED BY <1>6, <2>1, <2>2, Same, Zenon DEF CapacityFault, TInv
<1>7. ASSUME epc[w] \in {"insert", "write"}, Return(w), victim' = victim PROVE HandlerOK'
  BY <1>7, Zenon DEF Return, TInv, HandlerOK
<1>8. ASSUME epc[w] \in {"insert", "write"} PROVE eev[w] \in Events
  BY <1>8, Zenon DEF TInv, HandlerOK
<1>9. CASE InsertRow(w)
  <2>1. queue' = queue \/ queue' = queue \cup {Fresh(eev[w])}
    BY <1>9, Zenon DEF InsertRow
  <2>2. eev[w] \in Events /\ Fresh(eev[w]) \in Member
    BY <1>8, <1>9, MemberTypes, Zenon DEF InsertRow
  <2>3. StoreOK'
    BY <1>9, <2>1, <2>2, <1>t, FS_AddElement, QueueChange, Zenon DEF InsertRow
  <2>4. HandlerOK'
    BY <1>7, <1>9, Zenon DEF InsertRow
  <2>5. HistoryOK'
    BY <1>9, <2>2, Zenon DEF InsertRow, TInv, HistoryOK
  <2> QED BY <1>9, <2>3, <2>4, <2>5, Same, Zenon DEF InsertRow, TInv
<1>10. CASE AddMember(w)
  <2>2. eev[w] \in Events /\ Fresh(eev[w]) \in Member
    BY <1>8, <1>10, MemberTypes, Zenon DEF AddMember
  <2>3. StoreOK'
    BY <1>10, <2>2, <1>t, FS_AddElement, QueueChange, Zenon DEF AddMember
  <2>4. HandlerOK'
    BY <1>7, <1>10, Zenon DEF AddMember
  <2>5. HistoryOK'
    BY <1>10, <2>2, Zenon DEF AddMember, TInv, HistoryOK
  <2> QED BY <1>10, <2>3, <2>4, <2>5, Same, Zenon DEF AddMember, TInv
<1>11. CASE CreateFile(w)
  <2>2. Torn(eev[w]) \in Member
    BY <1>8, <1>11, MemberTypes, Zenon DEF CreateFile
  <2>3. StoreOK'
    BY <1>11, <2>2, <1>t, FS_AddElement, QueueChange, Zenon DEF CreateFile
  <2>4. HandlerOK'
    BY <1>11, Zenon DEF CreateFile, TInv, HandlerOK
  <2> QED BY <1>11, <2>3, <2>4, Same, Zenon DEF CreateFile, TInv
<1>12. CASE WriteFile(w)
  <2>1. eev[w] \in Events /\ Fresh(eev[w]) \in Member
    BY <1>8, <1>12, MemberTypes, Zenon DEF WriteFile
  <2>2. IsFiniteSet(queue') /\ queue' \subseteq Member
    <3>1. IsFiniteSet(queue \ {Torn(eev[w])})
      BY <1>t, FS_Subset, Zenon
    <3>2. IsFiniteSet((queue \ {Torn(eev[w])}) \cup {Fresh(eev[w])})
      BY <3>1, FS_AddElement, Zenon
    <3> QED BY <1>12, <1>t, <2>1, <3>2, Zenon DEF WriteFile, Fill
  <2>3. StoreOK'
    BY <1>12, <2>2, QueueChange, Zenon DEF WriteFile
  <2>4. HandlerOK'
    BY <1>7, <1>12, Zenon DEF WriteFile
  <2>5. HistoryOK'
    BY <1>12, <2>1, Zenon DEF WriteFile, TInv, HistoryOK
  <2> QED BY <1>12, <2>3, <2>4, <2>5, Same, Zenon DEF WriteFile, TInv
<1> QED BY <1>1, <1>2, <1>3, <1>4, <1>5, <1>6, <1>9, <1>10, <1>11, <1>12, Zenon DEF Enqueue

\* The steps of a drain.
LEMMA DrainTInv ==
    ASSUME TInv, backend' = backend, NEW d \in Drains, Drain(d)
    PROVE  TInv'
<1> USE QueueAssumption DEF Busy
<1>t. queue \subseteq Member /\ IsFiniteSet(queue)
  BY Zenon DEF TInv, StoreOK
<1>1. CASE StartDrain(d)
  <2>1. StoreOK'
    BY <1>1, Zenon DEF StartDrain, TInv, StoreOK, Begun
  <2>2. DrainOK'
    BY <1>1, Zenon DEF StartDrain, TInv, DrainOK
  <2> QED BY <1>1, <2>1, <2>2, Same, Zenon DEF StartDrain, TInv
<1>2. CASE Dequeue(d)
  <2>1. StoreOK'
    <3>1. tracker' \in BOOLEAN
      BY <1>2, Zenon DEF Dequeue, TInv, StoreOK
    <3> QED BY <1>2, <3>1, Zenon DEF Dequeue, TInv, StoreOK, Begun
  <2>2. DrainOK'
    BY <1>2, <1>t DEF Dequeue, TInv, DrainOK
  <2> QED BY <1>2, <2>1, <2>2, Same, Zenon DEF Dequeue, TInv
<1>3. CASE DequeueFault(d)
  <2>1. StoreOK'
    BY <1>3, Zenon DEF DequeueFault, TInv, StoreOK, Begun
  <2>2. DrainOK'
    BY <1>3, Zenon DEF DequeueFault, TInv, DrainOK
  <2>3. BoundsOK'
    BY <1>3 DEF DequeueFault, TInv, BoundsOK
  <2> QED BY <1>3, <2>1, <2>2, <2>3, Same, Zenon DEF DequeueFault, TInv
<1>4. CASE NextEvent(d)
  <2>1. DrainOK'
    BY <1>4, MemberTypes DEF NextEvent, TInv, DrainOK
  <2> QED BY <1>4, <2>1, Same, Zenon DEF NextEvent, TInv
<1>5. ASSUME dpc[d] = "send" PROVE cur[d] \in Events
  BY <1>5, Zenon DEF TInv, DrainOK
<1>6. CASE SendAccepted(d)
  <2>1. DrainOK'
    BY <1>6 DEF SendAccepted, TInv, DrainOK
  <2>2. HistoryOK'
    <3>1. sends \in [Events -> 0..MaxSends] /\ cur[d] \in Events /\ sends[cur[d]] < MaxSends
      BY <1>6, <1>5, Zenon DEF SendAccepted, TInv, HistoryOK
    <3>2. sends[cur[d]] + 1 \in 0..MaxSends
      <4>1. sends[cur[d]] \in 0..MaxSends /\ MaxSends \in Nat
        BY <3>1, Zenon
      <4> QED BY <3>1, <4>1
    <3>3. sends' = [sends EXCEPT ![cur[d]] = sends[cur[d]] + 1]
      BY <1>6, Zenon DEF SendAccepted
    <3> QED BY <1>6, <3>1, <3>2, <3>3, Zenon DEF SendAccepted, TInv, HistoryOK
  <2> QED BY <1>6, <2>1, <2>2, Same, Zenon DEF SendAccepted, TInv
<1>7. CASE SendTransient(d)
  <2>1. DrainOK'
    BY <1>7 DEF SendTransient, TInv, DrainOK
  <2>2. HistoryOK'
    BY <1>7, <1>5, Zenon DEF SendTransient, TInv, HistoryOK
  <2> QED BY <1>7, <2>1, <2>2, Same, Zenon DEF SendTransient, TInv
<1>8. CASE SendPermanent(d)
  <2>1. DrainOK'
    BY <1>8 DEF SendPermanent, TInv, DrainOK
  <2>2. HistoryOK'
    BY <1>8, <1>5, Zenon DEF SendPermanent, TInv, HistoryOK
  <2> QED BY <1>8, <2>1, <2>2, Same, Zenon DEF SendPermanent, TInv
<1>9. CASE FindForUpdate(d)
  <2>1. DrainOK'
    BY <1>9, <1>t, ZenonT(60) DEF FindForUpdate, MembersOf, TInv, DrainOK
  <2> QED BY <1>9, <2>1, Same, Zenon DEF FindForUpdate, TInv
<1>10. CASE Rewrite(d)
  <2>1. Torn(cur[d]) \in Member
    BY <1>10, MemberTypes, Zenon DEF Rewrite, TInv, DrainOK
  <2>2. IsFiniteSet(queue') /\ queue' \subseteq Member
    <3>1. IsFiniteSet(queue \ Target(d))
      BY <1>t, FS_Subset, Zenon
    <3>2. IsFiniteSet((queue \ Target(d)) \cup {Torn(cur[d])})
      BY <3>1, FS_AddElement, Zenon
    <3> QED BY <1>10, <1>t, <2>1, <3>1, <3>2, Zenon DEF Rewrite
  <2>3. StoreOK'
    BY <1>10, <2>2, QueueChange, Zenon DEF Rewrite
  <2>4. DrainOK'
    BY <1>10, Zenon DEF Rewrite, TInv, DrainOK
  <2>5. BoundsOK'
    BY <1>10 DEF Rewrite, TInv, BoundsOK
  <2> QED BY <1>10, <2>3, <2>4, <2>5, Same, Zenon DEF Rewrite, TInv
<1>11. CASE Readd(d)
  <2>1. Fresh(cur[d]) \in Member /\ NewText(d) \in Member
    BY <1>11, MemberTypes, Zenon DEF Readd, TInv, DrainOK
  <2>2. IsFiniteSet(queue') /\ queue' \subseteq Member
    <3>1. IsFiniteSet(queue \ {Torn(cur[d])})
      BY <1>t, FS_Subset, Zenon
    <3>2. IsFiniteSet((queue \ {Torn(cur[d])}) \cup {Fresh(cur[d])})
      BY <3>1, FS_AddElement, Zenon
    <3>3. IsFiniteSet(queue \cup {NewText(d)})
      BY <1>t, FS_AddElement, Zenon
    <3> QED BY <1>11, <1>t, <2>1, <3>2, <3>3, Zenon DEF Readd, Fill
  <2>3. StoreOK'
    BY <1>11, <2>2, QueueChange, Zenon DEF Readd
  <2>4. DrainOK'
    BY <1>11, Zenon DEF Readd, TInv, DrainOK
  <2> QED BY <1>11, <2>3, <2>4, Same, Zenon DEF Readd, TInv
<1>12. CASE FindForDelete(d)
  <2>1. DrainOK'
    BY <1>12, <1>t, ZenonT(60) DEF FindForDelete, MembersOf, TInv, DrainOK
  <2> QED BY <1>12, <2>1, Same, Zenon DEF FindForDelete, TInv
<1>13. CASE Delete(d)
  <2>1. queue' \subseteq queue
    BY <1>13, Zenon DEF Delete
  <2>2. StoreOK'
    BY <1>13, <1>t, <2>1, FS_Subset, QueueChange, Zenon DEF Delete
  <2>3. DrainOK'
    BY <1>13, Zenon DEF Delete, TInv, DrainOK
  <2> QED BY <1>13, <2>2, <2>3, Same, Zenon DEF Delete, TInv
<1>14. CASE StoreFault(d)
  <2>1. DrainOK'
    BY <1>14, Zenon DEF StoreFault, TInv, DrainOK
  <2>2. BoundsOK'
    BY <1>14 DEF StoreFault, TInv, BoundsOK
  <2> QED BY <1>14, <2>1, <2>2, Same, Zenon DEF StoreFault, TInv
<1>15. CASE WriteFault(d)
  <2>1. DrainOK'
    BY <1>15, Zenon DEF WriteFault, TInv, DrainOK
  <2>2. {m.id : m \in {k \in MembersOf(cur[d]) : k.text = "torn"}} \subseteq Events
    BY <1>t, MemberTypes, Zenon DEF MembersOf
  <2>3. HistoryOK'
    BY <1>15, <2>2, Zenon DEF WriteFault, TInv, HistoryOK
  <2>4. BoundsOK'
    BY <1>15 DEF WriteFault, TInv, BoundsOK
  <2> QED BY <1>15, <2>1, <2>3, <2>4, Same, Zenon DEF WriteFault, TInv
<1> QED BY <1>1, <1>2, <1>3, <1>4, <1>6, <1>7, <1>8, <1>9, <1>10, <1>11, <1>12, <1>13, <1>14, <1>15, Zenon
        DEF Drain

\* A drain that rewrites a member replaces it by a finite number of new ones.
LEMMA FiniteTexts ==
    ASSUME TInv, NEW S \in SUBSET Drains
    PROVE  /\ IsFiniteSet({NewText(d) : d \in S})
           /\ Cardinality({NewText(d) : d \in S}) <= Cardinality(S)
<1>1. IsFiniteSet(S)
  BY QueueAssumption, FS_Subset, Zenon
<1>2. [d \in S |-> NewText(d)] \in Surjection(S, {NewText(d) : d \in S})
  BY Zenon DEF Surjection
<1> QED BY <1>1, <1>2, FS_Surjection, Zenon

\* The steps of the environment.
LEMMA EnvironmentTInv ==
    ASSUME TInv, backend' = backend, DeleteUser \/ Tick \/ Crash
    PROVE  TInv'
<1> USE QueueAssumption
<1>t. queue \subseteq Member /\ IsFiniteSet(queue)
  BY Zenon DEF TInv, StoreOK
<1>1. CASE DeleteUser
  <2>1. queue' \subseteq queue /\ user' = FALSE /\ UNCHANGED <<created, tracker>>
    BY <1>1, Zenon DEF DeleteUser
  <2>2. IsFiniteSet(queue')
    BY <1>t, <2>1, FS_Subset, Zenon
  <2>3. StoreOK'
    BY <1>t, <2>1, <2>2, Zenon DEF TInv, StoreOK, Begun
  <2>4. HistoryOK'
    BY <1>1, <1>t, MemberTypes, ZenonT(60) DEF DeleteUser, TInv, HistoryOK
  <2> QED BY <1>1, <2>3, <2>4, Same, Zenon DEF DeleteUser, TInv
<1>2. CASE Tick
  <2>1. BoundsOK'
    BY <1>2 DEF Tick, TInv, BoundsOK
  <2> QED BY <1>2, <2>1, Same, Zenon DEF Tick, TInv
<1>3. CASE Crash
  <2> DEFINE new == {NewText(d) : d \in {c \in Drains : dpc[c] = "readd"}}
  <2>1. new \subseteq Member
    BY MemberTypes DEF TInv, DrainOK, Busy
  <2>2. IsFiniteSet(new)
    BY FiniteTexts, Zenon
  <2>3. IsFiniteSet(queue \cup new)
    BY <1>t, <2>2, FS_Union, Zenon
  <2>4. IsFiniteSet(queue') /\ queue' \subseteq Member /\ tracker' = FALSE /\ UNCHANGED <<created, user>>
    BY <1>3, <1>t, <2>1, <2>3, Zenon DEF Crash
  <2>5. StoreOK'
    BY <2>4, Zenon DEF TInv, StoreOK, Begun
  <2>6. HandlerOK'
    BY <1>3, Zenon DEF Crash, HandlerOK
  <2>7. DrainOK'
    BY <1>3 DEF Crash, Running, TInv, DrainOK, Busy
  <2>8. BoundsOK'
    <3>1. crashes < MaxCrashes /\ crashes' = crashes + 1 /\ UNCHANGED <<slips, clock, faults>>
      BY <1>3, Zenon DEF Crash
    <3> QED BY <3>1 DEF TInv, BoundsOK
  <2>9. {m.id : m \in {k \in queue : k.text = "torn"}} \subseteq Events
    BY <1>t, MemberTypes, Zenon
  <2>10. HistoryOK'
    BY <1>3, <2>9, Zenon DEF Crash, TInv, HistoryOK
  <2> QED BY <2>5, <2>6, <2>7, <2>8, <2>10, Zenon DEF TInv
<1> QED BY <1>1, <1>2, <1>3, Zenon

\* All steps together.
LEMMA NextTInv == TInv /\ [Next]_vars => TInv'
<1> SUFFICES ASSUME TInv, [Next]_vars PROVE TInv'
  BY Zenon
<1>1. CASE UNCHANGED vars
  BY <1>1, Same, StoreFixed, Zenon DEF vars, TInv
<1>2. backend' = backend
  BY StoreFixed, Zenon
<1> QED BY <1>1, <1>2, EnqueueTInv, DrainTInv, EnvironmentTInv, Zenon DEF Next

\* The parts of TInv add up to the type invariant.
LEMMA TInvTypeOK == TInv => TypeOK
<1> SUFFICES ASSUME TInv PROVE TypeOK
  BY Zenon
<1>1. dpc \in [Drains -> {"new", "dequeue", "next", "send", "update", "rewrite",
                          "readd", "delete", "remove", "done"}]
  BY Zenon DEF TInv, DrainOK, Busy
<1> QED BY <1>1, Zenon DEF TInv, StoreOK, HandlerOK, DrainOK, HistoryOK, BoundsOK, TypeOK

\* The queue, the handlers and the drains keep their types; in particular the
\* loop of sendEventWithRetry stays within its attempts.
THEOREM TypeCorrect == Spec => []TypeOK
<1>1. Spec => []TInv
  BY InitTInv, NextTInv, PTL DEF Spec
<1> QED BY <1>1, TInvTypeOK, PTL

-----------------------------------------------------------------------------
(* The queue's size *)

\* The sets BoundedOverrun counts are finite.
LEMMA Counts ==
    ASSUME TInv
    PROVE  /\ IsFiniteSet(queue) /\ Cardinality(queue) \in Nat
           /\ IsFiniteSet(Inserting) /\ Cardinality(Inserting) \in Nat
           /\ IsFiniteSet(TakenOut) /\ Cardinality(TakenOut) \in Nat
           /\ Cardinality(Enqueuers) \in Nat /\ Cardinality(Inserting) <= Cardinality(Enqueuers)
           /\ Cardinality(Hiding) \in Nat /\ Cardinality(TakenOut) <= Cardinality(Hiding)
           /\ Cap \in Nat \ {0} /\ slips \in Nat /\ faults \in Nat
<1>1. IsFiniteSet(Inserting) /\ Cardinality(Inserting) <= Cardinality(Enqueuers)
  BY QueueAssumption, FS_Subset, Zenon DEF Inserting
<1>2. IsFiniteSet(Hiding)
  BY QueueAssumption, FS_Subset, Zenon DEF Hiding
<1>3. TakenOut \subseteq Hiding
  BY Zenon DEF TakenOut, Hiding
<1>4. IsFiniteSet(TakenOut) /\ Cardinality(TakenOut) <= Cardinality(Hiding)
  BY <1>2, <1>3, FS_Subset, Zenon
<1>5. IsFiniteSet(queue)
  BY Zenon DEF TInv, StoreOK
<1>6. Cap \in Nat \ {0} /\ slips \in Nat /\ faults \in Nat
  BY QueueAssumption DEF TInv, BoundsOK
<1> QED BY QueueAssumption, <1>1, <1>2, <1>4, <1>5, <1>6, FS_CardinalityType, Zenon

\* A handler gets to its insertion, and the others stay.
LEMMA Arrives ==
    ASSUME TInv, NEW w \in Enqueuers, epc[w] # "insert", epc' = [epc EXCEPT ![w] = "insert"]
    PROVE  /\ Cardinality(Inserting') = Cardinality(Inserting) + 1
           /\ Cardinality(Inserting') <= Cardinality(Enqueuers)
<1>1. Inserting' = Inserting \cup {w} /\ w \notin Inserting
  BY Zenon DEF TInv, HandlerOK, Inserting
<1>2. Inserting' \subseteq Enqueuers
  BY Zenon DEF Inserting
<1>3. Cardinality(Inserting') <= Cardinality(Enqueuers)
  BY <1>2, QueueAssumption, FS_Subset, Zenon
<1> QED BY <1>1, <1>3, Counts, FS_AddElement, Zenon

\* A handler has inserted.
LEMMA Leaves ==
    ASSUME TInv, NEW w \in Enqueuers, epc[w] = "insert",
           NEW x, x # "insert", epc' = [epc EXCEPT ![w] = x]
    PROVE  Cardinality(Inserting') = Cardinality(Inserting) - 1
<1>1. Inserting' = Inserting \ {w} /\ w \in Inserting
  BY Zenon DEF TInv, HandlerOK, Inserting
<1> QED BY <1>1, Counts, FS_RemoveElement, Zenon

\* A handler makes a step before or after its insertion.
LEMMA PassesBy ==
    ASSUME TInv, NEW w \in Enqueuers, epc[w] # "insert",
           NEW x, x # "insert", epc' = [epc EXCEPT ![w] = x]
    PROVE  Inserting' = Inserting
BY Zenon DEF TInv, HandlerOK, Inserting

\* Other steps of a drain than the two halves of a rewrite.
LEMMA DrainElsewhere ==
    ASSUME TInv, backend' = backend, NEW d \in Drains, dpc[d] # "readd",
           NEW x, x # "readd", dpc' = [dpc EXCEPT ![d] = x]
    PROVE  TakenOut' = TakenOut
BY Zenon DEF TInv, DrainOK, TakenOut

\* Adding an element makes a finite set larger by one at most.
LEMMA Gains ==
    ASSUME NEW S, IsFiniteSet(S), NEW x
    PROVE  Cardinality(S \cup {x}) <= Cardinality(S) + 1
<1>1. Cardinality(S) \in Nat
  BY FS_CardinalityType, Zenon
<1>2. Cardinality(S \cup {x}) = Cardinality(S) \/ Cardinality(S \cup {x}) = Cardinality(S) + 1
  BY FS_AddElement, Zenon
<1> QED BY <1>1, <1>2

\* Removing a non-empty subset makes a finite set smaller.
LEMMA Loses ==
    ASSUME NEW S, IsFiniteSet(S), NEW T, T \subseteq S, T # {}
    PROVE  Cardinality(S \ T) <= Cardinality(S) - 1
<1>1. PICK x \in T : TRUE
  BY Zenon
<1>2. IsFiniteSet(S \ {x}) /\ Cardinality(S \ {x}) = Cardinality(S) - 1
  BY <1>1, FS_RemoveElement, Zenon
<1>3. S \ T \subseteq S \ {x}
  BY Zenon
<1>4. Cardinality(S \ T) <= Cardinality(S \ {x}) /\ Cardinality(S \ T) \in Nat
  BY <1>2, <1>3, FS_Subset, FS_CardinalityType, Zenon
<1> QED BY <1>2, <1>4, FS_CardinalityType, Zenon

\* Filling a file makes the queue no larger.
LEMMA Fills ==
    ASSUME TInv, NEW e
    PROVE  Cardinality(Fill(e)) <= Cardinality(queue)
<1>1. CASE Torn(e) \in queue
  <2>1. IsFiniteSet(queue \ {Torn(e)}) /\ Cardinality(queue \ {Torn(e)}) = Cardinality(queue) - 1
    BY <1>1, Counts, FS_RemoveElement, Zenon
  <2>2. Cardinality((queue \ {Torn(e)}) \cup {Fresh(e)}) <= Cardinality(queue \ {Torn(e)}) + 1
    BY <2>1, Gains, Zenon
  <2>3. Fill(e) = (queue \ {Torn(e)}) \cup {Fresh(e)}
    BY <1>1, Zenon DEF Fill
  <2>4. Cardinality(Fill(e)) <= Cardinality(queue \ {Torn(e)}) + 1
    BY <2>2, <2>3, Zenon
  <2>5. Cardinality(queue) \in Nat /\ Cardinality(Fill(e)) \in Nat
    <3>1. IsFiniteSet(Fill(e))
      BY <2>1, <2>3, FS_AddElement, Zenon
    <3> QED BY <3>1, Counts, FS_CardinalityType, Zenon
  <2> QED BY <2>1, <2>4, <2>5
<1>2. CASE Torn(e) \notin queue
  BY <1>2, Counts DEF Fill
<1> QED BY <1>1, <1>2, Zenon

\* EnqueueScrobble: whoever is let through to its insertion saw a queue below the
\* limit, evicted a member, or counts as a slip or a fault.
LEMMA EnqueueOverrun ==
    ASSUME TInv, backend' = backend, BoundedOverrun, NEW w \in Enqueuers, Enqueue(w)
    PROVE  BoundedOverrun'
<1> DEFINE Q == Cardinality(queue)
           I == Cardinality(Inserting)
           T == Cardinality(TakenOut)
           N == Cardinality(Enqueuers)
           H == Cardinality(Hiding)
<1>c. Q \in Nat /\ I \in Nat /\ T \in Nat /\ N \in Nat /\ H \in Nat /\ I <= N /\ T <= H
      /\ Cap \in Nat \ {0} /\ slips \in Nat /\ faults \in Nat /\ IsFiniteSet(queue)
  BY Counts, Zenon
<1>b. Q + I + T + 1 <= Cap + N + H + slips + faults
  BY Zenon DEF BoundedOverrun
<1>h. UNCHANGED drain => TakenOut' = TakenOut
  BY Zenon DEF TakenOut, drain
<1>g. SUFFICES TakenOut' = TakenOut
               /\ Cardinality(queue') + Cardinality(Inserting') + T + 1 <= Cap + N + H + slips' + faults'
  BY Zenon DEF BoundedOverrun, Hiding
<1>1. CASE \E e \in Events : Begin(w, e)
  <2>1. PICK e \in Events : Begin(w, e)
    BY <1>1, Zenon
  <2>2. UNCHANGED <<queue, drain, bounds>> /\ epc' = [epc EXCEPT ![w] = "check"] /\ epc[w] # "insert"
    BY <2>1, Zenon DEF Begin
  <2>3. Inserting' = Inserting
    BY <2>2, PassesBy, Zenon
  <2> QED BY <2>2, <2>3, <1>b, <1>h, Zenon DEF bounds
<1>2. CASE CheckSize(w)
  <2>1. UNCHANGED <<queue, drain, bounds>> /\ epc[w] # "insert"
    BY <1>2, Zenon DEF CheckSize, store
  <2>2. CASE Q >= Cap
    <3>1. epc' = [epc EXCEPT ![w] = "evict"]
      BY <1>2, <2>2, Zenon DEF CheckSize
    <3>2. Inserting' = Inserting
      BY <2>1, <3>1, PassesBy, Zenon
    <3> QED BY <2>1, <3>2, <1>b, <1>h, Zenon DEF bounds
  <2>3. CASE ~(Q >= Cap)
    <3>1. epc' = [epc EXCEPT ![w] = "insert"]
      BY <1>2, <2>3, Zenon DEF CheckSize
    <3>2. Cardinality(Inserting') = I + 1 /\ Cardinality(Inserting') <= N
      BY <2>1, <3>1, Arrives, Zenon
    <3>3. Cardinality(queue') = Q /\ slips' = slips /\ faults' = faults
      BY <2>1, Zenon DEF bounds
    <3> HIDE DEF Q, I, T, N, H
    <3> QED BY <2>1, <2>3, <3>2, <3>3, <1>c, <1>h
  <2> QED BY <2>2, <2>3, Zenon
<1>3. CASE PopOldest(w)
  <2>1. PICK S \in SUBSET queue : IsOldest(S, 1) /\ queue' = queue \ S
    BY <1>3, Zenon DEF PopOldest
  <2>2. UNCHANGED <<drain, bounds>> /\ epc[w] # "insert" /\ epc' = [epc EXCEPT ![w] = "insert"]
    BY <1>3, Zenon DEF PopOldest
  <2>3. Cardinality(Inserting') = I + 1 /\ Cardinality(Inserting') <= N
    BY <2>2, Arrives, Zenon
  <2>4. slips' = slips /\ faults' = faults
    BY <2>2, Zenon DEF bounds
  <2>5. CASE Q < 1
    <3>1. queue = {}
      BY <2>5, <1>c, FS_EmptySet
    <3>2. Cardinality(queue') = 0
      BY <2>1, <3>1, FS_EmptySet, Zenon
    <3> HIDE DEF Q, I, T, N, H
    <3> QED BY <2>2, <2>3, <2>4, <3>2, <1>c, <1>h, SMTT(30)
  <2>6. CASE ~(Q < 1)
    <3>1. Cardinality(S) = 1
      BY <2>1, <2>6, Zenon DEF IsOldest
    <3>2. S # {}
      BY <3>1, FS_EmptySet
    <3>3. Cardinality(queue') <= Q - 1
      BY <2>1, <3>2, <1>c, Loses, Zenon
    <3>4. Cardinality(queue') \in Nat
      BY <2>1, <1>c, FS_Subset, FS_CardinalityType, Zenon
    <3> HIDE DEF Q, I, T, N, H
    <3> QED BY <2>2, <2>3, <2>4, <3>3, <3>4, <1>b, <1>c, <1>h, SMTT(30)
  <2> QED BY <2>5, <2>6, Zenon
<1>4. CASE ChooseVictim(w)
  <2>1. UNCHANGED <<queue, drain, faults>> /\ epc[w] # "insert"
    BY <1>4, Zenon DEF ChooseVictim, store
  <2>2. \/ epc' = [epc EXCEPT ![w] = "victim"] /\ slips' = slips
        \/ epc' = [epc EXCEPT ![w] = "insert"] /\ slips' = slips + 1
    BY <1>4, Zenon DEF ChooseVictim
  <2>3. \/ Inserting' = Inserting /\ slips' = slips
        \/ Cardinality(Inserting') = I + 1 /\ slips' = slips + 1
    BY <2>1, <2>2, PassesBy, Arrives, Zenon
  <2>4. Cardinality(queue') = Q /\ TakenOut' = TakenOut /\ faults' = faults
    BY <2>1, <1>h, Zenon
  <2>5. \/ Cardinality(Inserting') = I /\ slips' = slips
        \/ Cardinality(Inserting') = I + 1 /\ slips' = slips + 1
    BY <2>3, Zenon
  <2> HIDE DEF Q, I, T, N, H
  <2> QED BY <2>4, <2>5, <1>b, <1>c
<1>5. CASE DeleteVictim(w)
  <2> DEFINE M == MembersOf(victim[w])
  <2>1. UNCHANGED <<drain, faults>> /\ epc[w] # "insert" /\ epc' = [epc EXCEPT ![w] = "insert"]
        /\ queue' = queue \ M /\ slips' = IF M = {} THEN slips + 1 ELSE slips
    BY <1>5, Zenon DEF DeleteVictim
  <2>2. Cardinality(Inserting') = I + 1
    BY <2>1, Arrives, Zenon
  <2>3. TakenOut' = TakenOut
    BY <2>1, <1>h, Zenon
  <2>4. CASE M = {}
    <3>1. Cardinality(queue') = Q /\ slips' = slips + 1
      BY <2>1, <2>4, Zenon
    <3> HIDE DEF Q, I, T, N, H
    <3> QED BY <2>1, <2>2, <2>3, <3>1, <1>b, <1>c
  <2>5. CASE M # {}
    <3>1. M \subseteq queue
      BY Zenon DEF MembersOf
    <3>2. Cardinality(queue') <= Q - 1 /\ Cardinality(queue') \in Nat
      BY <2>1, <2>5, <3>1, <1>c, Loses, FS_Subset, FS_CardinalityType, Zenon
    <3>3. slips' = slips
      BY <2>1, <2>5, Zenon
    <3> HIDE DEF Q, I, T, N, H
    <3> QED BY <2>1, <2>2, <2>3, <3>2, <3>3, <1>b, <1>c
  <2> QED BY <2>4, <2>5, Zenon
<1>6. CASE CapacityFault(w)
  <2>1. UNCHANGED <<queue, drain, slips>> /\ epc[w] # "insert" /\ epc' = [epc EXCEPT ![w] = "insert"]
        /\ faults' = faults + 1
    BY <1>6, Zenon DEF CapacityFault, store
  <2>2. Cardinality(Inserting') = I + 1 /\ Cardinality(queue') = Q /\ TakenOut' = TakenOut
    BY <2>1, <1>h, Arrives, Zenon
  <2> HIDE DEF Q, I, T, N, H
  <2> QED BY <2>1, <2>2, <1>b, <1>c
<1>7. ASSUME epc[w] = "insert", NEW x, x # "insert", epc' = [epc EXCEPT ![w] = x],
             UNCHANGED <<drain, bounds>>, NEW m, queue' = queue \/ queue' = queue \cup {m}
      PROVE  TakenOut' = TakenOut
             /\ Cardinality(queue') + Cardinality(Inserting') + T + 1 <= Cap + N + H + slips' + faults'
  <2>1. Cardinality(Inserting') = I - 1
    BY <1>7, Leaves, Zenon
  <2>2. Cardinality(queue \cup {m}) <= Q + 1 /\ Cardinality(queue \cup {m}) \in Nat
    BY <1>c, Gains, FS_AddElement, FS_CardinalityType, Zenon
  <2>3. Cardinality(queue') <= Q + 1 /\ Cardinality(queue') \in Nat
    BY <1>7, <2>2, <1>c
  <2>4. TakenOut' = TakenOut /\ slips' = slips /\ faults' = faults
    BY <1>7, <1>h, Zenon DEF bounds
  <2> HIDE DEF Q, I, T, N, H
  <2> QED BY <2>1, <2>3, <2>4, <1>b, <1>c
<1>8. CASE InsertRow(w)
  <2>1. queue' = queue \/ queue' = queue \cup {Fresh(eev[w])}
    BY <1>8, Zenon DEF InsertRow
  <2> QED BY <1>7, <1>8, <2>1, Zenon DEF InsertRow, Return
<1>9. CASE AddMember(w)
  BY <1>7, <1>9, Zenon DEF AddMember, Return
<1>10. CASE CreateFile(w)
  BY <1>7, <1>10, Zenon DEF CreateFile
<1>11. CASE WriteFile(w)
  <2>1. UNCHANGED <<drain, bounds>> /\ epc[w] # "insert" /\ epc' = [epc EXCEPT ![w] = "idle"]
        /\ queue' = Fill(eev[w])
    BY <1>11, Zenon DEF WriteFile, Return
  <2>2. Inserting' = Inserting /\ TakenOut' = TakenOut /\ slips' = slips /\ faults' = faults
    BY <2>1, <1>h, PassesBy, Zenon DEF bounds
  <2>3. Cardinality(queue') <= Q
    BY <2>1, Fills, Zenon
  <2>4. Cardinality(queue') \in Nat
    <3>1. TInv'
      BY EnqueueTInv, Zenon
    <3> QED BY <3>1, FS_CardinalityType, Zenon DEF TInv, StoreOK
  <2>5. Cardinality(Inserting') = I
    BY <2>2, Zenon
  <2> HIDE DEF Q, I, T, N, H
  <2> QED BY <2>2, <2>3, <2>4, <2>5, <1>b, <1>c
<1> QED BY <1>1, <1>2, <1>3, <1>4, <1>5, <1>6, <1>8, <1>9, <1>10, <1>11, Zenon DEF Enqueue

\* A drain only makes the queue smaller, but for the second half of a rewrite,
\* which puts back what the first half took out or was counted as a slip.
LEMMA DrainOverrun ==
    ASSUME TInv, backend' = backend, BoundedOverrun, NEW d \in Drains, Drain(d)
    PROVE  BoundedOverrun'
<1> DEFINE Q == Cardinality(queue)
           I == Cardinality(Inserting)
           T == Cardinality(TakenOut)
           N == Cardinality(Enqueuers)
           H == Cardinality(Hiding)
<1>c. Q \in Nat /\ I \in Nat /\ T \in Nat /\ N \in Nat /\ H \in Nat /\ IsFiniteSet(TakenOut)
      /\ Cap \in Nat \ {0} /\ slips \in Nat /\ faults \in Nat /\ IsFiniteSet(queue)
  BY Counts, Zenon
<1>b. Q + I + T + 1 <= Cap + N + H + slips + faults
  BY Zenon DEF BoundedOverrun
<1>f. IsFiniteSet(queue') /\ Cardinality(queue') \in Nat /\ slips' \in Nat /\ faults' \in Nat
  <2>1. TInv'
    BY DrainTInv, Zenon
  <2> QED BY <2>1, FS_CardinalityType DEF TInv, StoreOK, BoundsOK
<1>h. UNCHANGED handler
  BY Zenon DEF Drain, StartDrain, Dequeue, DequeueFault, NextEvent, SendAccepted, SendTransient,
         SendPermanent, FindForUpdate, Rewrite, Readd, FindForDelete, Delete, StoreFault, WriteFault
<1>i. Inserting' = Inserting
  BY <1>h, Zenon DEF Inserting, handler
<1>g. SUFFICES Cardinality(queue') + I + Cardinality(TakenOut') + 1 <= Cap + N + H + slips' + faults'
  BY <1>i, Zenon DEF BoundedOverrun, Hiding
<1>1. ASSUME queue' \subseteq queue, TakenOut' = TakenOut, slips' = slips,
             faults' = faults \/ faults' = faults + 1
      PROVE  Cardinality(queue') + I + Cardinality(TakenOut') + 1 <= Cap + N + H + slips' + faults'
  <2>1. Cardinality(queue') <= Q
    BY <1>1, <1>c, FS_Subset, Zenon
  <2>2. Cardinality(TakenOut') = T
    BY <1>1, Zenon
  <2> HIDE DEF Q, I, T, N, H
  <2> QED BY <1>1, <2>1, <2>2, <1>b, <1>c, <1>f
<1>2. CASE StartDrain(d) \/ Dequeue(d) \/ DequeueFault(d) \/ NextEvent(d) \/ SendAccepted(d)
           \/ SendTransient(d) \/ SendPermanent(d) \/ FindForUpdate(d) \/ FindForDelete(d)
           \/ Delete(d) \/ StoreFault(d)
  <2>1. queue' \subseteq queue /\ slips' = slips /\ (faults' = faults \/ faults' = faults + 1)
    BY <1>2, Zenon DEF StartDrain, Dequeue, DequeueFault, NextEvent, SendAccepted, SendTransient,
                SendPermanent, FindForUpdate, FindForDelete, Delete, StoreFault, store, bounds
  <2>2. dpc[d] # "readd"
    BY <1>2, Zenon DEF StartDrain, Dequeue, DequeueFault, NextEvent, SendAccepted, SendTransient,
                SendPermanent, FindForUpdate, FindForDelete, Delete, StoreFault
  <2>3. \E x : x # "readd" /\ dpc' = [dpc EXCEPT ![d] = x]
    BY <1>2, Zenon DEF StartDrain, Dequeue, DequeueFault, NextEvent, SendAccepted, SendTransient,
                SendPermanent, FindForUpdate, FindForDelete, Delete, StoreFault
  <2>4. TakenOut' = TakenOut
    BY <2>2, <2>3, DrainElsewhere, Zenon
  <2> QED BY <1>1, <2>1, <2>4, Zenon
<1>3. CASE Rewrite(d)
  <2>0. backend \in {"redis", "disk"}
    BY <1>3, QueueAssumption, Zenon DEF Rewrite, TInv, DrainOK, StoreOK
  <2>1. dpc[d] # "readd" /\ dpc' = [dpc EXCEPT ![d] = "readd"] /\ faults' = faults
    BY <1>3, Zenon DEF Rewrite
  <2>2. Target(d) \subseteq queue
    BY Zenon DEF Target, MembersOf
  <2>3. (Target(d) = {} /\ slips' = slips + 1) \/ (Target(d) # {} /\ slips' = slips)
    BY <1>3, Zenon DEF Rewrite
  <2>4. IsFiniteSet(queue \ Target(d)) /\ Cardinality(queue \ Target(d)) \in Nat
    BY <1>c, FS_Subset, FS_CardinalityType, Zenon
  <2>5. \/ Target(d) = {} /\ Cardinality(queue \ Target(d)) = Q
        \/ Target(d) # {} /\ Cardinality(queue \ Target(d)) <= Q - 1
    <3>1. CASE Target(d) = {}
      <4>1. queue \ Target(d) = queue
        BY <3>1, Zenon
      <4> QED BY <3>1, <4>1, Zenon
    <3>2. CASE Target(d) # {}
      BY <3>2, <2>2, <1>c, Loses, Zenon
    <3> QED BY <3>1, <3>2, Zenon
  <2>6. Cardinality(queue \ Target(d)) + 1 + slips <= Q + slips'
    <3> HIDE DEF Q, I, T, N, H
    <3> QED BY <2>3, <2>4, <2>5, <1>c, <1>f
  <2>7. CASE backend = "disk"
    <3>1. queue' = (queue \ Target(d)) \cup {Torn(cur[d])}
      BY <1>3, <2>7, Zenon DEF Rewrite
    <3>2. Cardinality(queue') <= Cardinality(queue \ Target(d)) + 1
      BY <3>1, <2>4, Gains, Zenon
    <3>3. Cardinality(TakenOut') = T
      BY <2>7, Zenon DEF TakenOut
    <3> HIDE DEF Q, I, T, N, H
    <3> QED BY <2>1, <2>4, <2>6, <3>2, <3>3, <1>b, <1>c, <1>f, SMTT(30)
  <2>8. CASE backend = "redis"
    <3>1. queue' = queue \ Target(d)
      BY <1>3, <2>8, Zenon DEF Rewrite
    <3>2. TakenOut' = TakenOut \cup {d}
      BY <2>1, <2>8, Zenon DEF TakenOut, TInv, DrainOK
    <3>3. Cardinality(TakenOut') <= T + 1 /\ Cardinality(TakenOut') \in Nat
      BY <3>2, <1>c, Gains, FS_AddElement, FS_CardinalityType, Zenon
    <3>4. Cardinality(queue') + 1 + slips <= Q + slips'
      BY <3>1, <2>6, Zenon
    <3> HIDE DEF Q, I, T, N, H
    <3> QED BY <2>1, <3>3, <3>4, <1>b, <1>c, <1>f
  <2> QED BY <2>0, <2>7, <2>8, Zenon
<1>4. CASE Readd(d)
  <2>0. backend \in {"redis", "disk"}
    BY <1>4, QueueAssumption, Zenon DEF Readd, TInv, DrainOK, StoreOK
  <2>1. dpc[d] = "readd" /\ dpc' = [dpc EXCEPT ![d] = "send"] /\ faults' = faults /\ slips' = slips
    BY <1>4, Zenon DEF Readd, bounds
  <2>2. CASE backend = "disk"
    <3>1. Cardinality(queue') <= Q
      BY <1>4, <2>2, Fills, Zenon DEF Readd
    <3>2. Cardinality(TakenOut') = T
      BY <2>2, Zenon DEF TakenOut
    <3> HIDE DEF Q, I, T, N, H
    <3> QED BY <2>1, <3>1, <3>2, <1>b, <1>c, <1>f
  <2>3. CASE backend = "redis"
    <3>1. queue' = queue \cup {NewText(d)}
      BY <1>4, <2>3, Zenon DEF Readd
    <3>2. Cardinality(queue') <= Q + 1
      BY <3>1, <1>c, Gains, Zenon
    <3>3. TakenOut' = TakenOut \ {d} /\ d \in TakenOut
      BY <2>1, <2>3, Zenon DEF TakenOut, TInv, DrainOK
    <3>4. Cardinality(TakenOut') = T - 1
      BY <3>3, <1>c, FS_RemoveElement, Zenon
    <3> HIDE DEF Q, I, T, N, H
    <3> QED BY <2>1, <3>2, <3>4, <1>b, <1>c, <1>f
  <2> QED BY <2>0, <2>2, <2>3, Zenon
<1>5. CASE WriteFault(d)
  <2>1. queue' = queue /\ slips' = slips /\ faults' = faults + 1
    BY <1>5, Zenon DEF WriteFault, store
  <2>2. TakenOut' = TakenOut
    BY <1>5, Zenon DEF WriteFault, TakenOut
  <2> QED BY <1>1, <2>1, <2>2, Zenon
<1> QED BY <1>2, <1>3, <1>4, <1>5, Zenon DEF Drain

\* A crash completes the Redis rewrites that were under way.
LEMMA EnvironmentOverrun ==
    ASSUME TInv, backend' = backend, BoundedOverrun, DeleteUser \/ Tick \/ Crash
    PROVE  BoundedOverrun'
<1> DEFINE Q == Cardinality(queue)
           I == Cardinality(Inserting)
           T == Cardinality(TakenOut)
           N == Cardinality(Enqueuers)
           H == Cardinality(Hiding)
<1>c. Q \in Nat /\ I \in Nat /\ T \in Nat /\ N \in Nat /\ H \in Nat
      /\ Cap \in Nat \ {0} /\ slips \in Nat /\ faults \in Nat /\ IsFiniteSet(queue)
  BY Counts, Zenon
<1>b. Q + I + T + 1 <= Cap + N + H + slips + faults
  BY Zenon DEF BoundedOverrun
<1>f. IsFiniteSet(queue') /\ Cardinality(queue') \in Nat
  <2>1. TInv'
    BY EnvironmentTInv, Zenon
  <2> QED BY <2>1, FS_CardinalityType, Zenon DEF TInv, StoreOK
<1>s. slips' = slips /\ faults' = faults
  BY Zenon DEF DeleteUser, Tick, Crash, bounds
<1>1. CASE DeleteUser \/ Tick
  <2>1. queue' \subseteq queue /\ UNCHANGED <<handler, drain>>
    BY <1>1, Zenon DEF DeleteUser, Tick, store
  <2>2. Cardinality(queue') <= Q
    BY <2>1, <1>c, FS_Subset, Zenon
  <2>3. Inserting' = Inserting /\ TakenOut' = TakenOut /\ Hiding' = Hiding
    BY <2>1, Zenon DEF Inserting, TakenOut, Hiding, handler, drain
  <2>4. Cardinality(queue') + I + T + 1 <= Cap + N + H + slips + faults
    <3> HIDE DEF Q, I, T, N, H
    <3> QED BY <2>2, <1>b, <1>c, <1>f
  <2> QED BY <2>3, <2>4, <1>s, Zenon DEF BoundedOverrun
<1>2. CASE Crash
  <2> DEFINE R == {c \in Drains : dpc[c] = "readd"}
             New == {NewText(c) : c \in R}
  <2>1. Inserting' = {} /\ TakenOut' = {} /\ Hiding' = Hiding
    BY <1>2, Zenon DEF Crash, Running, Inserting, TakenOut, Hiding
  <2>2. Cardinality(Inserting') = 0 /\ Cardinality(TakenOut') = 0
    BY <2>1, FS_EmptySet, Zenon
  <2>3. Cardinality(queue') <= Q + T
    <3>1. CASE backend = "redis"
      <4>1. R = TakenOut /\ queue' = queue \cup New
        BY <1>2, <3>1, Zenon DEF Crash, TakenOut
      <4>2. IsFiniteSet(New) /\ Cardinality(New) <= Cardinality(R)
        BY FiniteTexts, Zenon
      <4>3. Cardinality(queue \cup New) = Q + Cardinality(New) - Cardinality(queue \cap New)
        BY <4>2, <1>c, FS_Union, Zenon
      <4>4. Cardinality(queue \cap New) \in Nat /\ Cardinality(New) \in Nat
        BY <4>2, <1>c, FS_Intersection, FS_CardinalityType, Zenon
      <4>5. Cardinality(New) <= T
        BY <4>1, <4>2, Zenon
      <4>6. Cardinality(queue') = Q + Cardinality(New) - Cardinality(queue \cap New)
        BY <4>1, <4>3, Zenon
      <4> HIDE DEF Q, I, T, N, H, R, New
      <4> QED BY <4>4, <4>5, <4>6, <1>c
    <3>2. CASE backend # "redis"
      <4>1. Cardinality(queue') = Q
        BY <1>2, <3>2, Zenon DEF Crash
      <4> HIDE DEF Q, I, T, N, H
      <4> QED BY <4>1, <1>c
    <3> QED BY <3>1, <3>2, Zenon
  <2>4. Cardinality(queue') + 0 + 0 + 1 <= Cap + N + H + slips + faults
    <3> HIDE DEF Q, I, T, N, H
    <3> QED BY <2>3, <1>b, <1>c, <1>f
  <2> QED BY <2>1, <2>2, <2>4, <1>s, Zenon DEF BoundedOverrun
<1> QED BY <1>1, <1>2, Zenon

\* However many handlers, drains, crashes and failing calls there are, and for
\* every limit, the queue exceeds maxQueuePerUser by no more than BoundedOverrun
\* says (EnqueueScrobble's size check, eviction and insertion on all stores).
THEOREM OverrunHolds == Spec => []BoundedOverrun
<1>1. Init => BoundedOverrun
  <2> SUFFICES ASSUME Init PROVE BoundedOverrun
    BY Zenon
  <2>1. TInv
    BY InitTInv, Zenon
  <2>2. queue = {} /\ Inserting = {} /\ TakenOut = {}
    BY Zenon DEF Init, Inserting, TakenOut
  <2>3. Cardinality(queue) = 0 /\ Cardinality(Inserting) = 0 /\ Cardinality(TakenOut) = 0
    BY <2>2, FS_EmptySet, Zenon
  <2> QED BY <2>1, <2>3, Counts DEF BoundedOverrun
<1>2. TInv /\ BoundedOverrun /\ [Next]_vars => BoundedOverrun'
  <2> SUFFICES ASSUME TInv, BoundedOverrun, [Next]_vars PROVE BoundedOverrun'
    BY Zenon
  <2>1. CASE UNCHANGED vars
    BY <2>1, Zenon DEF vars, store, handler, drain, bounds, BoundedOverrun, Inserting, TakenOut, Hiding
  <2>2. backend' = backend
    BY StoreFixed, Zenon
  <2> QED BY <2>1, <2>2, EnqueueOverrun, DrainOverrun, EnvironmentOverrun, Zenon DEF Next
<1> QED BY <1>1, <1>2, InitTInv, NextTInv, PTL DEF Spec

-----------------------------------------------------------------------------
(* Nothing is lost *)

\* NothingLost holds because whoever removes an event has a reason for it: a
\* delete is for the event that was sent or given up, also when the member was
\* found earlier.
Reasons ==
    /\ \A d \in Drains : dpc[d] \in {"delete", "remove"} => sends[cur[d]] > 0 \/ cur[d] \in excused
    /\ \A d \in Drains : dpc[d] \in {"rewrite", "remove"} => held[d].id = cur[d]

\* Only files are ever unreadable, and the file of an event that was accepted, or
\* is about to be, stays (readable or not) until the event is settled.
Written(e) == e \in acked \/ \E w \in Enqueuers : epc[w] = "write" /\ eev[w] = e
Stored(e) == MembersOf(e) # {} \/ sends[e] > 0 \/ e \in excused

Files ==
    /\ \A m \in queue : m.text = "torn" => backend = "disk" /\ m = Torn(m.id)
    /\ \A w \in Enqueuers : epc[w] = "write" => backend = "disk"
    /\ backend = "disk" => \A e \in Events : Written(e) => Stored(e)

LInv == Reasons /\ Files /\ NothingLost

Kept(e) == Readable(e) \/ BeingRewritten(e) \/ sends[e] > 0 \/ e \in excused \cup ignored

\* A member is readable or the torn file of its event.
LEMMA Texts ==
    ASSUME TInv, Files, NEW e, MembersOf(e) # {}, Torn(e) \notin queue
    PROVE  Readable(e)
<1>1. PICK m \in queue : m.id = e
  BY Zenon DEF MembersOf
<1>2. m.text \in {"whole", "torn"}
  BY Zenon DEF TInv, StoreOK, Member
<1>3. m.text # "torn"
  BY <1>1, Zenon DEF Files
<1> QED BY <1>1, <1>2, <1>3, Zenon DEF Readable, MembersOf

\* Filling the file of an event leaves the others alone; what was stored of the
\* event is then readable.
LEMMA Filled ==
    ASSUME TInv, Files, NEW e, queue' = Fill(e)
    PROVE  /\ MembersOf(e) # {} => Readable(e)'
           /\ \A f : Readable(f) => Readable(f)'
           /\ \A f : MembersOf(f) # {} => MembersOf(f)' # {}
           /\ \A m \in queue' : m.text = "torn" => m \in queue
<1>1. CASE Torn(e) \in queue
  <2>1. queue' = (queue \ {Torn(e)}) \cup {Fresh(e)}
    BY <1>1, Zenon DEF Fill
  <2>2. Fresh(e).id = e /\ Fresh(e).text = "whole" /\ Torn(e).id = e /\ Torn(e).text = "torn"
    BY Zenon DEF Fresh, Torn
  <2>3. Readable(e)' /\ MembersOf(e)' # {}
    BY <2>1, <2>2, Zenon DEF Readable, MembersOf
  <2>4. \A f : Readable(f) => Readable(f)'
    BY <2>1, <2>2, Zenon DEF Readable, MembersOf
  <2>5. ASSUME NEW f, MembersOf(f) # {} PROVE MembersOf(f)' # {}
    <3>1. CASE f = e
      BY <2>3, <3>1, Zenon
    <3>2. CASE f # e
      BY <2>1, <2>2, <2>5, <3>2, Zenon DEF MembersOf
    <3> QED BY <3>1, <3>2, Zenon
  <2>6. \A m \in queue' : m.text = "torn" => m \in queue
    BY <2>1, <2>2, Zenon
  <2> QED BY <2>3, <2>4, <2>5, <2>6, Zenon
<1>2. CASE Torn(e) \notin queue
  <2>1. queue' = queue
    BY <1>2, Zenon DEF Fill
  <2>2. \A f : (Readable(f)' <=> Readable(f)) /\ MembersOf(f)' = MembersOf(f)
    BY <2>1, Zenon DEF Readable, MembersOf
  <2> QED BY <1>2, <2>1, <2>2, Texts, Zenon
<1> QED BY <1>1, <1>2, Zenon

\* EnqueueScrobble: an eviction excuses the event it takes.
LEMMA EnqueueLInv ==
    ASSUME backend' = backend, TInv, LInv, NEW w \in Enqueuers, Enqueue(w)
    PROVE  LInv'
<1> USE QueueAssumption
<1>t. /\ epc \in [Enqueuers -> {"idle", "check", "evict", "victim", "insert", "write"}]
      /\ eev \in [Enqueuers -> Events \cup {None}]
      /\ queue \subseteq Member /\ acked \subseteq Events
      /\ Files
  BY Zenon DEF TInv, HandlerOK, StoreOK, HistoryOK, LInv
<1>d. UNCHANGED drain /\ UNCHANGED sends
  BY Zenon DEF Enqueue, Begin, CheckSize, PopOldest, ChooseVictim, DeleteVictim, CapacityFault,
         InsertRow, AddMember, CreateFile, WriteFile, history
<1>x. excused \subseteq excused'
  BY Zenon DEF Enqueue, Begin, CheckSize, PopOldest, ChooseVictim, DeleteVictim, CapacityFault,
         InsertRow, AddMember, CreateFile, WriteFile, history
<1>i. ignored \subseteq ignored'
  BY Zenon DEF Enqueue, Begin, CheckSize, PopOldest, ChooseVictim, DeleteVictim, CapacityFault,
         InsertRow, AddMember, CreateFile, WriteFile, history
<1>1. Reasons'
  BY <1>d, <1>x, Zenon DEF LInv, Reasons, drain
<1>4. ASSUME NEW e, Kept(e), Readable(e) => Readable(e)' \/ e \in excused' PROVE Kept(e)'
  BY <1>4, <1>d, <1>x, <1>i, Zenon DEF Kept, BeingRewritten, drain
<1>5. ASSUME Files',
             \A e \in acked : Readable(e) => Readable(e)' \/ e \in excused',
             \A e \in acked' \ acked : Kept(e)'
      PROVE  LInv'
  <2>1. \A e \in acked : Kept(e)
    BY Zenon DEF LInv, NothingLost, Kept
  <2>2. \A e \in acked' : Kept(e)'
    BY <1>4, <1>5, <2>1, Zenon
  <2>3. NothingLost'
    BY <2>2, Zenon DEF NothingLost, Kept
  <2> QED BY <1>1, <1>5, <2>3, Zenon DEF LInv
<1>6. ASSUME queue' \subseteq queue, \A m \in queue \ queue' : m.id \in excused', acked' = acked,
             \A v \in Enqueuers : epc'[v] = "write" => epc[v] = "write" /\ eev'[v] = eev[v]
      PROVE  LInv'
  <2>1. \A e : Written(e)' => Written(e)
    BY <1>6, Zenon DEF Written
  <2>2. \A e : Stored(e) => Stored(e)'
    BY <1>6, <1>d, <1>x, Zenon DEF Stored, MembersOf
  <2>3. Files'
    BY <1>6, <1>t, <2>1, <2>2, Zenon DEF Files
  <2>4. \A e : Readable(e) => Readable(e)' \/ e \in excused'
    BY <1>6, Zenon DEF Readable, MembersOf
  <2> QED BY <1>5, <1>6, <2>3, <2>4, Zenon
<1>7. CASE \/ \E e \in Events : Begin(w, e)
           \/ CheckSize(w) \/ ChooseVictim(w) \/ CapacityFault(w)
  <2>1. queue' = queue /\ acked' = acked
    BY <1>7, Zenon DEF Begin, CheckSize, ChooseVictim, CapacityFault, store, history
  <2>2. \A v \in Enqueuers : epc'[v] = "write" => epc[v] = "write" /\ eev'[v] = eev[v]
    BY <1>7, <1>t, Zenon DEF Begin, CheckSize, ChooseVictim, CapacityFault
  <2> QED BY <1>6, <2>1, <2>2, Zenon
<1>8. CASE PopOldest(w)
  <2>1. PICK S \in SUBSET queue : queue' = queue \ S /\ excused' = excused \cup {m.id : m \in S}
    BY <1>8, Zenon DEF PopOldest
  <2>2. acked' = acked
    BY <1>8, Zenon DEF PopOldest
  <2>3. \A v \in Enqueuers : epc'[v] = "write" => epc[v] = "write" /\ eev'[v] = eev[v]
    BY <1>8, <1>t, Zenon DEF PopOldest
  <2> QED BY <1>6, <2>1, <2>2, <2>3, Zenon
<1>9. CASE DeleteVictim(w)
  <2>1. queue' = queue \ MembersOf(victim[w]) /\ acked' = acked
        /\ (MembersOf(victim[w]) # {} => victim[w] \in excused')
    BY <1>9, Zenon DEF DeleteVictim
  <2>2. \A m \in queue \ queue' : m.id \in excused'
    BY <2>1, Zenon DEF MembersOf
  <2>3. \A v \in Enqueuers : epc'[v] = "write" => epc[v] = "write" /\ eev'[v] = eev[v]
    BY <1>9, <1>t, Zenon DEF DeleteVictim
  <2> QED BY <1>6, <2>1, <2>2, <2>3, Zenon
<1>10. ASSUME NEW e, backend # "disk", epc' = [epc EXCEPT ![w] = "idle"],
             queue \subseteq queue', queue' \subseteq queue \cup {Fresh(e)},
             acked' \subseteq acked \cup {e},
             e \in acked' \ acked => Fresh(e) \in queue' \/ e \in ignored'
      PROVE  LInv'
  <2>1. \A m \in queue' : m.text # "torn"
    BY <1>10, <1>t DEF Files, Fresh
  <2>2. \A v \in Enqueuers : epc'[v] # "write"
    BY <1>10, <1>t, Zenon DEF Files
  <2>3. Files'
    BY <1>10, <2>1, <2>2, Zenon DEF Files
  <2>4. \A f : Readable(f) => Readable(f)'
    BY <1>10, Zenon DEF Readable, MembersOf
  <2>5. Fresh(e) \in queue' => Readable(e)'
    BY DEF Readable, MembersOf, Fresh
  <2>6. \A f \in acked' \ acked : Kept(f)'
    BY <1>10, <2>5, Zenon DEF Kept
  <2> QED BY <1>5, <2>3, <2>4, <2>6, ZenonT(60)
<1>11. CASE InsertRow(w)
  <2>1. PICK e \in Events : e = eev[w]
    BY <1>11, Zenon DEF InsertRow, TInv, HandlerOK
  <2>2. backend # "disk" /\ epc' = [epc EXCEPT ![w] = "idle"]
    BY <1>11, Zenon DEF InsertRow, Return
  <2>3. CASE user
    <3>1. acked' = acked \cup {e}
      BY <1>11, <2>1, <2>3, Zenon DEF InsertRow
    <3>2. queue' = queue \cup {Fresh(e)} \/ (queue' = queue /\ ignored' = ignored \cup {e})
      BY <1>11, <2>1, <2>3, Zenon DEF InsertRow
    <3> QED BY <1>10, <2>2, <3>1, <3>2, Zenon
  <2>4. CASE ~user
    <3>1. acked' = acked /\ queue' = queue
      BY <1>11, <2>4, Zenon DEF InsertRow
    <3> QED BY <1>10, <2>2, <3>1, Zenon
  <2> QED BY <2>3, <2>4, Zenon
<1>12. CASE AddMember(w)
  <2>1. PICK e \in Events : e = eev[w]
    BY <1>12, Zenon DEF AddMember, TInv, HandlerOK
  <2>2. acked' = acked \cup {e} /\ queue' = queue \cup {Fresh(e)} /\ backend # "disk"
        /\ epc' = [epc EXCEPT ![w] = "idle"]
    BY <1>12, <2>1, Zenon DEF AddMember, Return
  <2> QED BY <1>10, <2>2, Zenon
<1>13. CASE CreateFile(w)
  <2>1. backend = "disk" /\ queue' = queue \cup {Torn(eev[w])} /\ UNCHANGED <<acked, eev>>
        /\ epc' = [epc EXCEPT ![w] = "write"]
    BY <1>13, Zenon DEF CreateFile, history
  <2>2. Torn(eev[w]).id = eev[w]
    BY Zenon DEF Torn
  <2>3. \A e : Written(e)' => Written(e) \/ e = eev[w]
    BY <1>t, <2>1, Zenon DEF Written
  <2>4. \A e : Stored(e) \/ e = eev[w] => Stored(e)'
    BY <2>1, <2>2, <1>d, <1>x, Zenon DEF Stored, MembersOf
  <2>5. \A m \in queue' : m.text = "torn" => m = Torn(m.id)
    BY <1>t, <2>1, <2>2, Zenon DEF Files
  <2>6. Files'
    BY <1>t, <2>1, <2>3, <2>4, <2>5, Zenon DEF Files, Torn
  <2>7. \A f : Readable(f) => Readable(f)'
    BY <2>1, Zenon DEF Readable, MembersOf
  <2> QED BY <1>5, <2>1, <2>6, <2>7, Zenon
<1>14. CASE WriteFile(w)
  <2>0. PICK e \in Events : e = eev[w]
    BY <1>14, Zenon DEF WriteFile, TInv, HandlerOK
  <2>1. queue' = Fill(e) /\ acked' = acked \cup {e} /\ epc[w] = "write"
        /\ epc' = [epc EXCEPT ![w] = "idle"] /\ eev' = [eev EXCEPT ![w] = None]
    BY <1>14, <2>0, Zenon DEF WriteFile, Return
  <2>2. backend = "disk" /\ Stored(e)
    BY <1>t, <2>0, <2>1, Zenon DEF Files, Written
  <2>3. /\ MembersOf(e) # {} => Readable(e)'
        /\ \A f : Readable(f) => Readable(f)'
        /\ \A f : MembersOf(f) # {} => MembersOf(f)' # {}
        /\ \A m \in queue' : m.text = "torn" => m \in queue
    BY <1>t, <2>1, Filled, Zenon
  <2>4. \A f : Written(f)' => Written(f)
    BY <1>t, <2>0, <2>1, Zenon DEF Written
  <2>5. \A f : Stored(f) => Stored(f)'
    BY <2>3, <1>d, <1>x, Zenon DEF Stored
  <2>6. \A v \in Enqueuers : epc'[v] = "write" => backend = "disk"
    BY <2>2, Zenon
  <2>7. Files'
    BY <1>t, <2>3, <2>4, <2>5, <2>6, Zenon DEF Files
  <2>8. Kept(e)'
    BY <2>2, <2>3, <1>d, <1>x, Zenon DEF Stored, Kept
  <2>9. \A f \in acked' \ acked : Kept(f)'
    BY <2>1, <2>8, Zenon
  <2> QED BY <1>5, <2>3, <2>7, <2>9, Zenon
<1> QED BY <1>7, <1>8, <1>9, <1>11, <1>12, <1>13, <1>14, Zenon DEF Enqueue

\* Drains: whatever is removed was sent or given up, or is being replaced.
LEMMA DrainLInv ==
    ASSUME backend' = backend, TInv, LInv, NEW d \in Drains, Drain(d)
    PROVE  LInv'
<1> USE QueueAssumption
<1>t. /\ dpc \in [Drains -> {"new", "dequeue", "next", "done"} \cup Busy]
      /\ cur \in [Drains -> Events \cup {None}]
      /\ held \in [Drains -> Member \cup {NoMember}]
      /\ \A c \in Drains : dpc[c] \in Busy => cur[c] \in Events
      /\ acked \subseteq Events
      /\ Files
  BY Zenon DEF TInv, DrainOK, HistoryOK, LInv
<1>s. sends \in [Events -> Nat]
  <2>1. sends \in [Events -> 0..MaxSends] /\ MaxSends \in Nat
    BY Zenon DEF TInv, HistoryOK
  <2>2. 0..MaxSends \subseteq Nat
    BY <2>1
  <2> QED BY <2>1, <2>2, Zenon
<1>h. UNCHANGED <<epc, eev, acked, ignored>>
  BY Zenon DEF Drain, StartDrain, Dequeue, DequeueFault, NextEvent, SendAccepted, SendTransient,
         SendPermanent, FindForUpdate, Rewrite, Readd, FindForDelete, Delete, StoreFault, WriteFault,
         handler, history
<1>o. \A c \in Drains \ {d} : dpc'[c] = dpc[c] /\ cur'[c] = cur[c] /\ held'[c] = held[c]
  BY <1>t, ZenonT(60) DEF Drain, StartDrain, Dequeue, DequeueFault, NextEvent, SendAccepted, SendTransient,
         SendPermanent, FindForUpdate, Rewrite, Readd, FindForDelete, Delete, StoreFault, WriteFault
<1>m. excused \subseteq excused' /\ \A e \in Events : sends[e] > 0 => sends'[e] > 0
  <2>1. excused \subseteq excused'
    BY Zenon DEF Drain, StartDrain, Dequeue, DequeueFault, NextEvent, SendAccepted, SendTransient,
         SendPermanent, FindForUpdate, Rewrite, Readd, FindForDelete, Delete, StoreFault, WriteFault, history
  <2>2. sends' = sends \/ (cur[d] \in Events /\ sends' = [sends EXCEPT ![cur[d]] = sends[cur[d]] + 1])
    BY <1>t, ZenonT(60) DEF Drain, StartDrain, Dequeue, DequeueFault, NextEvent, SendAccepted, SendTransient,
         SendPermanent, FindForUpdate, Rewrite, Readd, FindForDelete, Delete, StoreFault, WriteFault, history, Busy
  <2>3. ASSUME NEW e \in Events, sends[e] > 0 PROVE sends'[e] > 0
    <3>1. sends'[e] = sends[e] \/ sends'[e] = sends[e] + 1
      BY <1>s, <2>2, Zenon
    <3>2. sends[e] \in Nat
      BY <1>s, Zenon
    <3> QED BY <2>3, <3>1, <3>2
  <2> QED BY <2>1, <2>3, Zenon
<1>1. ASSUME \A m \in queue' : m.text = "torn" => backend = "disk" /\ m = Torn(m.id),
             backend = "disk" => \A e \in Events : Stored(e) => Stored(e)',
             dpc'[d] \in {"delete", "remove"} => sends'[cur'[d]] > 0 \/ cur'[d] \in excused',
             dpc'[d] \in {"rewrite", "remove"} => held'[d].id = cur'[d],
             \A e \in acked : Kept(e) => Kept(e)'
      PROVE  LInv'
  <2>1. \A e \in acked' : Kept(e)'
    BY <1>1, <1>h, Zenon DEF LInv, NothingLost, Kept
  <2>2. NothingLost'
    BY <2>1, Zenon DEF NothingLost, Kept
  <2>3. \A c \in Drains : dpc'[c] \in {"delete", "remove"} => sends'[cur'[c]] > 0 \/ cur'[c] \in excused'
    <3>1. \A c \in Drains : dpc[c] \in {"delete", "remove"} => cur[c] \in Events
      BY <1>t, Zenon DEF Busy
    <3> QED BY <1>1, <1>o, <1>m, <3>1, Zenon DEF LInv, Reasons
  <2>4. \A c \in Drains : dpc'[c] \in {"rewrite", "remove"} => held'[c].id = cur'[c]
    BY <1>1, <1>o, Zenon DEF LInv, Reasons
  <2>5. \A e : Written(e)' <=> Written(e)
    BY <1>h, Zenon DEF Written
  <2>6. Files'
    BY <1>1, <1>t, <1>h, <2>5, Zenon DEF Files
  <2> QED BY <2>2, <2>3, <2>4, <2>6, Zenon DEF LInv, Reasons
<1>2. \A e : BeingRewritten(e) => BeingRewritten(e)' \/ (dpc[d] = "readd" /\ cur[d] = e)
  BY <1>o, Zenon DEF BeingRewritten
<1>3. ASSUME dpc[d] # "readd",
             \A e \in acked : Readable(e) => Readable(e)' \/ BeingRewritten(e)' \/ sends[e] > 0 \/ e \in excused
      PROVE  \A e \in acked : Kept(e) => Kept(e)'
  BY <1>2, <1>3, <1>h, <1>m, <1>t, Zenon DEF Kept
<1>4. ASSUME dpc[d] # "readd", queue' = queue,
             dpc'[d] \in {"delete", "remove"} => sends'[cur'[d]] > 0 \/ cur'[d] \in excused',
             dpc'[d] \in {"rewrite", "remove"} => held'[d].id = cur'[d]
      PROVE  LInv'
  <2>1. \A e : (Readable(e)' <=> Readable(e)) /\ MembersOf(e)' = MembersOf(e)
    BY <1>4, Zenon DEF Readable, MembersOf
  <2>2. \A e \in acked : Kept(e) => Kept(e)'
    BY <1>3, <1>4, <2>1, Zenon
  <2>3. \A m \in queue' : m.text = "torn" => backend = "disk" /\ m = Torn(m.id)
    BY <1>4, <1>t, Zenon DEF Files
  <2>4. \A e \in Events : Stored(e) => Stored(e)'
    BY <1>m, <2>1, Zenon DEF Stored
  <2> QED BY <1>1, <1>4, <2>2, <2>3, <2>4, Zenon
<1>5. CASE StartDrain(d) \/ Dequeue(d) \/ DequeueFault(d) \/ NextEvent(d) \/ StoreFault(d)
  <2>1. dpc[d] # "readd" /\ queue' = queue
    BY <1>5, Zenon DEF StartDrain, Dequeue, DequeueFault, NextEvent, StoreFault, store
  <2>2. dpc'[d] \notin {"delete", "remove", "rewrite"}
    BY <1>5, <1>t, ZenonT(60) DEF StartDrain, Dequeue, DequeueFault, NextEvent, StoreFault
  <2> QED BY <1>4, <2>1, <2>2, Zenon
<1>6. CASE FindForUpdate(d)
  <2>1. dpc[d] # "readd" /\ queue' = queue /\ cur' = cur
    BY <1>6, Zenon DEF FindForUpdate, store
  <2>2. dpc'[d] = "send" \/ (dpc'[d] = "rewrite" /\ held'[d].id = cur[d])
    BY <1>6, <1>t, Zenon DEF FindForUpdate, MembersOf
  <2> QED BY <1>4, <2>1, <2>2, Zenon
<1>7. CASE FindForDelete(d)
  <2>1. dpc[d] = "delete" /\ queue' = queue /\ sends' = sends /\ excused' = excused
    BY <1>7, Zenon DEF FindForDelete, store, history
  <2>2. dpc'[d] = "next" \/ (dpc'[d] = "remove" /\ held'[d].id = cur[d] /\ cur' = cur)
    BY <1>7, <1>t, Zenon DEF FindForDelete, MembersOf
  <2>3. sends[cur[d]] > 0 \/ cur[d] \in excused
    BY <2>1, Zenon DEF LInv, Reasons
  <2> QED BY <1>4, <2>1, <2>2, <2>3, Zenon
<1>8. CASE SendAccepted(d)
  <2>1. dpc[d] = "send" /\ queue' = queue /\ cur' = cur /\ dpc'[d] = "delete"
    BY <1>8, <1>t, Zenon DEF SendAccepted, store
  <2>2. cur[d] \in Events /\ sends' = [sends EXCEPT ![cur[d]] = sends[cur[d]] + 1]
    BY <1>8, <1>t, <2>1, Zenon DEF SendAccepted, Busy
  <2>3. sends[cur[d]] \in Nat /\ sends'[cur[d]] = sends[cur[d]] + 1
    BY <1>s, <2>2, Zenon
  <2>4. sends'[cur'[d]] > 0
    <3>1. sends'[cur[d]] > 0
      BY <2>3
    <3>2. cur'[d] = cur[d]
      BY <2>1, Zenon
    <3> QED BY <3>1, <3>2, Zenon
  <2> QED BY <1>4, <2>1, <2>4, Zenon
<1>9. CASE SendTransient(d) \/ SendPermanent(d)
  <2>1. dpc[d] = "send" /\ queue' = queue /\ cur' = cur
    BY <1>9, Zenon DEF SendTransient, SendPermanent, store
  <2>2. dpc'[d] = "update" \/ (dpc'[d] = "delete" /\ cur[d] \in excused')
    BY <1>9, <1>t, Zenon DEF SendTransient, SendPermanent
  <2> QED BY <1>4, <2>1, <2>2, Zenon
<1>10. CASE Rewrite(d)
  <2>1. dpc[d] = "rewrite" /\ cur' = cur /\ dpc'[d] = "readd" /\ held[d].id = cur[d]
    BY <1>10, <1>t, Zenon DEF Rewrite, LInv, Reasons
  <2>2. queue' = (queue \ Target(d)) \cup IF backend = "disk" THEN {Torn(cur[d])} ELSE {}
    BY <1>10, Zenon DEF Rewrite
  <2>3. \A m \in Target(d) : m.id = cur[d]
    BY <2>1, Zenon DEF Target, MembersOf
  <2>4. \A e : Readable(e) => Readable(e)' \/ e = cur[d]
    BY <2>2, <2>3, Zenon DEF Readable, MembersOf
  <2>5. \A e : e = cur[d] => BeingRewritten(e)'
    BY <2>1, Zenon DEF BeingRewritten
  <2>6. \A e \in acked : Kept(e) => Kept(e)'
    BY <1>3, <2>1, <2>4, <2>5, Zenon
  <2>7. Torn(cur[d]).id = cur[d]
    BY Zenon DEF Torn
  <2>8. \A m \in queue' : m.text = "torn" => backend = "disk" /\ m = Torn(m.id)
    BY <1>t, <2>2, <2>7, Zenon DEF Files
  <2>9. ASSUME backend = "disk", NEW e \in Events, Stored(e) PROVE Stored(e)'
    <3>1. CASE e = cur[d]
      BY <2>2, <2>7, <2>9, <3>1, Zenon DEF Stored, MembersOf
    <3>2. CASE e # cur[d] /\ MembersOf(e) # {}
      BY <2>2, <2>3, <3>2, Zenon DEF Stored, MembersOf
    <3>3. CASE MembersOf(e) = {}
      BY <2>9, <3>3, <1>m, Zenon DEF Stored
    <3> QED BY <3>1, <3>2, <3>3, Zenon
  <2> QED BY <1>1, <2>1, <2>6, <2>8, <2>9, Zenon
<1>11. CASE Readd(d)
  <2>0. PICK c \in Events : c = cur[d]
    BY <1>11, <1>t, Zenon DEF Readd, Busy
  <2>1. dpc[d] = "readd" /\ dpc'[d] = "send"
    BY <1>11, <1>t, Zenon DEF Readd
  <2>2. CASE backend = "disk"
    <3>1. queue' = Fill(c)
      BY <1>11, <2>0, <2>2, Zenon DEF Readd
    <3>2. /\ MembersOf(c) # {} => Readable(c)'
          /\ \A f : Readable(f) => Readable(f)'
          /\ \A f : MembersOf(f) # {} => MembersOf(f)' # {}
          /\ \A m \in queue' : m.text = "torn" => m \in queue
      BY <1>t, <3>1, Filled, Zenon
    <3>3. \A e \in Events : Stored(e) => Stored(e)'
      BY <3>2, <1>m, Zenon DEF Stored
    <3>4. c \in acked => Kept(c)'
      <4>1. c \in acked => Stored(c)
        BY <1>t, <2>2, Zenon DEF Files, Written
      <4> QED BY <4>1, <3>2, <1>m, Zenon DEF Stored, Kept
    <3>5. \A e \in acked : Kept(e) => Kept(e)'
      BY <1>2, <1>h, <1>m, <1>t, <2>0, <3>2, <3>4, Zenon DEF Kept
    <3>6. \A m \in queue' : m.text = "torn" => backend = "disk" /\ m = Torn(m.id)
      BY <1>t, <3>2, Zenon DEF Files
    <3> QED BY <1>1, <2>1, <3>3, <3>5, <3>6, Zenon
  <2>3. CASE backend # "disk"
    <3>1. queue' = queue \cup {NewText(d)}
      BY <1>11, <2>3, Zenon DEF Readd
    <3>2. NewText(d).id = c /\ NewText(d).text = "whole"
      BY <2>0, Zenon DEF NewText
    <3>3. \A e : Readable(e) => Readable(e)'
      BY <3>1, Zenon DEF Readable, MembersOf
    <3>4. Readable(c)'
      BY <3>1, <3>2, Zenon DEF Readable, MembersOf
    <3>5. \A e \in acked : Kept(e) => Kept(e)'
      BY <1>2, <1>h, <1>m, <1>t, <2>0, <3>3, <3>4, Zenon DEF Kept
    <3>6. \A m \in queue' : m.text = "torn" => backend = "disk" /\ m = Torn(m.id)
      BY <1>t, <3>1, <3>2, Zenon DEF Files
    <3> QED BY <1>1, <2>1, <2>3, <3>5, <3>6, Zenon
  <2> QED BY <2>2, <2>3, Zenon
<1>12. CASE Delete(d)
  <2>1. dpc[d] \in {"delete", "remove"} /\ dpc'[d] = "next"
    BY <1>12, <1>t, Zenon DEF Delete
  <2>2. sends[cur[d]] > 0 \/ cur[d] \in excused
    BY <2>1, Zenon DEF LInv, Reasons
  <2>3. \A m \in queue \ queue' : m.id = cur[d]
    BY <1>12, Zenon DEF Delete, MembersOf, LInv, Reasons
  <2>4. queue' \subseteq queue
    BY <1>12, Zenon DEF Delete
  <2>5. \A e : Readable(e) => Readable(e)' \/ e = cur[d]
    BY <2>3, Zenon DEF Readable, MembersOf
  <2>6. \A e \in acked : Kept(e) => Kept(e)'
    BY <1>3, <2>1, <2>2, <2>5, Zenon
  <2>7. \A m \in queue' : m.text = "torn" => backend = "disk" /\ m = Torn(m.id)
    BY <1>t, <2>4, Zenon DEF Files
  <2>8. ASSUME NEW e \in Events, Stored(e) PROVE Stored(e)'
    <3>1. CASE e = cur[d]
      BY <2>2, <3>1, <1>m, Zenon DEF Stored
    <3>2. CASE e # cur[d] /\ MembersOf(e) # {}
      BY <2>3, <3>2, Zenon DEF Stored, MembersOf
    <3>3. CASE MembersOf(e) = {}
      BY <2>8, <3>3, <1>m, Zenon DEF Stored
    <3> QED BY <3>1, <3>2, <3>3, Zenon
  <2> QED BY <1>1, <2>1, <2>6, <2>7, <2>8, Zenon
<1>13. CASE WriteFault(d)
  <2>0. PICK c \in Events : c = cur[d]
    BY <1>13, <1>t, Zenon DEF WriteFault, Busy
  <2>1. backend = "disk" /\ dpc[d] = "readd" /\ dpc'[d] = "send" /\ queue' = queue
    BY <1>13, <1>t, Zenon DEF WriteFault, store
  <2>2. \A m \in queue : m.id = c /\ m.text = "torn" => c \in excused'
    BY <1>13, <2>0, Zenon DEF WriteFault, MembersOf
  <2>3. \A e : (Readable(e)' <=> Readable(e)) /\ MembersOf(e)' = MembersOf(e)
    BY <2>1, Zenon DEF Readable, MembersOf
  <2>4. c \in acked => Kept(c)'
    <3>1. c \in acked => Stored(c)
      BY <1>t, <2>1, Zenon DEF Files, Written
    <3>2. Torn(c) \in queue => c \in excused'
      BY <2>2, Zenon DEF Torn
    <3>3. MembersOf(c) # {} /\ Torn(c) \notin queue => Readable(c)
      BY <1>t, Texts, Zenon
    <3> QED BY <3>1, <3>2, <3>3, <2>3, <1>m, Zenon DEF Stored, Kept
  <2>5. \A e \in acked : Kept(e) => Kept(e)'
    BY <1>2, <1>h, <1>m, <1>t, <2>0, <2>3, <2>4, Zenon DEF Kept
  <2>6. \A m \in queue' : m.text = "torn" => backend = "disk" /\ m = Torn(m.id)
    BY <1>t, <2>1, Zenon DEF Files
  <2>7. \A e \in Events : Stored(e) => Stored(e)'
    BY <1>m, <2>3, Zenon DEF Stored
  <2> QED BY <1>1, <2>1, <2>5, <2>6, <2>7, Zenon
<1> QED BY <1>5, <1>6, <1>7, <1>8, <1>9, <1>10, <1>11, <1>12, <1>13, Zenon DEF Drain

\* The environment: the cascade of a deleted user excuses its events, and a crash
\* completes the rewrites under way on Redis and costs the files being written.
LEMMA EnvironmentLInv ==
    ASSUME backend' = backend, TInv, LInv, DeleteUser \/ Tick \/ Crash
    PROVE  LInv'
<1>t. acked \subseteq Events /\ Files /\ backend \in Backends
  BY Zenon DEF TInv, HistoryOK, StoreOK, LInv
<1>1. CASE DeleteUser
  <2>1. UNCHANGED <<epc, eev, dpc, cur, held, acked, sends, ignored>>
    BY <1>1, Zenon DEF DeleteUser, handler, drain
  <2>2. \/ queue' = queue /\ excused' = excused
        \/ queue' = {} /\ excused' = excused \cup {m.id : m \in queue}
    BY <1>1, Zenon DEF DeleteUser
  <2>3. \A e : Readable(e) => Readable(e)' \/ e \in excused'
    BY <2>2, Zenon DEF Readable, MembersOf
  <2>4. excused \subseteq excused' /\ queue' \subseteq queue
    BY <2>2, Zenon
  <2>5. \A e : BeingRewritten(e)' <=> BeingRewritten(e)
    BY <2>1, Zenon DEF BeingRewritten
  <2>6. NothingLost'
    BY <2>1, <2>3, <2>4, <2>5, Zenon DEF LInv, NothingLost
  <2>7. \A e : (Written(e)' <=> Written(e)) /\ (Stored(e) => Stored(e)')
    BY <2>1, <2>2, Zenon DEF Written, Stored, MembersOf
  <2>8. Files'
    BY <1>t, <2>1, <2>4, <2>7, Zenon DEF Files
  <2>9. Reasons'
    BY <2>1, <2>4, Zenon DEF LInv, Reasons
  <2> QED BY <2>6, <2>8, <2>9, Zenon DEF LInv
<1>2. CASE Tick
  <2>1. UNCHANGED <<queue, epc, eev, dpc, cur, held, acked, sends, excused, ignored>>
    BY <1>2, Zenon DEF Tick, store, handler, drain, history
  <2>2. \A e : (Readable(e)' <=> Readable(e)) /\ (BeingRewritten(e)' <=> BeingRewritten(e))
    BY <2>1, Zenon DEF Readable, MembersOf, BeingRewritten
  <2>3. NothingLost'
    BY <2>1, <2>2, Zenon DEF LInv, NothingLost
  <2>4. Files'
    BY <1>t, <2>1, Zenon DEF Files, Written, Stored, MembersOf
  <2> QED BY <2>1, <2>3, <2>4, Zenon DEF LInv, Reasons
<1>3. CASE Crash
  <2> DEFINE New == {NewText(d) : d \in {c \in Drains : dpc[c] = "readd"}}
  <2>1. UNCHANGED <<acked, sends, ignored>> /\ excused \subseteq excused'
    BY <1>3, Zenon DEF Crash
  <2>2. /\ backend = "redis" => queue' = queue \cup New
        /\ backend # "redis" => queue' = queue
    BY <1>3, Zenon DEF Crash
  <2>3. ASSUME NEW m \in New PROVE m.text = "whole"
    <3>1. PICK d \in Drains : m = NewText(d)
      BY Zenon
    <3>2. NewText(d).text = "whole"
      BY Zenon DEF NewText
    <3> QED BY <3>1, <3>2, Zenon
  <2>4. \A e : (Readable(e) => Readable(e)') /\ (MembersOf(e) # {} => MembersOf(e)' # {})
    BY <2>2, Zenon DEF Readable, MembersOf
  <2>5. ASSUME NEW e \in acked, BeingRewritten(e) PROVE Kept(e)'
    <3>1. PICK d \in Drains : dpc[d] = "readd" /\ cur[d] = e
      BY <2>5, Zenon DEF BeingRewritten
    <3>2. CASE backend = "redis"
      <4>1. NewText(d) \in queue' /\ NewText(d).id = e /\ NewText(d).text = "whole"
        BY <2>2, <3>1, <3>2, Zenon DEF NewText
      <4> QED BY <4>1, Zenon DEF Readable, MembersOf, Kept
    <3>3. CASE backend = "disk"
      <4>1. Stored(e)
        BY <1>t, <3>3, Zenon DEF Files, Written
      <4>2. Torn(e) \in queue => e \in excused'
        BY <1>3 DEF Crash, Torn
      <4>3. MembersOf(e) # {} /\ Torn(e) \notin queue => Readable(e)
        BY <1>t, Texts, Zenon
      <4> QED BY <4>1, <4>2, <4>3, <2>1, <2>4, Zenon DEF Stored, Kept
    <3>4. backend # "postgres"
      BY <3>1, Zenon DEF TInv, DrainOK
    <3> QED BY <3>2, <3>3, <3>4, <1>t, QueueAssumption, Zenon
  <2>6. NothingLost'
    <3>1. \A e \in acked : Kept(e)
      BY Zenon DEF LInv, NothingLost, Kept
    <3>2. \A e \in acked : Kept(e)'
      BY <3>1, <2>1, <2>4, <2>5, Zenon DEF Kept
    <3> QED BY <2>1, <3>2, Zenon DEF NothingLost, Kept
  <2>7. \A m \in queue' : m.text = "torn" => m \in queue
    BY <2>2, <2>3, Zenon
  <2>8. \A w \in Enqueuers : epc'[w] # "write"
    BY <1>3, Zenon DEF Crash
  <2>9. \A e : (Written(e)' => Written(e)) /\ (Stored(e) => Stored(e)')
    BY <2>1, <2>4, <2>8, Zenon DEF Written, Stored
  <2>10. Files'
    BY <1>t, <2>7, <2>8, <2>9, Zenon DEF Files
  <2>11. \A d \in Drains : dpc'[d] \notin {"delete", "remove", "rewrite"}
    BY <1>3, Zenon DEF Crash, Running
  <2> QED BY <2>6, <2>10, <2>11, Zenon DEF LInv, Reasons
<1> QED BY <1>1, <1>2, <1>3, Zenon

\* On every store an event that EnqueueScrobble accepted is in the queue, being
\* rewritten, sent, evicted, given up or cascaded away, whatever handlers, drains
\* with stale batches, failing calls and crashes do (on disk, but for a file whose
\* writing was cut short).
THEOREM NothingLostHolds == Spec => []NothingLost
<1>1. Init => LInv
  BY Zenon DEF Init, LInv, Reasons, Files, Written, NothingLost
<1>2. TInv /\ LInv /\ [Next]_vars => LInv'
  <2> SUFFICES ASSUME TInv, LInv, [Next]_vars PROVE LInv'
    BY Zenon
  <2>1. CASE UNCHANGED vars
    <3>1. UNCHANGED <<backend, queue, epc, eev, dpc, cur, held, acked, sends, excused, ignored>>
      BY <2>1, Zenon DEF vars, store, handler, drain, history
    <3>2. \A e : (Readable(e)' <=> Readable(e)) /\ (BeingRewritten(e)' <=> BeingRewritten(e))
      BY <3>1, Zenon DEF Readable, MembersOf, BeingRewritten
    <3>3. NothingLost'
      BY <3>1, <3>2, Zenon DEF LInv, NothingLost
    <3>4. Files'
      BY <3>1, Zenon DEF LInv, Files, Written, Stored, MembersOf
    <3> QED BY <3>1, <3>3, <3>4, Zenon DEF LInv, Reasons
  <2>2. backend' = backend
    BY StoreFixed, Zenon
  <2> QED BY <2>1, <2>2, EnqueueLInv, DrainLInv, EnvironmentLInv, Zenon DEF Next
<1>3. LInv => NothingLost
  BY Zenon DEF LInv
<1> QED BY <1>1, <1>2, <1>3, InitTInv, NextTInv, PTL DEF Spec

-----------------------------------------------------------------------------
\* Every event is enqueued by one handler, once: whoever is in the middle of
\* EnqueueScrobble has an event of its own that has not been accepted yet.
Once ==
    /\ acked \subseteq Begun
    /\ \A w \in Enqueuers : epc[w] # "idle" => eev[w] \in Begun \ acked
    /\ \A v, w \in Enqueuers :
           epc[v] # "idle" /\ epc[w] # "idle" /\ eev[v] = eev[w] => v = w
    /\ \A w \in Enqueuers : epc[w] = "write" => backend = "disk"

\* The steps of EnqueueScrobble keep it so.
LEMMA EnqueueOnce ==
    ASSUME TInv, Once, backend' = backend, NEW w \in Enqueuers, Enqueue(w)
    PROVE  Once'
<1>t. epc \in [Enqueuers -> {"idle", "check", "evict", "victim", "insert", "write"}]
      /\ eev \in [Enqueuers -> Events \cup {None}]
  BY Zenon DEF TInv, HandlerOK
<1>1. CASE \E e \in Events : Begin(w, e)
  <2> PICK e \in Events : Begin(w, e)
    BY <1>1, Zenon
  <2>1. e \notin Begun
    BY Zenon DEF Begin, Begun
  <2>2. Begun' = Begun \cup {e}
    <3>1. [sec |-> clock, seq |-> 1 + Cardinality(Begun)] # NoTime
      BY DEF TInv, BoundsOK, NoTime
    <3> QED BY <3>1, Zenon DEF Begin, Begun, TInv, StoreOK
  <2>3. acked' = acked /\ epc' = [epc EXCEPT ![w] = "check"] /\ eev' = [eev EXCEPT ![w] = e]
    BY Zenon DEF Begin, history
  <2>4. epc'[w] = "check" /\ eev'[w] = e
    BY <1>t, <2>3, Zenon
  <2>5. \A v \in Enqueuers : v # w => epc'[v] = epc[v] /\ eev'[v] = eev[v]
    BY <1>t, <2>3, Zenon
  <2>6. \A v \in Enqueuers : v # w /\ epc'[v] # "idle" => eev'[v] \in Begun \ acked
    BY <2>5, Zenon DEF Once
  <2>7. e \notin acked
    BY <2>1, Zenon DEF Once
  <2>8. \A u, v \in Enqueuers :
          epc'[u] # "idle" /\ epc'[v] # "idle" /\ eev'[u] = eev'[v] => u = v
    BY <2>1, <2>4, <2>5, <2>6, ZenonT(60) DEF Once
  <2>9. \A v \in Enqueuers : epc'[v] = "write" => backend = "disk"
    BY <2>4, <2>5, Zenon DEF Once
  <2>10. \A v \in Enqueuers : epc'[v] # "idle" => eev'[v] \in Begun' \ acked'
    <3>1. acked' = acked
      BY <2>3, Zenon
    <3> QED BY <2>2, <2>4, <2>6, <2>7, <3>1, Zenon
  <2>11. acked' \subseteq Begun'
    BY <2>2, <2>3, Zenon DEF Once
  <2> QED BY <2>8, <2>9, <2>10, <2>11, Zenon DEF Once
<1>2. ASSUME acked' = acked, created' = created, eev' = eev, epc[w] # "idle",
             NEW x, x = "write" => backend = "disk", epc' = [epc EXCEPT ![w] = x]
      PROVE  Once'
  BY <1>t, <1>2, Zenon DEF Once, Begun
<1>3. ASSUME acked' \subseteq acked \cup {eev[w]}, created' = created, epc[w] # "idle", Return(w)
      PROVE  Once'
  BY <1>t, <1>3, Zenon DEF Once, Begun, Return
<1>4. CASE CheckSize(w) \/ PopOldest(w) \/ DeleteVictim(w) \/ CapacityFault(w) \/ CreateFile(w)
  <2>1. acked' = acked /\ created' = created /\ eev' = eev /\ epc[w] # "idle"
        /\ \E x : (x = "write" => backend = "disk") /\ epc' = [epc EXCEPT ![w] = x]
    BY <1>4, Zenon DEF CheckSize, PopOldest, DeleteVictim, CapacityFault, CreateFile,
                       store, history
  <2> QED BY <1>2, <2>1, Zenon
<1>5. CASE ChooseVictim(w)
  <2>1. acked' = acked /\ created' = created /\ eev' = eev /\ epc[w] # "idle"
        /\ \E x : (x = "write" => backend = "disk") /\ epc' = [epc EXCEPT ![w] = x]
    BY <1>5, Zenon DEF ChooseVictim, store, history
  <2> QED BY <1>2, <2>1, Zenon
<1>6. CASE InsertRow(w) \/ AddMember(w) \/ WriteFile(w)
  <2>1. acked' \subseteq acked \cup {eev[w]} /\ created' = created /\ epc[w] # "idle" /\ Return(w)
    BY <1>6, Zenon DEF InsertRow, AddMember, WriteFile
  <2> QED BY <1>3, <2>1, Zenon
<1> QED BY <1>1, <1>4, <1>5, <1>6, Zenon DEF Enqueue

\* So do all the other steps.
LEMMA OnceStep == TInv /\ Once /\ [Next]_vars => Once'
<1> SUFFICES ASSUME TInv, Once, [Next]_vars PROVE Once'
  BY Zenon
<1>b. backend' = backend
  BY StoreFixed, Zenon
<1>1. ASSUME UNCHANGED <<acked, created, handler>> PROVE Once'
  BY <1>1, <1>b, Zenon DEF Once, Begun, handler
<1>2. ASSUME NEW d \in Drains, Drain(d) PROVE UNCHANGED <<acked, created, handler>>
  BY <1>2, Zenon DEF Drain, StartDrain, Dequeue, DequeueFault, NextEvent, SendAccepted,
              SendTransient, SendPermanent, FindForUpdate, Rewrite, Readd, FindForDelete,
              Delete, StoreFault, WriteFault, store, history
<1>3. DeleteUser \/ Tick \/ UNCHANGED vars => UNCHANGED <<acked, created, handler>>
  BY Zenon DEF DeleteUser, Tick, vars, store, history
<1>4. CASE Crash
  BY <1>4, Zenon DEF Crash, Once, Begun
<1> QED BY <1>1, <1>2, <1>3, <1>4, <1>b, EnqueueOnce, Zenon DEF Next

\* On PostgreSQL the only statement that adds a row is the insertion of a handler.
LEMMA Additions ==
    ASSUME TInv, Once, backend = "postgres", [Next]_vars
    PROVE  \/ queue' \subseteq queue
           \/ \E w \in Enqueuers : /\ epc[w] = "insert" /\ eev[w] \in acked'
                                   /\ queue' \subseteq queue \cup {Fresh(eev[w])}
<1>1. ASSUME NEW w \in Enqueuers, Enqueue(w)
      PROVE  \/ queue' \subseteq queue
             \/ /\ epc[w] = "insert" /\ eev[w] \in acked'
                /\ queue' \subseteq queue \cup {Fresh(eev[w])}
  <2>1. epc[w] # "write"
    BY Zenon DEF Once
  <2>2. CASE PopOldest(w) \/ AddMember(w) \/ CreateFile(w) \/ WriteFile(w)
    BY <2>1, <2>2, Zenon DEF PopOldest, AddMember, CreateFile, WriteFile
  <2>3. CASE ChooseVictim(w)
    BY <2>3, Zenon DEF ChooseVictim, store
  <2>4. CASE InsertRow(w)
    BY <2>4, Zenon DEF InsertRow
  <2>5. CASE \E e \in Events : Begin(w, e)
    BY <2>5, Zenon DEF Begin
  <2>6. CASE CheckSize(w) \/ DeleteVictim(w) \/ CapacityFault(w)
    BY <2>6, Zenon DEF CheckSize, DeleteVictim, CapacityFault, store
  <2> QED BY <1>1, <2>2, <2>3, <2>4, <2>5, <2>6, Zenon DEF Enqueue
<1>2. ASSUME NEW d \in Drains, Drain(d) PROVE queue' \subseteq queue
  <2>1. dpc[d] \notin {"rewrite", "readd"}
    BY Zenon DEF TInv, DrainOK
  <2>2. CASE Delete(d)
    BY <2>2, Zenon DEF Delete
  <2>3. CASE Rewrite(d) \/ Readd(d)
    BY <2>1, <2>3, Zenon DEF Rewrite, Readd
  <2>4. ~(Delete(d) \/ Rewrite(d) \/ Readd(d)) => queue' = queue
    BY <1>2, Zenon DEF Drain, StartDrain, Dequeue, DequeueFault, NextEvent, SendAccepted,
              SendTransient, SendPermanent, FindForUpdate, FindForDelete, StoreFault,
              WriteFault, store
  <2> QED BY <2>2, <2>3, <2>4, Zenon
<1>3. DeleteUser \/ Tick \/ Crash \/ UNCHANGED vars => queue' \subseteq queue
  BY Zenon DEF DeleteUser, Tick, Crash, vars, store
<1> QED BY <1>1, <1>2, <1>3, Zenon DEF Next

\* An accepted event whose row is gone does not get a row again.
LEMMA Gone ==
    ASSUME TInv, Once, backend = "postgres", [Next]_vars, NEW e \in acked, MembersOf(e) = {}
    PROVE  MembersOf(e)' = {}
<1> SUFFICES ASSUME NEW m \in queue', m.id = e PROVE FALSE
  BY Zenon DEF MembersOf
<1>1. \A f : Fresh(f).id = f
  BY DEF Fresh
<1>2. m \notin queue
  BY Zenon DEF MembersOf
<1>3. PICK w \in Enqueuers : epc[w] = "insert" /\ m = Fresh(eev[w])
  BY <1>2, Additions, Zenon
<1>4. eev[w] \notin acked
  BY <1>3, Zenon DEF Once
<1> QED BY <1>1, <1>3, <1>4, Zenon

\* A deleted row stays away on PostgreSQL: what is inserted is always new, and no
\* update of a retry count, however stale the drain that makes it, puts a row back.
THEOREM NoResurrectionHolds == Spec => NoResurrection
<1> DEFINE Stays == backend = "postgres" =>
               \A e \in acked : MembersOf(e) = {} => e \notin {m.id : m \in queue'}
<1>1. Init => Once
  BY ZenonT(60) DEF Init, Once, Begun
<1>2. TInv /\ Once /\ [Next]_vars => [Stays]_vars
  BY Gone, Zenon DEF MembersOf
<1> QED BY <1>1, <1>2, InitTInv, NextTInv, OnceStep, PTL DEF Spec, NoResurrection

-----------------------------------------------------------------------------
\* What PostgreSQL holds and what the drains read from it: one untouched row for
\* an accepted event, which a drain takes from its batch before it sends it.
OwnRow(m) == m.id \in acked /\ m = Fresh(m.id)

Rows == backend = "postgres" =>
    /\ \A m \in queue : OwnRow(m)
    /\ \A d \in Drains : \A m \in batch[d] : OwnRow(m)
    /\ \A d \in Drains : dpc[d] \in Busy => cur[d] \in acked /\ Fresh(cur[d]) \notin batch[d]
    /\ \A d \in Drains : dpc[d] # "remove"
    /\ \A e \in Events : sends[e] # 0 => e \in acked

\* Drain d cannot send event e again, unless the deletion it is at fails: it is
\* over, or it has no copy of e left and the row of e is gone, or it has sent e
\* and is about to delete it.
Past(d, e) ==
    \/ dpc[d] = "done"
    \/ /\ dpc[d] # "new"
       /\ Fresh(e) \notin batch[d]
       /\ IF dpc[d] \in Busy /\ cur[d] = e THEN dpc[d] = "delete" ELSE MembersOf(e) = {}

Spent(e) == {d \in Drains : Past(d, e)}

\* Each acceptance by Trakt is explained by a drain that is past the event, or by
\* a failing call.
Counted == backend = "postgres" =>
    \A e \in Events : sends[e] <= Cardinality(Spent(e)) + faults

\* A step of one drain leaves the others where they are.
LEMMA Elsewhere ==
    ASSUME TInv, NEW d \in Drains, Drain(d), NEW c \in Drains, c # d
    PROVE  dpc'[c] = dpc[c] /\ batch'[c] = batch[c] /\ cur'[c] = cur[c]
<1>t. dpc \in [Drains -> {"new", "dequeue", "next", "done"} \cup Busy]
      /\ batch \in [Drains -> SUBSET Member] /\ cur \in [Drains -> Events \cup {None}]
  BY Zenon DEF TInv, DrainOK
<1>1. CASE StartDrain(d) \/ DequeueFault(d)
  BY <1>t, <1>1, Zenon DEF StartDrain, DequeueFault
<1>2. CASE Dequeue(d)
  BY <1>t, <1>2, Zenon DEF Dequeue
<1>3. CASE NextEvent(d)
  BY <1>t, <1>3, Zenon DEF NextEvent
<1>4. CASE SendAccepted(d) \/ SendTransient(d) \/ SendPermanent(d)
  BY <1>t, <1>4, Zenon DEF SendAccepted, SendTransient, SendPermanent
<1>5. CASE FindForUpdate(d) \/ Rewrite(d) \/ Readd(d)
  BY <1>t, <1>5, Zenon DEF FindForUpdate, Rewrite, Readd
<1>6. CASE FindForDelete(d) \/ Delete(d)
  BY <1>t, <1>6, Zenon DEF FindForDelete, Delete
<1>7. CASE StoreFault(d) \/ WriteFault(d)
  BY <1>t, <1>7, Zenon DEF StoreFault, WriteFault
<1> QED BY <1>1, <1>2, <1>3, <1>4, <1>5, <1>6, <1>7, Zenon DEF Drain

\* What has been accepted stays so, and only Trakt's answer to a drain counts.
LEMMA Accepted ==
    ASSUME [Next]_vars
    PROVE  /\ acked \subseteq acked'
           /\ sends' = sends \/ \E d \in Drains : SendAccepted(d)
<1>1. ASSUME NEW w \in Enqueuers, Enqueue(w) PROVE acked \subseteq acked' /\ sends' = sends
  BY <1>1, Zenon DEF Enqueue, Begin, CheckSize, PopOldest, ChooseVictim, DeleteVictim,
              CapacityFault, InsertRow, AddMember, CreateFile, WriteFile, history
<1>2. ASSUME NEW d \in Drains, Drain(d)
      PROVE  acked' = acked /\ (sends' = sends \/ SendAccepted(d))
  BY <1>2, Zenon DEF Drain, StartDrain, Dequeue, DequeueFault, NextEvent, SendAccepted,
              SendTransient, SendPermanent, FindForUpdate, Rewrite, Readd, FindForDelete,
              Delete, StoreFault, WriteFault, history
<1>3. DeleteUser \/ Tick \/ Crash \/ UNCHANGED vars => acked' = acked /\ sends' = sends
  BY Zenon DEF DeleteUser, Tick, Crash, vars, history
<1> QED BY <1>1, <1>2, <1>3, Zenon DEF Next

\* The steps of a drain on PostgreSQL, as far as its batch and its event go.
Reads(d) == /\ dpc[d] \in {"new", "dequeue"} /\ dpc'[d] \in {"dequeue", "next", "done"}
            /\ dpc'[d] = "dequeue" => dpc[d] = "new"
            /\ batch'[d] = batch[d] \/ batch'[d] \subseteq queue
Takes(d) == /\ dpc[d] = "next" /\ dpc'[d] = "send"
            /\ \E m \in batch[d] : batch'[d] = batch[d] \ {m} /\ cur'[d] = m.id
Turns(d) == dpc[d] = "next" /\ dpc'[d] = "dequeue" /\ batch'[d] = batch[d]
Sends(d) == /\ dpc[d] \in {"send", "update"} /\ dpc'[d] \in {"send", "update", "delete"}
            /\ batch'[d] = batch[d] /\ cur'[d] = cur[d]
Erases(d) == /\ dpc[d] = "delete" /\ dpc'[d] = "next" /\ batch'[d] = batch[d]
             /\ (\A m \in queue' : m.id # cur[d]) \/ StoreFault(d)

LEMMA OwnStep ==
    ASSUME TInv, Rows, backend = "postgres", NEW d \in Drains, Drain(d)
    PROVE  Reads(d) \/ Takes(d) \/ Turns(d) \/ Sends(d) \/ Erases(d)
<1>t. dpc \in [Drains -> {"new", "dequeue", "next", "done"} \cup Busy]
      /\ batch \in [Drains -> SUBSET Member] /\ cur \in [Drains -> Events \cup {None}]
  BY Zenon DEF TInv, DrainOK
<1>p. dpc[d] \notin {"rewrite", "readd", "remove"}
  BY Zenon DEF TInv, DrainOK, Rows
<1>1. CASE StartDrain(d) \/ DequeueFault(d)
  BY <1>t, <1>1, Zenon DEF StartDrain, DequeueFault, Reads
<1>2. CASE Dequeue(d)
  <2>1. PICK S \in SUBSET queue : batch' = [batch EXCEPT ![d] = {m \in S : m.text = "whole"}]
    BY <1>2, Zenon DEF Dequeue
  <2>2. batch'[d] \subseteq queue
    BY <1>t, <2>1, Zenon
  <2>3. dpc[d] = "dequeue" /\ dpc'[d] \in {"next", "done"}
    BY <1>t, <1>2, Zenon DEF Dequeue
  <2> QED BY <2>2, <2>3, Zenon DEF Reads
<1>3. CASE NextEvent(d)
  BY <1>t, <1>3, Zenon DEF NextEvent, Takes, Turns
<1>4. CASE SendAccepted(d) \/ SendTransient(d) \/ SendPermanent(d)
  BY <1>t, <1>4, Zenon DEF SendAccepted, SendTransient, SendPermanent, Sends
<1>5. CASE FindForUpdate(d)
  BY <1>t, <1>5, Zenon DEF FindForUpdate, Sends
<1>6. CASE Rewrite(d) \/ Readd(d) \/ FindForDelete(d) \/ WriteFault(d)
  BY <1>p, <1>6, Zenon DEF Rewrite, Readd, FindForDelete, WriteFault
<1>7. CASE Delete(d)
  <2>1. queue' = queue \ MembersOf(cur[d]) /\ cur[d] \in Events
    BY <1>7, Zenon DEF Delete, TInv, DrainOK, Busy
  <2>2. \A m \in queue' : m.id # cur[d]
    BY <2>1, Zenon DEF MembersOf
  <2> QED BY <1>t, <1>7, <2>2, Zenon DEF Delete, Erases
<1>8. CASE StoreFault(d)
  BY <1>t, <1>p, <1>8, Zenon DEF StoreFault, Sends, Erases
<1> QED BY <1>1, <1>2, <1>3, <1>4, <1>5, <1>6, <1>7, <1>8, Zenon DEF Drain

\* What a drain that does not move can see of a step.
LEMMA Still ==
    ASSUME TInv, [Next]_vars, NEW c \in Drains, ~Drain(c), ~Crash
    PROVE  dpc'[c] = dpc[c] /\ batch'[c] = batch[c] /\ cur'[c] = cur[c]
<1>1. ASSUME NEW w \in Enqueuers, Enqueue(w) PROVE UNCHANGED drain
  BY <1>1, Zenon DEF Enqueue, Begin, CheckSize, PopOldest, ChooseVictim, DeleteVictim,
              CapacityFault, InsertRow, AddMember, CreateFile, WriteFile
<1>2. DeleteUser \/ Tick \/ UNCHANGED vars => UNCHANGED drain
  BY Zenon DEF DeleteUser, Tick, vars
<1>3. UNCHANGED drain => dpc'[c] = dpc[c] /\ batch'[c] = batch[c] /\ cur'[c] = cur[c]
  BY Zenon DEF drain
<1> QED BY <1>1, <1>2, <1>3, Elsewhere, Zenon DEF Next

\* Rows is kept by every step.
LEMMA RowsStep == TInv /\ Once /\ Rows /\ [Next]_vars => Rows'
<1> SUFFICES ASSUME TInv, Once, Rows, [Next]_vars, backend' = "postgres" PROVE Rows'
  BY Zenon DEF Rows
<1>b. backend = "postgres"
  BY StoreFixed, Zenon
<1>i. \A e : Fresh(e).id = e
  BY DEF Fresh
<1>o. \A m : OwnRow(m) => OwnRow(m)'
  BY Accepted, Zenon DEF OwnRow
<1>1. \A m \in queue' : OwnRow(m)'
  <2>1. ASSUME NEW m \in queue', m \notin queue PROVE OwnRow(m)'
    <3>1. PICK w \in Enqueuers : eev[w] \in acked' /\ m = Fresh(eev[w])
      BY <1>b, <2>1, Additions, Zenon
    <3> QED BY <1>i, <3>1, Zenon DEF OwnRow
  <2> QED BY <1>b, <1>o, <2>1, Zenon DEF Rows
<1>2. ASSUME NEW d \in Drains
      PROVE  /\ \A m \in batch'[d] : OwnRow(m)'
             /\ dpc'[d] \in Busy => cur'[d] \in acked' /\ Fresh(cur'[d]) \notin batch'[d]
             /\ dpc'[d] # "remove"
  <2>r. /\ \A m \in queue : OwnRow(m)
        /\ \A m \in batch[d] : OwnRow(m)
        /\ dpc[d] \in Busy => cur[d] \in acked /\ Fresh(cur[d]) \notin batch[d]
        /\ dpc[d] # "remove"
    BY <1>b, Zenon DEF Rows
  <2>1. CASE Crash
    <3>1. batch'[d] = {} /\ dpc'[d] = IF Running(d) THEN "done" ELSE dpc[d]
      BY <2>1, Zenon DEF Crash
    <3> QED BY <3>1, Zenon DEF Running, Busy
  <2>2. CASE ~Drain(d) /\ ~Crash
    BY <1>o, <2>r, <2>2, Still, Accepted, Zenon
  <2>3. CASE Drain(d)
    <3>1. CASE Reads(d) \/ Turns(d)
      BY <1>o, <2>r, <3>1, Zenon DEF Reads, Turns, Busy
    <3>2. CASE Takes(d)
      <4>1. PICK m \in batch[d] : batch'[d] = batch[d] \ {m} /\ cur'[d] = m.id
        BY <3>2, Zenon DEF Takes
      <4>2. m.id \in acked /\ m = Fresh(m.id)
        BY <2>r, Zenon DEF OwnRow
      <4>3. cur'[d] \in acked' /\ Fresh(cur'[d]) \notin batch'[d]
        BY <4>1, <4>2, Accepted, Zenon
      <4> QED BY <1>o, <2>r, <3>2, <4>1, <4>3, Zenon DEF Takes
    <3>3. CASE Sends(d)
      BY <1>o, <2>r, <3>3, Accepted, Zenon DEF Sends, Busy
    <3>4. CASE Erases(d)
      BY <1>o, <2>r, <3>4, Zenon DEF Erases, Busy
    <3> QED BY <1>b, <2>3, <3>1, <3>2, <3>3, <3>4, OwnStep, Zenon
  <2> QED BY <2>1, <2>2, <2>3, Zenon
<1>3. ASSUME NEW e \in Events, sends'[e] # 0 PROVE e \in acked'
  <2>1. CASE sends' = sends
    BY <1>b, <1>3, <2>1, Accepted, Zenon DEF Rows
  <2>2. ASSUME NEW d \in Drains, SendAccepted(d) PROVE e \in acked'
    <3>1. cur[d] \in acked
      BY <1>b, <2>2, Zenon DEF SendAccepted, Rows, Busy
    <3>2. e # cur[d] => sends'[e] = sends[e]
      BY <2>2, Zenon DEF SendAccepted, TInv, HistoryOK
    <3> QED BY <1>b, <1>3, <3>1, <3>2, Accepted, Zenon DEF Rows
  <2> QED BY <2>1, <2>2, Accepted, Zenon
<1> QED BY <1>1, <1>2, <1>3, Zenon DEF Rows

\* A drain past an event stays past it, unless it fails to delete it.
LEMMA PastStays ==
    ASSUME TInv, Once, Rows, backend = "postgres", [Next]_vars, NEW d \in Drains, NEW e \in acked,
           Past(d, e), ~(StoreFault(d) /\ dpc[d] = "delete" /\ cur[d] = e)
    PROVE  Past(d, e)'
<1>g. MembersOf(e) = {} => MembersOf(e)' = {}
  BY Gone, Zenon
<1>1. CASE Crash
  <2>1. dpc'[d] = IF Running(d) THEN "done" ELSE dpc[d]
    BY <1>1, Zenon DEF Crash
  <2>2. dpc[d] # "new"
    BY Zenon DEF Past
  <2> QED BY <2>1, <2>2, Zenon DEF Running, Past
<1>2. CASE ~Drain(d) /\ ~Crash
  <2>1. dpc'[d] = dpc[d] /\ batch'[d] = batch[d] /\ cur'[d] = cur[d]
    BY <1>2, Still, Zenon
  <2> QED BY <1>g, <2>1, Zenon DEF Past
<1>3. CASE Drain(d)
  <2>i. Fresh(e).id = e
    BY DEF Fresh
  <2>1. CASE Reads(d)
    <3>1. dpc[d] = "dequeue" /\ dpc'[d] \in {"next", "done"}
      BY <2>1, Zenon DEF Reads, Past
    <3>2. Fresh(e) \notin batch[d] /\ MembersOf(e) = {}
      BY <3>1, Zenon DEF Past, Busy
    <3>3. Fresh(e) \notin queue
      BY <2>i, <3>2, Zenon DEF MembersOf
    <3>4. Fresh(e) \notin batch'[d]
      BY <2>1, <3>2, <3>3, Zenon DEF Reads
    <3> QED BY <1>g, <3>1, <3>2, <3>4, Zenon DEF Past, Busy
  <2>2. CASE Takes(d) \/ Turns(d)
    <3>1. dpc[d] = "next" /\ dpc'[d] \in {"send", "dequeue"}
      BY <2>2, Zenon DEF Takes, Turns
    <3>2. Fresh(e) \notin batch[d] /\ MembersOf(e) = {}
      BY <3>1, Zenon DEF Past, Busy
    <3>3. CASE Turns(d)
      BY <1>g, <3>2, <3>3, Zenon DEF Turns, Past, Busy
    <3>4. CASE Takes(d)
      <4>1. PICK m \in batch[d] : batch'[d] = batch[d] \ {m} /\ cur'[d] = m.id
        BY <3>4, Zenon DEF Takes
      <4>2. cur'[d] # e
        BY <3>2, <4>1, Zenon DEF Rows, OwnRow
      <4> QED BY <1>g, <3>1, <3>2, <4>1, <4>2, Zenon DEF Past
    <3> QED BY <2>2, <3>3, <3>4, Zenon
  <2>3. CASE Sends(d)
    <3>1. Fresh(e) \notin batch[d] /\ cur[d] # e /\ MembersOf(e) = {}
      BY <2>3, Zenon DEF Sends, Past, Busy
    <3> QED BY <1>g, <2>3, <3>1, Zenon DEF Sends, Past
  <2>4. CASE Erases(d)
    <3>1. Fresh(e) \notin batch[d]
      BY <2>4, Zenon DEF Erases, Past
    <3>2. MembersOf(e)' = {}
      <4>1. CASE cur[d] = e
        BY <2>4, <4>1, Zenon DEF Erases, MembersOf
      <4>2. CASE cur[d] # e
        BY <1>g, <2>4, <4>2, Zenon DEF Erases, Past
      <4> QED BY <4>1, <4>2, Zenon
    <3> QED BY <2>4, <3>1, <3>2, Zenon DEF Erases, Past, Busy
  <2> QED BY <1>3, <2>1, <2>2, <2>3, <2>4, OwnStep, Zenon
<1> QED BY <1>1, <1>2, <1>3, Zenon

\* Failing calls are counted, and are not forgotten.
LEMMA FaultsGrow ==
    ASSUME TInv, [Next]_vars
    PROVE  /\ faults \in Nat /\ faults' \in Nat /\ faults <= faults'
           /\ \A d \in Drains : StoreFault(d) => faults' = faults + 1
<1>1. faults \in Nat
  BY QueueAssumption DEF TInv, BoundsOK
<1>2. faults' = faults \/ faults' = faults + 1
  <2>1. ASSUME NEW w \in Enqueuers, Enqueue(w) PROVE faults' = faults \/ faults' = faults + 1
    BY <2>1, Zenon DEF Enqueue, Begin, CheckSize, PopOldest, ChooseVictim, DeleteVictim,
              CapacityFault, InsertRow, AddMember, CreateFile, WriteFile, bounds
  <2>2. ASSUME NEW d \in Drains, Drain(d) PROVE faults' = faults \/ faults' = faults + 1
    BY <2>2, Zenon DEF Drain, StartDrain, Dequeue, DequeueFault, NextEvent, SendAccepted,
              SendTransient, SendPermanent, FindForUpdate, Rewrite, Readd, FindForDelete,
              Delete, StoreFault, WriteFault, bounds
  <2>3. DeleteUser \/ Tick \/ Crash \/ UNCHANGED vars => faults' = faults
    BY Zenon DEF DeleteUser, Tick, Crash, vars, bounds
  <2> QED BY <2>1, <2>2, <2>3, Zenon DEF Next
<1>3. \A d \in Drains : StoreFault(d) => faults' = faults + 1
  BY Zenon DEF StoreFault
<1> QED BY <1>1, <1>2, <1>3

\* The count is kept by every step.
LEMMA CountedStep == TInv /\ Once /\ Rows /\ Counted /\ [Next]_vars => Counted'
<1> SUFFICES ASSUME TInv, Once, Rows, Counted, [Next]_vars, backend' = "postgres", NEW e \in Events
             PROVE  sends'[e] <= Cardinality(Spent(e)') + faults'
  BY Zenon DEF Counted
<1>b. backend = "postgres"
  BY StoreFixed, Zenon
<1>f. /\ IsFiniteSet(Spent(e)) /\ IsFiniteSet(Spent(e)')
      /\ Cardinality(Spent(e)) \in Nat /\ Cardinality(Spent(e)') \in Nat
  <2>1. Spent(e) \subseteq Drains /\ Spent(e)' \subseteq Drains
    BY Zenon DEF Spent
  <2> QED BY <2>1, QueueAssumption, FS_Subset, FS_CardinalityType, Zenon
<1>s. sends[e] \in Nat /\ sends[e] <= Cardinality(Spent(e)) + faults
  <2>1. sends[e] \in 0..MaxSends /\ MaxSends \in Nat
    BY QueueAssumption, Zenon DEF TInv, HistoryOK
  <2>2. sends[e] <= Cardinality(Spent(e)) + faults
    BY <1>b, Zenon DEF Counted
  <2> QED BY <2>1, <2>2
<1>1. CASE e \notin acked
  <2>1. sends[e] = 0
    BY <1>b, <1>1, Zenon DEF Rows
  <2>2. ASSUME NEW d \in Drains, SendAccepted(d) PROVE cur[d] # e
    BY <1>b, <1>1, <2>2, Zenon DEF SendAccepted, Rows, Busy
  <2>3. sends'[e] = sends[e]
    BY <2>2, Accepted, Zenon DEF SendAccepted, TInv, HistoryOK
  <2> QED BY <1>f, <2>1, <2>3, FaultsGrow
<1>2. CASE e \in acked /\ \E d \in Drains : StoreFault(d) /\ dpc[d] = "delete" /\ cur[d] = e
  <2>1. PICK d \in Drains : StoreFault(d) /\ dpc[d] = "delete" /\ cur[d] = e
    BY <1>2, Zenon
  <2>2. sends' = sends
    BY <2>1, Zenon DEF StoreFault, history
  <2>3. \A c \in Drains : StoreFault(c) /\ dpc[c] = "delete" => c = d
    <3>1. SUFFICES ASSUME NEW c \in Drains, StoreFault(c), dpc[c] = "delete", c # d PROVE FALSE
      BY Zenon
    <3>2. dpc'[c] = dpc[c]
      BY <2>1, <3>1, Elsewhere, Zenon DEF Drain
    <3> QED BY <3>1, <3>2, Zenon DEF StoreFault, TInv, DrainOK
  <2>4. Spent(e) \ {d} \subseteq Spent(e)'
    BY <1>2, <1>b, <2>3, PastStays, Zenon DEF Spent
  <2>5. Cardinality(Spent(e) \ {d}) >= Cardinality(Spent(e)) - 1
    <3>1. Cardinality(Spent(e) \ {d}) = Cardinality(Spent(e)) - 1
          \/ Cardinality(Spent(e) \ {d}) = Cardinality(Spent(e))
      BY <1>f, FS_RemoveElement, Zenon
    <3> QED BY <1>f, <3>1
  <2>6. Cardinality(Spent(e) \ {d}) <= Cardinality(Spent(e)') /\ Cardinality(Spent(e) \ {d}) \in Nat
    BY <1>f, <2>4, FS_Subset, FS_CardinalityType, Zenon
  <2> QED BY <1>f, <1>s, <2>1, <2>2, <2>5, <2>6, FaultsGrow
<1>3. CASE e \in acked /\ ~\E d \in Drains : StoreFault(d) /\ dpc[d] = "delete" /\ cur[d] = e
  <2>1. Spent(e) \subseteq Spent(e)'
    BY <1>3, <1>b, PastStays, Zenon DEF Spent
  <2>2. Cardinality(Spent(e)) <= Cardinality(Spent(e)')
    BY <1>f, <2>1, FS_Subset, Zenon
  <2>3. CASE sends'[e] = sends[e]
    BY <1>f, <1>s, <2>2, <2>3, FaultsGrow, SMTT(30)
  <2>4. ASSUME NEW d \in Drains, SendAccepted(d), cur[d] = e
        PROVE  sends'[e] <= Cardinality(Spent(e)') + faults'
    <3>1. d \notin Spent(e)
      BY <2>4, Zenon DEF SendAccepted, Spent, Past, Busy
    <3>2. d \in Spent(e)'
      <4>1. dpc'[d] = "delete" /\ batch'[d] = batch[d] /\ cur'[d] = e
        BY <2>4, Zenon DEF SendAccepted, TInv, DrainOK
      <4>2. Fresh(e) \notin batch[d]
        BY <1>b, <2>4, Zenon DEF SendAccepted, Rows, Busy
      <4> QED BY <4>1, <4>2, Zenon DEF Spent, Past, Busy
    <3>3. Spent(e) \cup {d} \subseteq Spent(e)'
      BY <2>1, <3>2, Zenon
    <3>4. Cardinality(Spent(e) \cup {d}) = Cardinality(Spent(e)) + 1
      BY <1>f, <3>1, FS_AddElement, Zenon
    <3>5. Cardinality(Spent(e) \cup {d}) <= Cardinality(Spent(e)')
      BY <1>f, <3>3, FS_Subset, Zenon
    <3>6. sends'[e] = sends[e] + 1
      BY <2>4, Zenon DEF SendAccepted, TInv, HistoryOK
    <3> QED BY <1>f, <1>s, <3>4, <3>5, <3>6, FaultsGrow
  <2>5. sends'[e] = sends[e] \/ \E d \in Drains : SendAccepted(d) /\ cur[d] = e
    BY Accepted, Zenon DEF SendAccepted, TInv, HistoryOK
  <2> QED BY <2>3, <2>4, <2>5, Zenon
<1> QED BY <1>1, <1>2, <1>3, Zenon

\* On PostgreSQL Trakt accepts an event no more often than there are drains that
\* started and failing store calls, although drains share the queue and each sends
\* from a batch that may be stale.
THEOREM DuplicatesHold == Spec => []DuplicatesAreExplained
<1>1. Init => Once /\ Rows
  BY ZenonT(60) DEF Init, Once, Begun, Rows, Busy
<1>2. Init => Counted
  <2> SUFFICES ASSUME Init, NEW e \in Events PROVE sends[e] <= Cardinality(Spent(e)) + faults
    BY Zenon DEF Counted
  <2>1. Spent(e) = {}
    BY Zenon DEF Init, Spent, Past
  <2>2. Cardinality(Spent(e)) = 0 /\ sends[e] = 0 /\ faults = 0
    BY <2>1, FS_EmptySet, Zenon DEF Init
  <2> QED BY <2>2
<1>3. TInv /\ Counted => DuplicatesAreExplained
  <2> SUFFICES ASSUME TInv, Counted, backend = "postgres", NEW e \in Events
               PROVE  sends[e] <= Cardinality({d \in Drains : dpc[d] # "new"}) + faults
    BY Zenon DEF DuplicatesAreExplained
  <2> DEFINE Started == {d \in Drains : dpc[d] # "new"}
  <2>1. IsFiniteSet(Started)
    BY QueueAssumption, FS_Subset, Zenon
  <2>2. Spent(e) \subseteq Started
    BY Zenon DEF Spent, Past
  <2>3. Cardinality(Spent(e)) <= Cardinality(Started)
    BY <2>1, <2>2, FS_Subset, Zenon
  <2>4. Cardinality(Started) \in Nat /\ Cardinality(Spent(e)) \in Nat
    BY <2>1, <2>2, FS_Subset, FS_CardinalityType, Zenon
  <2>5. sends[e] \in 0..MaxSends /\ MaxSends \in Nat /\ faults \in 0..MaxFaults
    BY QueueAssumption, Zenon DEF TInv, HistoryOK, BoundsOK
  <2>6. sends[e] <= Cardinality(Spent(e)) + faults
    BY Zenon DEF Counted
  <2> HIDE DEF Started
  <2> QED BY <2>3, <2>4, <2>5, <2>6 DEF Started
<1> QED BY <1>1, <1>2, <1>3, InitTInv, NextTInv, OnceStep, RowsStep, CountedStep, PTL DEF Spec
=============================================================================
