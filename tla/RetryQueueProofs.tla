-------------------------- MODULE RetryQueueProofs --------------------------
(***************************************************************************)
(* Proofs that the retry queue keeps its safety properties for every       *)
(* number of items, members and workers and every attempt ceiling.  The    *)
(* properties are inductive together (IInv), but DuplicatesAreExplained,   *)
(* which is counted against the workers that are past an item (Counted).   *)
(***************************************************************************)
EXTENDS RetryQueue, FiniteSetTheorems, TLAPS

\* The inductive invariant: the properties, and what the workers carry.
IInv ==
    /\ TypeOK
    /\ CarriedStateIsSound
    /\ CeilingAgrees
    /\ GivingUpIsEarned
    /\ NothingLost

USE RetryAssumption DEF Procs, Live, Status, Row, NoRow, Snapshot, NoItem, Busy,
                        table, local, history, bounds

\* The empty table with idle workers satisfies the invariant.
LEMMA InitIInv == Init => IInv
BY DEF Init, IInv, TypeOK, CarriedStateIsSound, CeilingAgrees,
       GivingUpIsEarned, NothingLost

\* The steps on the table that no worker takes: INSERT, cascading DELETE, time.
LEMMA TableSteps ==
    ASSUME IInv,
           \/ \E i \in Items, m \in Members, due \in BOOLEAN : EnqueueRetryItem(i, m, due)
           \/ \E m \in Members : RemoveGroupMember(m)
           \/ \E i \in Items : BecomeDue(i)
    PROVE  IInv'
<1> USE DEF IInv
<1>1. ASSUME NEW i \in Items, NEW m \in Members, NEW due \in BOOLEAN,
             EnqueueRetryItem(i, m, due)
      PROVE  IInv'
  <2> USE <1>1 DEF EnqueueRetryItem
  <2>1. TypeOK'  BY SMTT(30) DEF TypeOK
  <2>2. CarriedStateIsSound'  BY DEF TypeOK, CarriedStateIsSound
  <2>3. CeilingAgrees' /\ GivingUpIsEarned' /\ NothingLost'
    BY DEF TypeOK, CeilingAgrees, GivingUpIsEarned, NothingLost
  <2> QED BY <2>1, <2>2, <2>3, Zenon
<1>2. ASSUME NEW m \in Members, RemoveGroupMember(m)
      PROVE  IInv'
  <2> USE <1>2 DEF RemoveGroupMember
  <2>1. TypeOK'  BY DEF TypeOK
  <2>2. CarriedStateIsSound'  BY Zenon DEF TypeOK, CarriedStateIsSound
  <2>3. CeilingAgrees' /\ GivingUpIsEarned' /\ NothingLost'
    BY Zenon DEF TypeOK, CeilingAgrees, GivingUpIsEarned, NothingLost
  <2> QED BY <2>1, <2>2, <2>3, Zenon
<1>3. ASSUME NEW i \in Items, BecomeDue(i)
      PROVE  IInv'
  <2> USE <1>3 DEF BecomeDue
  <2>1. TypeOK'
    <3>1. rows[i] \in Row  BY Zenon DEF TypeOK
    <3>2. [rows[i] EXCEPT !.due = TRUE] \in Row  BY ONLY <3>1, Zenon DEF Row
    <3>3. rows' \in [Items -> Row]  BY <3>2, Zenon DEF TypeOK
    <3> QED BY <3>3, Zenon DEF TypeOK
  <2>2. CarriedStateIsSound'  BY DEF TypeOK, CarriedStateIsSound
  <2>3. CeilingAgrees' /\ GivingUpIsEarned' /\ NothingLost'
    BY DEF TypeOK, CeilingAgrees, GivingUpIsEarned, NothingLost
  <2> QED BY <2>1, <2>2, <2>3, Zenon
<1> QED BY <1>1, <1>2, <1>3, Zenon

\* The fetch transaction: SELECT, COMMIT and rollback.
LEMMA FetchSteps ==
    ASSUME IInv, NEW p \in Procs, Fetch(p) \/ RollbackFetch(p)
    PROVE  IInv'
<1> USE DEF IInv
<1>1. ASSUME NEW S \in SUBSET Items, SelectDue(p, S)
      PROVE  IInv'
  <2> USE <1>1 DEF SelectDue, Fetchable
  <2>1. TypeOK'  BY SMTT(30) DEF TypeOK
  <2>2. CarriedStateIsSound'  BY DEF TypeOK, CarriedStateIsSound, CeilingAgrees
  <2>3. CeilingAgrees' /\ GivingUpIsEarned' /\ NothingLost'
    BY Zenon DEF TypeOK, CeilingAgrees, GivingUpIsEarned, NothingLost
  <2> QED BY <2>1, <2>2, <2>3, Zenon
<1>2. ASSUME CommitFetch(p)
      PROVE  IInv'
  <2> USE <1>2 DEF CommitFetch, Unlock
  <2>0. \A i \in Items : lockedBy[i] = p => rows[i].status \in Live
    BY Zenon DEF CarriedStateIsSound
  <2>1. TypeOK'
    <3>1. ASSUME NEW i \in Items
          PROVE  [rows[i] EXCEPT !.status = "retrying"] \in Row
      <4>1. rows[i] \in Row  BY Zenon DEF TypeOK
      <4> QED BY ONLY <4>1, Zenon DEF Row, Status, Live
    <3>2. rows' \in [Items -> Row]  BY <3>1, Zenon DEF TypeOK
    <3> QED BY <3>2, Zenon DEF TypeOK
  <2>2. CarriedStateIsSound'  BY <2>0 DEF TypeOK, CarriedStateIsSound
  <2>3. CeilingAgrees' /\ GivingUpIsEarned' /\ NothingLost'
    BY <2>0 DEF TypeOK, CeilingAgrees, GivingUpIsEarned, NothingLost
  <2> QED BY <2>1, <2>2, <2>3, Zenon
<1>3. ASSUME RollbackFetch(p)
      PROVE  IInv'
  <2> USE <1>3 DEF RollbackFetch, Unlock
  <2>1. TypeOK'  BY DEF TypeOK
  <2>2. CarriedStateIsSound'  BY Zenon DEF TypeOK, CarriedStateIsSound
  <2>3. CeilingAgrees' /\ GivingUpIsEarned' /\ NothingLost'
    BY Zenon DEF TypeOK, CeilingAgrees, GivingUpIsEarned, NothingLost
  <2> QED BY <2>1, <2>2, <2>3, Zenon
<1> QED BY <1>1, <1>2, <1>3, Zenon DEF Fetch

\* The part of the invariant that is about the table alone.
RowsSound ==
    /\ rows \in [Items -> Row]
    /\ \A i \in Items :
        /\ lockedBy[i] # None => rows[i].status \in Live
        /\ rows[i].status \in Live => rows[i].attempt <= fails[i]
    /\ CeilingAgrees
    /\ GivingUpIsEarned
    /\ NothingLost

\* MarkRetryFailure keeps the table sound when it is told to give up only after
\* the last refusal and to reschedule only below the ceiling.
LEMMA MarkRetryFailureSafe ==
    ASSUME IInv, NEW i \in Items, NEW attempt \in Nat,
           NEW err \in {"send", "member", "payload"}, NEW permanent \in BOOLEAN,
           ~permanent => attempt < MaxRetryAttempts /\ attempt <= fails[i],
           permanent /\ err = "send" => fails[i] = MaxRetryAttempts,
           MarkRetryFailure(i, attempt, err, permanent),
           UNCHANGED history
    PROVE  RowsSound'
<1> USE DEF IInv, TypeOK, CarriedStateIsSound, MarkRetryFailure
<1>1. CASE permanent = TRUE
  <2>1. rows' \in [Items -> Row]  BY <1>1
  <2>2. CeilingAgrees' /\ GivingUpIsEarned' /\ NothingLost'
    BY <1>1, ZenonT(60) DEF CeilingAgrees, GivingUpIsEarned, NothingLost
  <2> QED BY <1>1, <2>1, <2>2, ZenonT(60) DEF RowsSound
<1>2. CASE permanent = FALSE
  <2>1. rows' \in [Items -> Row]  BY <1>2
  <2>2. CeilingAgrees' /\ GivingUpIsEarned' /\ NothingLost'
    BY <1>2, ZenonT(60) DEF CeilingAgrees, GivingUpIsEarned, NothingLost
  <2> QED BY <1>2, <2>1, <2>2, ZenonT(60) DEF RowsSound
<1> QED BY <1>1, <1>2, Zenon

\* A worker that is done with its item keeps the invariant if the table is sound.
LEMMA LeaveItem ==
    ASSUME IInv, NEW w \in Workers, RowsSound',
           pc' = [pc EXCEPT ![w] = "loop"], cur' = [cur EXCEPT ![w] = NoItem],
           UNCHANGED <<owner, members, lockedBy, batch, history>>,
           crashes' \in 0..MaxTroubles, faults' \in 0..MaxTroubles
    PROVE  IInv'
<1> USE DEF IInv, RowsSound
<1>1. TypeOK'  BY Zenon DEF TypeOK
<1>2. CarriedStateIsSound'  BY Zenon DEF TypeOK, CarriedStateIsSound
<1> QED BY <1>1, <1>2, Zenon

\* A worker that gave up on its item goes on to notify the owner.
LEMMA GoNotify ==
    ASSUME IInv, NEW w \in Workers, RowsSound',
           pc[w] \in Busy, fails[cur[w].id] = MaxRetryAttempts,
           pc' = [pc EXCEPT ![w] = "notify"], cur' = cur,
           UNCHANGED <<owner, members, lockedBy, batch, history>>,
           crashes' \in 0..MaxTroubles, faults' \in 0..MaxTroubles
    PROVE  IInv'
<1> USE DEF IInv, RowsSound
<1>1. TypeOK'  BY Zenon DEF TypeOK
<1>2. CarriedStateIsSound'
  <2>1. ASSUME NEW v \in Workers, pc'[v] \in Busy
        PROVE  /\ cur[v] \in Snapshot
               /\ cur[v].attempt < MaxRetryAttempts
               /\ cur[v].attempt <= fails[cur[v].id]
               /\ pc'[v] = "failed" => cur[v].attempt < fails[cur[v].id]
               /\ pc'[v] = "notify" => fails[cur[v].id] = MaxRetryAttempts
               /\ pc'[v] = "sent" => delivered[cur[v].id] > 0
    <3>1. CASE v = w  BY <3>1, Zenon DEF TypeOK, CarriedStateIsSound
    <3>2. CASE v # w
      <4>1. pc'[v] = pc[v]  BY <3>2, Zenon DEF TypeOK
      <4> QED BY <2>1, <4>1, Zenon DEF CarriedStateIsSound
    <3> QED BY <3>1, <3>2, Zenon
  <2> QED BY <2>1, Zenon DEF CarriedStateIsSound, TypeOK
<1> QED BY <1>1, <1>2, Zenon

\* The steps of a worker on the items it fetched.
LEMMA WorkerSteps ==
    ASSUME IInv, NEW w \in Workers, ProcessItem(w)
    PROVE  IInv'
<1> USE DEF IInv
<1>1. ASSUME NextItem(w)
      PROVE  IInv'
  <2> USE <1>1 DEF NextItem
  <2>1. TypeOK'
    <3>1. CASE batch[w] = {} /\ UNCHANGED <<batch, cur>>
      BY <3>1, Zenon DEF TypeOK
    <3>2. ASSUME NEW s \in batch[w],
                 cur' = [cur EXCEPT ![w] = s],
                 batch' = [batch EXCEPT ![w] = @ \ {s}]
          PROVE  TypeOK'
      <4>1. batch[w] \in SUBSET Snapshot  BY Zenon DEF TypeOK
      <4>2. batch[w] \ {s} \in SUBSET Snapshot /\ s \in Snapshot  BY <4>1, Zenon
      <4>3. batch' \in [Procs -> SUBSET Snapshot] /\ cur' \in [Procs -> Snapshot \cup {NoItem}]
        BY <3>2, <4>2, Zenon DEF TypeOK
      <4> QED BY <4>3, Zenon DEF TypeOK
    <3> QED BY <3>1, <3>2, Zenon
  <2>2. CarriedStateIsSound'
    <3>1. UNCHANGED <<rows, lockedBy, fails, delivered>>
      BY Zenon DEF table, history
    <3>2. \A p \in Procs : batch'[p] \subseteq batch[p] /\ batch[p] \subseteq Snapshot
      <4>1. batch \in [Procs -> SUBSET Snapshot]
        BY Zenon DEF TypeOK
      <4>2. batch' = batch \/ \E s \in batch[w] : batch' = [batch EXCEPT ![w] = @ \ {s}]
        BY Zenon
      <4> QED BY <4>1, <4>2
    <3>3. ASSUME NEW v \in Workers, pc'[v] \in Busy
          PROVE  \/ pc'[v] = pc[v] /\ cur'[v] = cur[v]
                 \/ v \in Procs /\ cur'[v] \in batch[v] /\ pc'[v] = "lookup"
      BY <3>3, ZenonT(60) DEF TypeOK, Procs, Busy
    <3>4. ASSUME NEW v \in Workers, pc'[v] \in Busy
          PROVE  /\ cur'[v] \in Snapshot
                 /\ cur'[v].attempt < MaxRetryAttempts
                 /\ cur'[v].attempt <= fails[cur'[v].id]
                 /\ pc'[v] = "failed" => cur'[v].attempt < fails[cur'[v].id]
                 /\ pc'[v] = "notify" => fails[cur'[v].id] = MaxRetryAttempts
                 /\ pc'[v] = "sent" => delivered[cur'[v].id] > 0
      BY <3>2, <3>3, <3>4, Zenon DEF CarriedStateIsSound
    <3> QED BY <3>1, <3>2, <3>4, Zenon DEF CarriedStateIsSound
  <2>3. CeilingAgrees' /\ GivingUpIsEarned' /\ NothingLost'
    BY Zenon DEF TypeOK, CarriedStateIsSound, CeilingAgrees, GivingUpIsEarned, NothingLost
  <2> QED BY <2>1, <2>2, <2>3, Zenon
<1>2. ASSUME LookupMember(w)
      PROVE  IInv'
  <2> USE <1>2 DEF LookupMember
  <2>1. TypeOK'  BY Zenon DEF TypeOK, CarriedStateIsSound
  <2>2. CarriedStateIsSound'  BY <2>1, Zenon DEF TypeOK, CarriedStateIsSound
  <2>3. CeilingAgrees' /\ GivingUpIsEarned' /\ NothingLost'
    BY Zenon DEF TypeOK, CarriedStateIsSound, CeilingAgrees, GivingUpIsEarned, NothingLost
  <2> QED BY <2>1, <2>2, <2>3, Zenon
<1>3. ASSUME SendAccepted(w)
      PROVE  IInv'
  <2> USE <1>3 DEF SendAccepted
  <2>1. TypeOK'  BY SMTT(30) DEF TypeOK, CarriedStateIsSound
  <2>2. CarriedStateIsSound'  BY <2>1 DEF TypeOK, CarriedStateIsSound
  <2>3. CeilingAgrees' /\ GivingUpIsEarned' /\ NothingLost'
    BY DEF TypeOK, CarriedStateIsSound, CeilingAgrees, GivingUpIsEarned, NothingLost
  <2> QED BY <2>1, <2>2, <2>3, Zenon
<1>4. ASSUME SendRefused(w)
      PROVE  IInv'
  <2> USE <1>4 DEF SendRefused
  <2>1. TypeOK'  BY SMTT(30) DEF TypeOK, CarriedStateIsSound
  <2>2. CarriedStateIsSound'  BY <2>1, SMTT(30) DEF TypeOK, CarriedStateIsSound
  <2>3. CeilingAgrees' /\ GivingUpIsEarned' /\ NothingLost'
    BY DEF TypeOK, CarriedStateIsSound, CeilingAgrees, GivingUpIsEarned, NothingLost
  <2> QED BY <2>1, <2>2, <2>3, Zenon
<1>5. ASSUME MarkSuccess(w)
      PROVE  IInv'
  <2> USE <1>5 DEF MarkSuccess
  <2>1. TypeOK'  BY SMTT(30) DEF TypeOK, CarriedStateIsSound
  <2>2. CarriedStateIsSound'  BY <2>1 DEF TypeOK, CarriedStateIsSound
  <2>3. CeilingAgrees' /\ GivingUpIsEarned' /\ NothingLost'
    BY ZenonT(60) DEF TypeOK, CarriedStateIsSound, CeilingAgrees, GivingUpIsEarned, NothingLost
  <2> QED BY <2>1, <2>2, <2>3, ZenonT(60)
<1>6. ASSUME MarkFailure(w)
      PROVE  IInv'
  <2> DEFINE i == cur[w].id
             newAttempt == cur[w].attempt + 1
  <2>0. /\ pc[w] \in Busy
        /\ i \in Items /\ cur[w].attempt \in 0..MaxRetryAttempts
        /\ UNCHANGED <<owner, members, lockedBy, batch, history, bounds>>
    BY <1>6, Zenon DEF MarkFailure, Exhausted, MarkRetryFailure, TypeOK, CarriedStateIsSound
  <2>00. crashes' \in 0..MaxTroubles /\ faults' \in 0..MaxTroubles
    BY <2>0, Zenon DEF TypeOK
  <2>1. CASE pc[w] = "badMember"
    <3>1. MarkRetryFailure(i, MaxRetryAttempts, "member", TRUE)
      BY <1>6, <2>1, Zenon DEF MarkFailure, Exhausted
    <3>2. pc' = [pc EXCEPT ![w] = "loop"] /\ cur' = [cur EXCEPT ![w] = NoItem]
      BY <1>6, <2>1, Zenon DEF MarkFailure, Exhausted
    <3>3. RowsSound'  BY <2>0, <3>1, MarkRetryFailureSafe, Zenon
    <3> QED BY <2>0, <2>00, <3>2, <3>3, LeaveItem, Zenon
  <2>2. CASE pc[w] = "badPayload"
    <3>1. MarkRetryFailure(i, MaxRetryAttempts, "payload", TRUE)
      BY <1>6, <2>2, Zenon DEF MarkFailure, Exhausted
    <3>2. pc' = [pc EXCEPT ![w] = "loop"] /\ cur' = [cur EXCEPT ![w] = NoItem]
      BY <1>6, <2>2, Zenon DEF MarkFailure, Exhausted
    <3>3. RowsSound'  BY <2>0, <3>1, MarkRetryFailureSafe, Zenon
    <3> QED BY <2>0, <2>00, <3>2, <3>3, LeaveItem, Zenon
  <2>3. CASE pc[w] = "failed"
    <3>0. cur[w].attempt < fails[i] /\ fails[i] \in 0..MaxRetryAttempts
      BY <2>0, <2>3, Zenon DEF CarriedStateIsSound, TypeOK
    <3>1. CASE newAttempt >= MaxRetryAttempts
      <4>1. fails[i] = MaxRetryAttempts  BY <2>0, <3>0, <3>1
      <4>2. MarkRetryFailure(i, newAttempt, "send", TRUE)
        BY <1>6, <2>3, <3>1, Zenon DEF MarkFailure, Exhausted
      <4>3. pc' = [pc EXCEPT ![w] = "notify"] /\ cur' = cur
        BY <1>6, <2>3, <3>1, Zenon DEF MarkFailure, Exhausted, TypeOK
      <4>4. newAttempt \in Nat  BY <2>0
      <4>5. RowsSound'  BY <2>0, <4>1, <4>2, <4>4, MarkRetryFailureSafe, Zenon
      <4> QED BY <2>0, <2>00, <4>1, <4>3, <4>5, GoNotify, Zenon
    <3>2. CASE ~(newAttempt >= MaxRetryAttempts)
      <4>0. (newAttempt >= MaxRetryAttempts) = FALSE  BY <3>2
      <4>1. MarkRetryFailure(i, newAttempt, "send", FALSE)
        BY <1>6, <2>3, <4>0, Zenon DEF MarkFailure, Exhausted, MarkRetryFailure
      <4>2. pc' = [pc EXCEPT ![w] = "loop"] /\ cur' = [cur EXCEPT ![w] = NoItem]
        BY <1>6, <2>3, <3>2, Zenon DEF MarkFailure, Exhausted
      <4>3. newAttempt \in Nat /\ newAttempt < MaxRetryAttempts /\ newAttempt <= fails[i]
        BY <2>0, <3>0, <3>2
      <4>4. RowsSound'  BY <2>0, <4>1, <4>3, MarkRetryFailureSafe, Zenon
      <4> QED BY <2>0, <2>00, <4>2, <4>4, LeaveItem, Zenon
    <3> QED BY <3>1, <3>2, Zenon
  <2> QED BY <1>6, <2>1, <2>2, <2>3, Zenon DEF MarkFailure, Exhausted
<1>7. ASSUME Notify(w)
      PROVE  IInv'
  <2> USE <1>7 DEF Notify
  <2>1. TypeOK'  BY Zenon DEF TypeOK, CarriedStateIsSound
  <2>2. CarriedStateIsSound'  BY <2>1, Zenon DEF TypeOK, CarriedStateIsSound
  <2>3. CeilingAgrees' /\ GivingUpIsEarned' /\ NothingLost'
    BY Zenon DEF TypeOK, CarriedStateIsSound, CeilingAgrees, GivingUpIsEarned, NothingLost
  <2> QED BY <2>1, <2>2, <2>3, Zenon
<1> QED BY <1>1, <1>2, <1>3, <1>4, <1>5, <1>6, <1>7, Zenon DEF ProcessItem

\* Failing database calls and crashes.
LEMMA FaultSteps ==
    ASSUME IInv, NEW w \in Workers, LookupFault(w) \/ MarkFault(w) \/ Crash(w)
    PROVE  IInv'
<1> USE DEF IInv
<1>1. ASSUME LookupFault(w)
      PROVE  IInv'
  <2> USE <1>1 DEF LookupFault
  <2>1. TypeOK'  BY DEF TypeOK, CarriedStateIsSound
  <2>2. CarriedStateIsSound'  BY <2>1, ZenonT(60) DEF TypeOK, CarriedStateIsSound
  <2>3. CeilingAgrees' /\ GivingUpIsEarned' /\ NothingLost'
    BY Zenon DEF TypeOK, CarriedStateIsSound, CeilingAgrees, GivingUpIsEarned, NothingLost
  <2> QED BY <2>1, <2>2, <2>3, Zenon
<1>2. ASSUME MarkFault(w)
      PROVE  IInv'
  <2> DEFINE gaveUp == pc[w] = "failed" /\ cur[w].attempt + 1 >= MaxRetryAttempts
  <2>0. UNCHANGED <<table, batch, history, crashes>> /\ faults' \in 0..MaxTroubles
    BY <1>2 DEF MarkFault, Exhausted, TypeOK
  <2>1. RowsSound'
    BY <2>0, Zenon DEF RowsSound, TypeOK, CarriedStateIsSound, CeilingAgrees,
                GivingUpIsEarned, NothingLost
  <2>2. CASE gaveUp
    <3>1. pc' = [pc EXCEPT ![w] = "notify"] /\ cur' = cur
      BY <1>2, <2>2, Zenon DEF MarkFault, Exhausted, TypeOK
    <3>2. fails[cur[w].id] = MaxRetryAttempts
      <4>1. cur[w] \in Snapshot /\ cur[w].attempt < fails[cur[w].id]
        BY <2>2, Zenon DEF CarriedStateIsSound
      <4>2. fails[cur[w].id] \in 0..MaxRetryAttempts  BY <4>1, Zenon DEF TypeOK
      <4> QED BY <2>2, <4>1, <4>2
    <3>3. crashes' \in 0..MaxTroubles /\ pc[w] \in Busy  BY <2>0, <2>2, Zenon DEF TypeOK
    <3> QED BY <2>0, <2>1, <3>1, <3>2, <3>3, GoNotify, Zenon
  <2>3. CASE ~gaveUp
    <3>1. pc' = [pc EXCEPT ![w] = "loop"] /\ cur' = [cur EXCEPT ![w] = NoItem]
      BY <1>2, <2>3, Zenon DEF MarkFault, Exhausted
    <3>2. crashes' \in 0..MaxTroubles  BY <2>0, Zenon DEF TypeOK
    <3> QED BY <2>0, <2>1, <3>1, <3>2, LeaveItem, Zenon
  <2> QED BY <2>2, <2>3, Zenon
<1>3. ASSUME Crash(w)
      PROVE  IInv'
  <2> USE <1>3 DEF Crash
  <2>1. TypeOK'  BY SMTT(30) DEF TypeOK, CarriedStateIsSound
  <2>2. CarriedStateIsSound'  BY <2>1 DEF TypeOK, CarriedStateIsSound
  <2>3. CeilingAgrees' /\ GivingUpIsEarned' /\ NothingLost'
    BY Zenon DEF TypeOK, CarriedStateIsSound, CeilingAgrees, GivingUpIsEarned, NothingLost
  <2> QED BY <2>1, <2>2, <2>3, ZenonT(60)
<1> QED BY <1>1, <1>2, <1>3, Zenon

\* Every step preserves the invariant.
LEMMA NextIInv == IInv /\ [Next]_vars => IInv'
<1> SUFFICES ASSUME IInv, [Next]_vars PROVE IInv'
  BY Zenon
<1>1. CASE UNCHANGED vars
  BY <1>1, Zenon DEF vars, IInv, TypeOK, CarriedStateIsSound, CeilingAgrees,
              GivingUpIsEarned, NothingLost
<1>2. ASSUME NEW p \in Procs, PollNothing(p)
      PROVE  IInv'
  BY <1>1, <1>2, Zenon DEF PollNothing
<1> QED BY <1>1, <1>2, TableSteps, FetchSteps, WorkerSteps, FaultSteps, Zenon DEF Next

\* The invariant holds in every reachable state.
THEOREM Invariance == Spec => []IInv
BY InitIInv, NextIInv, PTL DEF Spec

\* Every variable keeps its type: in particular no attempt count leaves
\* 0..MaxRetryAttempts, the range Validate accepts.
THEOREM TypeCorrect == Spec => []TypeOK
BY Invariance, PTL DEF IInv

\* MarkRetryFailure never writes a status that disagrees with the attempt count,
\* whatever stale counts the workers hold.
THEOREM CeilingHolds == Spec => []CeilingAgrees
BY Invariance, PTL DEF IInv

\* No item is given up, and no owner notified, before Trakt refused it
\* MaxRetryAttempts times (processItem), with any number of workers.
THEOREM GivingUpHolds == Spec => []GivingUpIsEarned
BY Invariance, PTL DEF IInv

\* An item leaves the table only by delivery or with its member.
THEOREM NothingLostHolds == Spec => []NothingLost
BY Invariance, PTL DEF IInv

\* What a worker carries between its database calls is never ahead of what
\* happened (processItem works on the copy of the row its fetch read).
THEOREM CarriedStateHolds == Spec => []CarriedStateIsSound
BY Invariance, PTL DEF IInv

\* A row is in the table only after its INSERT.
Owned == \A i \in Items : owner[i] = None => rows[i].status = "absent"

\* Only EnqueueRetryItem creates rows.
LEMMA OwnedStep == IInv /\ Owned /\ [Next]_vars => Owned'
<1> SUFFICES ASSUME IInv, Owned, [Next]_vars, NEW i \in Items, owner'[i] = None
             PROVE  rows'[i].status = "absent"
  BY Zenon DEF Owned
<1> DEFINE Absent == rows'[i].status = "absent"
<1>t. TypeOK /\ CarriedStateIsSound  BY Zenon DEF IInv
<1>1. CASE UNCHANGED vars
  BY <1>1, Zenon DEF vars, Owned
<1>2. ASSUME NEW j \in Items, NEW m \in Members, NEW due \in BOOLEAN,
             EnqueueRetryItem(j, m, due)
      PROVE  Absent
  BY <1>2, <1>t, Zenon DEF EnqueueRetryItem, TypeOK, Owned
<1>3. ASSUME NEW m \in Members, RemoveGroupMember(m)
      PROVE  Absent
  BY <1>3, <1>t, Zenon DEF RemoveGroupMember, TypeOK, Owned
<1>4. ASSUME NEW j \in Items, BecomeDue(j)
      PROVE  Absent
  BY <1>4, <1>t, Zenon DEF BecomeDue, TypeOK, Owned
<1>5. ASSUME NEW p \in Procs, Fetch(p) \/ PollNothing(p) \/ RollbackFetch(p)
      PROVE  Absent
  <2>1. owner[i] = None
    BY <1>1, <1>5, Zenon DEF Fetch, SelectDue, CommitFetch, PollNothing, RollbackFetch, vars
  <2>2. rows[i].status = "absent" /\ lockedBy[i] = None
    BY <1>t, <2>1, Zenon DEF Owned, CarriedStateIsSound
  <2> QED BY <1>1, <1>5, <1>t, <2>2, SMTT(30) DEF Fetch, SelectDue, CommitFetch, PollNothing,
                                     RollbackFetch, TypeOK
<1>6. ASSUME NEW w \in Workers,
             ProcessItem(w) \/ LookupFault(w) \/ MarkFault(w) \/ Crash(w)
      PROVE  Absent
  <2>1. CASE MarkSuccess(w)
    BY <1>t, <2>1, Zenon DEF MarkSuccess, TypeOK, Owned
  <2>2. CASE MarkFailure(w)
    <3>1. \E a, err, b : MarkRetryFailure(cur[w].id, a, err, b)
      BY <2>2, Zenon DEF MarkFailure
    <3>2. PICK a, err, b : MarkRetryFailure(cur[w].id, a, err, b)
      BY <3>1
    <3>3. owner' = owner
      BY <3>2, Zenon DEF MarkRetryFailure
    <3>4. rows[i].status = "absent"
      BY <3>3, Zenon DEF Owned
    <3> QED BY <1>t, <3>2, <3>4, Zenon DEF MarkRetryFailure, TypeOK
  <2>3. CASE UNCHANGED <<rows, owner>>
    BY <2>3, Zenon DEF Owned
  <2> QED BY <1>6, <2>1, <2>2, <2>3, Zenon DEF ProcessItem, NextItem, LookupMember, SendAccepted,
                 SendRefused, Notify, LookupFault, MarkFault, Exhausted, Crash
<1> QED BY <1>1, <1>2, <1>3, <1>4, <1>5, <1>6, Zenon DEF Next

\* What a row that was given up can become in one step, when no worker holds it.
LEMMA FinalStep ==
    ASSUME IInv, Owned, [Next]_vars, NEW i \in Items,
           rows[i].status = "permanent_failure",
           \A w \in Workers : cur[w].id # i
    PROVE  rows'[i].status \in {"permanent_failure", "absent"}
<1> DEFINE Final == rows'[i].status \in {"permanent_failure", "absent"}
<1> USE DEF IInv
<1>t. TypeOK  BY Zenon
<1>1. CASE UNCHANGED vars
  BY <1>1, Zenon DEF vars
<1>2. ASSUME NEW j \in Items, NEW m \in Members, NEW due \in BOOLEAN,
             EnqueueRetryItem(j, m, due)
      PROVE  Final
  <2>1. j # i  BY <1>2, Zenon DEF EnqueueRetryItem, Owned
  <2> QED BY <1>2, <1>t, <2>1, Zenon DEF EnqueueRetryItem, TypeOK
<1>3. ASSUME NEW m \in Members, RemoveGroupMember(m)
      PROVE  Final
  BY <1>3, <1>t, Zenon DEF RemoveGroupMember, TypeOK
<1>4. ASSUME NEW j \in Items, BecomeDue(j)
      PROVE  Final
  BY <1>4, <1>t, Zenon DEF BecomeDue, TypeOK
<1>5. ASSUME NEW p \in Procs, Fetch(p) \/ PollNothing(p) \/ RollbackFetch(p)
      PROVE  Final
  <2>1. lockedBy[i] = None  BY Zenon DEF CarriedStateIsSound
  <2> QED BY <1>1, <1>5, <1>t, <2>1 DEF Fetch, SelectDue, CommitFetch, PollNothing,
                                     RollbackFetch, TypeOK
<1>6. ASSUME NEW w \in Workers,
             ProcessItem(w) \/ LookupFault(w) \/ MarkFault(w) \/ Crash(w)
      PROVE  Final
  <2>1. CASE MarkSuccess(w)
    BY <1>t, <2>1, Zenon DEF MarkSuccess, TypeOK
  <2>2. CASE MarkFailure(w)
    BY <1>t, <2>2, Zenon DEF MarkFailure, Exhausted, MarkRetryFailure, TypeOK
  <2>3. CASE UNCHANGED rows
    BY <2>3, Zenon
  <2> QED BY <1>6, <2>1, <2>2, <2>3, Zenon DEF ProcessItem, NextItem, LookupMember, SendAccepted,
                 SendRefused, Notify, LookupFault, MarkFault, Exhausted, Crash
<1> QED BY <1>1, <1>2, <1>3, <1>4, <1>5, <1>6, Zenon DEF Next

\* No fetch, metrics query, restart or enqueue brings back a row that was given
\* up, once no worker holds the item.
THEOREM PermanentHolds == Spec => PermanentIsFinal
<1> DEFINE A == \A i \in Items :
                 rows[i].status = "permanent_failure" /\ (\A w \in Workers : cur[w].id # i)
                 => rows'[i].status \in {"permanent_failure", "absent"}
<1>1. IInv /\ Owned /\ [Next]_vars => [A]_vars
  BY FinalStep, Zenon
<1>2. Init => Owned
  BY DEF Init, Owned
<1> QED BY <1>1, <1>2, OwnedStep, Invariance, PTL DEF Spec, PermanentIsFinal

-----------------------------------------------------------------------------
\* A worker holds at most one copy of an item, and only of items that were
\* enqueued.
OneCopy ==
    /\ \A w \in Workers : \A s, t \in batch[w] : s.id = t.id => s = t
    /\ \A w \in Workers : pc[w] \in Busy => \A s \in batch[w] : s.id # cur[w].id
    /\ \A w \in Workers : \A s \in batch[w] : owner[s.id] # None
    /\ \A w \in Workers : pc[w] \in Busy => owner[cur[w].id] # None
    /\ \A i \in Items : delivered[i] # 0 => owner[i] # None

\* Worker w cannot send item i again, unless the deletion it is at fails or it
\* crashes: it has no copy of i and the row is gone, or it has sent i and is about
\* to delete it.
Past(w, i) ==
    /\ \A s \in batch[w] : s.id # i
    /\ IF pc[w] \in Busy /\ cur[w].id = i THEN pc[w] = "sent" ELSE rows[i].status = "absent"

Spent(i) == {w \in Workers : Past(w, i)}

\* Each acceptance by Trakt is explained by a worker that is past the item, by a
\* crash or by a failing call.
Counted == \A i \in Items : delivered[i] <= Cardinality(Spent(i)) + crashes + faults

\* The steps of a worker, as far as its batch and its item go.
Fetches(w) == /\ pc[w] \notin Busy /\ pc'[w] \notin Busy
              /\ \/ batch'[w] \subseteq batch[w]
                 \/ /\ \A s \in batch'[w] : s.id \in Items /\ rows[s.id].status \in Live
                    /\ \A s, t \in batch'[w] : s.id = t.id => s = t
Takes(w) == /\ pc[w] = "loop" /\ pc'[w] = "lookup"
            /\ \E s \in batch[w] : batch'[w] = batch[w] \ {s} /\ cur'[w] = s
Works(w) == /\ pc[w] \in Busy \ {"sent"} /\ pc'[w] \in Busy
            /\ batch'[w] = batch[w] /\ cur'[w] = cur[w]
Leaves(w) == /\ pc[w] \in Busy /\ pc'[w] \notin Busy /\ batch'[w] \subseteq batch[w]
             /\ pc[w] = "sent" => \/ rows'[cur[w].id].status = "absent"
                                  \/ MarkFault(w) \/ Crash(w)

Moves(w) == \/ Fetch(w) \/ RollbackFetch(w)
            \/ ProcessItem(w) \/ LookupFault(w) \/ MarkFault(w) \/ Crash(w)

LEMMA OwnStep ==
    ASSUME IInv, NEW w \in Workers, Moves(w)
    PROVE  Fetches(w) \/ Takes(w) \/ Works(w) \/ Leaves(w)
<1>t. /\ pc \in [Procs -> {"idle", "selected", "loop", "lookup", "send", "sent",
                           "failed", "notify", "badMember", "badPayload"}]
      /\ batch \in [Procs -> SUBSET Snapshot] /\ cur \in [Procs -> Snapshot \cup {NoItem}]
      /\ w \in Procs /\ w # Metrics
  BY Zenon DEF IInv, TypeOK
<1>1. ASSUME NEW S \in SUBSET Items, SelectDue(w, S) PROVE Fetches(w)
  <2>1. batch'[w] = {[id |-> i, attempt |-> rows[i].attempt] : i \in S}
    BY <1>t, <1>1, Zenon DEF SelectDue
  <2>2. S \subseteq Items /\ \A i \in S : rows[i].status \in Live
    BY <1>1, ZenonT(60) DEF SelectDue, Fetchable
  <2>3. /\ \A s \in batch'[w] : s.id \in Items /\ rows[s.id].status \in Live
        /\ \A s, t \in batch'[w] : s.id = t.id => s = t
    BY ONLY <2>1, <2>2
  <2>4. pc[w] = "idle" /\ pc'[w] = "selected"
    BY <1>t, <1>1, Zenon DEF SelectDue
  <2> QED BY <2>3, <2>4, Zenon DEF Fetches
<1>2. CASE CommitFetch(w) \/ RollbackFetch(w)
  BY <1>t, <1>2, Zenon DEF CommitFetch, RollbackFetch, Fetches
<1>3. CASE NextItem(w)
  BY <1>t, <1>3, Zenon DEF NextItem, Takes, Fetches
<1>4. CASE LookupMember(w) \/ LookupFault(w) \/ SendAccepted(w) \/ SendRefused(w)
  BY <1>t, <1>4, Zenon DEF LookupMember, LookupFault, SendAccepted, SendRefused, Works
<1>5. CASE MarkSuccess(w)
  <2>1. cur[w].id \in Items /\ rows \in [Items -> Row]
    BY <1>5, Zenon DEF MarkSuccess, IInv, TypeOK, CarriedStateIsSound
  <2>2. NoRow.status = "absent"
    BY DEF NoRow
  <2>3. rows'[cur[w].id] = NoRow
    BY <1>5, <2>1, Zenon DEF MarkSuccess
  <2> QED BY <1>t, <1>5, <2>2, <2>3, Zenon DEF MarkSuccess, Leaves
<1>6. CASE MarkFailure(w)
  BY <1>t, <1>6, Zenon DEF MarkFailure, Works, Leaves
<1>7. CASE MarkFault(w)
  <2>1. pc[w] \in {"sent", "failed", "badMember", "badPayload"} /\ batch' = batch
    BY <1>7, Zenon DEF MarkFault
  <2>2. CASE pc[w] = "failed" /\ Exhausted(w)
    BY <1>t, <1>7, <2>2, Zenon DEF MarkFault, Works
  <2>3. CASE ~(pc[w] = "failed" /\ Exhausted(w))
    <3>1. pc' = [pc EXCEPT ![w] = "loop"]
      BY <1>7, <2>3, Zenon DEF MarkFault
    <3> QED BY <1>t, <1>7, <2>1, <3>1, Zenon DEF Leaves
  <2> QED BY <2>2, <2>3, Zenon
<1>8. CASE Notify(w)
  BY <1>t, <1>8, Zenon DEF Notify, Leaves
<1>9. CASE Crash(w)
  <2>1. pc'[w] = "idle" /\ batch'[w] = {}
    BY <1>t, <1>9, Zenon DEF Crash
  <2> QED BY <1>9, <2>1, Zenon DEF Fetches, Leaves
<1> QED BY <1>1, <1>2, <1>3, <1>4, <1>5, <1>6, <1>7, <1>8, <1>9, Zenon DEF Moves, Fetch, ProcessItem

\* Nobody else touches what a worker holds.
LEMMA Still ==
    ASSUME IInv, [Next]_vars, NEW w \in Workers, ~Moves(w)
    PROVE  pc'[w] = pc[w] /\ batch'[w] = batch[w] /\ cur'[w] = cur[w]
<1>t. /\ pc \in [Procs -> {"idle", "selected", "loop", "lookup", "send", "sent",
                           "failed", "notify", "badMember", "badPayload"}]
      /\ batch \in [Procs -> SUBSET Snapshot] /\ cur \in [Procs -> Snapshot \cup {NoItem}]
      /\ w \in Procs /\ w # Metrics
  BY Zenon DEF IInv, TypeOK
<1> DEFINE Same == pc'[w] = pc[w] /\ batch'[w] = batch[w] /\ cur'[w] = cur[w]
<1>1. UNCHANGED vars => Same
  BY Zenon DEF vars
<1>2. ASSUME NEW i \in Items, NEW m \in Members, NEW due \in BOOLEAN,
             EnqueueRetryItem(i, m, due)
      PROVE  Same
  BY <1>2, Zenon DEF EnqueueRetryItem
<1>3. ASSUME NEW p \in Procs, Fetch(p) \/ PollNothing(p) \/ RollbackFetch(p)
      PROVE  Same
  <2>1. CASE PollNothing(p)
    BY <1>1, <2>1, Zenon DEF PollNothing
  <2>2. CASE Fetch(p) \/ RollbackFetch(p)
    <3>1. p # w
      BY <2>2, Zenon DEF Moves
    <3> QED BY <1>t, <2>2, <3>1, Zenon DEF Fetch, SelectDue, CommitFetch, RollbackFetch
  <2> QED BY <1>3, <2>1, <2>2, Zenon
<1>4. ASSUME NEW v \in Workers, ProcessItem(v) \/ LookupFault(v) \/ MarkFault(v) \/ Crash(v)
      PROVE  Same
  <2>1. v # w
    BY <1>4, Zenon DEF Moves
  <2>2. CASE NextItem(v)
    BY <1>t, <2>1, <2>2, Zenon DEF NextItem
  <2>3. CASE LookupMember(v) \/ SendAccepted(v) \/ SendRefused(v) \/ MarkSuccess(v) \/ Notify(v)
    BY <1>t, <2>1, <2>3, Zenon DEF LookupMember, SendAccepted, SendRefused, MarkSuccess, Notify
  <2>4. CASE MarkFailure(v)
    BY <1>t, <2>1, <2>4, Zenon DEF MarkFailure
  <2>5. CASE LookupFault(v) \/ MarkFault(v)
    BY <1>t, <2>1, <2>5, Zenon DEF LookupFault, MarkFault
  <2>6. CASE Crash(v)
    <3>1. PICK dead \in {{v}, {v, Metrics}} :
            /\ pc' = [p \in Procs |-> IF p \in dead THEN "idle" ELSE pc[p]]
            /\ batch' = [p \in Procs |-> IF p \in dead THEN {} ELSE batch[p]]
            /\ cur' = [p \in Procs |-> IF p \in dead THEN NoItem ELSE cur[p]]
      BY <2>6, Zenon DEF Crash
    <3>2. w \notin dead
      BY <1>t, <2>1, Zenon
    <3> QED BY <1>t, <3>1, <3>2, Zenon
  <2> QED BY <1>4, <2>2, <2>3, <2>4, <2>5, <2>6, Zenon DEF ProcessItem
<1>5. (\E m \in Members : RemoveGroupMember(m)) => Same
  BY Zenon DEF RemoveGroupMember
<1>6. (\E i \in Items : BecomeDue(i)) => Same
  BY Zenon DEF BecomeDue
<1> QED BY <1>1, <1>2, <1>3, <1>4, <1>5, <1>6, Zenon DEF Next

\* A deleted row is not written again.
LEMMA AbsentStays ==
    ASSUME IInv, [Next]_vars, NEW i \in Items, owner[i] # None, rows[i].status = "absent"
    PROVE  rows'[i].status = "absent"
<1>t. rows \in [Items -> Row] /\ lockedBy[i] = None
  BY Zenon DEF IInv, TypeOK, CarriedStateIsSound
<1> DEFINE Absent == rows'[i].status = "absent"
<1>1. UNCHANGED rows => Absent
  BY Zenon
<1>2. ASSUME NEW j \in Items, NEW m \in Members, NEW due \in BOOLEAN, EnqueueRetryItem(j, m, due)
      PROVE  Absent
  <2>1. j # i
    BY <1>2, Zenon DEF EnqueueRetryItem
  <2> QED BY <1>t, <1>2, <2>1, Zenon DEF EnqueueRetryItem
<1>3. ASSUME NEW m \in Members, RemoveGroupMember(m) PROVE Absent
  BY <1>t, <1>3, Zenon DEF RemoveGroupMember
<1>4. ASSUME NEW j \in Items, BecomeDue(j) PROVE Absent
  BY <1>t, <1>4, Zenon DEF BecomeDue
<1>5. ASSUME NEW p \in Procs, Fetch(p) \/ PollNothing(p) \/ RollbackFetch(p) PROVE Absent
  <2>1. CASE CommitFetch(p)
    <3>1. lockedBy[i] # p
      BY <1>t, Zenon
    <3> QED BY <2>1, <3>1, Zenon DEF CommitFetch
  <2> QED BY <1>1, <1>5, <2>1, Zenon DEF Fetch, SelectDue, PollNothing, RollbackFetch, vars
<1>6. ASSUME NEW w \in Workers, ProcessItem(w) \/ LookupFault(w) \/ MarkFault(w) \/ Crash(w)
      PROVE  Absent
  <2>1. CASE MarkSuccess(w)
    BY <1>t, <2>1, Zenon DEF MarkSuccess
  <2>2. CASE MarkFailure(w)
    <3>1. \E a, err, b : MarkRetryFailure(cur[w].id, a, err, b)
      BY <2>2, Zenon DEF MarkFailure
    <3>2. PICK a, err, b : MarkRetryFailure(cur[w].id, a, err, b)
      BY <3>1
    <3> QED BY <1>t, <3>2, Zenon DEF MarkRetryFailure
  <2> QED BY <1>1, <1>6, <2>1, <2>2, Zenon DEF ProcessItem, NextItem, LookupMember, SendAccepted,
                 SendRefused, Notify, LookupFault, MarkFault, Crash
<1>7. UNCHANGED vars => Absent
  BY <1>1, Zenon DEF vars
<1> QED BY <1>2, <1>3, <1>4, <1>5, <1>6, <1>7, Zenon DEF Next

\* Owners are kept, and only Trakt's answer to a worker counts.
LEMMA Accepted ==
    ASSUME IInv, [Next]_vars
    PROVE  /\ \A i \in Items : owner[i] # None => owner'[i] # None
           /\ delivered' = delivered \/ \E w \in Workers : SendAccepted(w)
<1>1. ASSUME NEW i \in Items, NEW m \in Members, NEW due \in BOOLEAN, EnqueueRetryItem(i, m, due)
      PROVE  delivered' = delivered /\ \A j \in Items : owner[j] # None => owner'[j] # None
  <2>1. m # None
    BY Zenon
  <2>2. owner' = [owner EXCEPT ![i] = m] /\ delivered' = delivered
    BY <1>1, Zenon DEF EnqueueRetryItem
  <2> QED BY <2>1, <2>2, Zenon DEF IInv, TypeOK
<1>2. ASSUME NEW m \in Members, RemoveGroupMember(m) PROVE owner' = owner /\ delivered' = delivered
  BY <1>2, Zenon DEF RemoveGroupMember
<1>3. ASSUME NEW j \in Items, BecomeDue(j) PROVE owner' = owner /\ delivered' = delivered
  BY <1>3, Zenon DEF BecomeDue
<1>4. ASSUME NEW p \in Procs, Fetch(p) \/ PollNothing(p) \/ RollbackFetch(p)
      PROVE  owner' = owner /\ delivered' = delivered
  BY <1>4, Zenon DEF Fetch, SelectDue, CommitFetch, PollNothing, RollbackFetch, vars
<1>5. ASSUME NEW w \in Workers, ProcessItem(w) \/ LookupFault(w) \/ MarkFault(w) \/ Crash(w)
      PROVE  owner' = owner /\ (delivered' = delivered \/ SendAccepted(w))
  <2>1. CASE MarkFailure(w)
    <3>1. \E a, err, b : MarkRetryFailure(cur[w].id, a, err, b)
      BY <2>1, Zenon DEF MarkFailure
    <3>2. owner' = owner
      BY <3>1, Zenon DEF MarkRetryFailure
    <3> QED BY <2>1, <3>2, Zenon DEF MarkFailure
  <2> QED BY <1>5, <2>1, Zenon DEF ProcessItem, NextItem, LookupMember, SendAccepted, SendRefused,
                 MarkSuccess, Notify, LookupFault, MarkFault, Crash
<1>6. UNCHANGED vars => owner' = owner /\ delivered' = delivered
  BY Zenon DEF vars
<1> QED BY <1>1, <1>2, <1>3, <1>4, <1>5, <1>6, Zenon DEF Next

\* Every step keeps OneCopy.
LEMMA OneCopyStep == IInv /\ Owned /\ OneCopy /\ [Next]_vars => OneCopy'
<1> SUFFICES ASSUME IInv, Owned, OneCopy, [Next]_vars PROVE OneCopy'
  BY Zenon
<1>1. ASSUME NEW w \in Workers
      PROVE  /\ \A s, t \in batch'[w] : s.id = t.id => s = t
             /\ pc'[w] \in Busy => \A s \in batch'[w] : s.id # cur'[w].id
             /\ \A s \in batch'[w] : owner'[s.id] # None
             /\ pc'[w] \in Busy => owner'[cur'[w].id] # None
  <2>t. /\ \A s \in batch[w] : s.id \in Items
        /\ pc[w] \in Busy => cur[w].id \in Items
    <3>1. batch[w] \subseteq Snapshot /\ (pc[w] \in Busy => cur[w] \in Snapshot)
      BY Zenon DEF IInv, TypeOK, CarriedStateIsSound
    <3>2. \A s \in Snapshot : s.id \in Items
      BY ONLY TRUE DEF Snapshot
    <3> QED BY <3>1, <3>2, Zenon
  <2>r. /\ \A s, t \in batch[w] : s.id = t.id => s = t
        /\ pc[w] \in Busy => \A s \in batch[w] : s.id # cur[w].id
        /\ \A s \in batch[w] : owner'[s.id] # None
        /\ pc[w] \in Busy => owner'[cur[w].id] # None
    BY <2>t, Accepted, Zenon DEF OneCopy
  <2>1. CASE ~Moves(w)
    BY <2>r, <2>1, Still, Zenon
  <2>2. CASE Fetches(w)
    <3>1. \A s \in batch'[w] : s \in batch[w] \/ owner'[s.id] # None
      <4>1. \A s : s.id \in Items /\ rows[s.id].status \in Live => owner'[s.id] # None
        BY Accepted, Zenon DEF Owned
      <4> QED BY <2>2, <4>1, Zenon DEF Fetches
    <3> QED BY <2>r, <2>2, <3>1, Zenon DEF Fetches
  <2>3. CASE Takes(w)
    <3>1. PICK s \in batch[w] : batch'[w] = batch[w] \ {s} /\ cur'[w] = s
      BY <2>3, Zenon DEF Takes
    <3> QED BY <2>r, <3>1, Zenon
  <2>4. CASE Works(w)
    BY <2>r, <2>4, Zenon DEF Works
  <2>5. CASE Leaves(w)
    BY <2>r, <2>5, Zenon DEF Leaves
  <2> QED BY <2>1, <2>2, <2>3, <2>4, <2>5, OwnStep, Zenon
<1>2. ASSUME NEW i \in Items, delivered'[i] # 0 PROVE owner'[i] # None
  <2>1. CASE delivered' = delivered
    BY <1>2, <2>1, Accepted, Zenon DEF OneCopy
  <2>2. ASSUME NEW w \in Workers, SendAccepted(w) PROVE owner'[i] # None
    <3>1. cur[w].id \in Items /\ owner[cur[w].id] # None
      BY <2>2, Zenon DEF SendAccepted, OneCopy, IInv, CarriedStateIsSound
    <3>2. i # cur[w].id => delivered'[i] = delivered[i]
      BY <2>2, Zenon DEF SendAccepted, IInv, TypeOK
    <3> QED BY <1>2, <3>1, <3>2, Accepted, Zenon DEF OneCopy
  <2> QED BY <2>1, <2>2, Accepted, Zenon
<1> QED BY <1>1, <1>2, Zenon DEF OneCopy

\* A worker past an item stays past it, unless it fails to delete it or crashes
\* before it has.
LEMMA PastStays ==
    ASSUME IInv, OneCopy, [Next]_vars, NEW w \in Workers, NEW i \in Items, owner[i] # None,
           Past(w, i), ~((MarkFault(w) \/ Crash(w)) /\ pc[w] = "sent" /\ cur[w].id = i)
    PROVE  Past(w, i)'
<1>g. rows[i].status = "absent" => rows'[i].status = "absent"
  BY AbsentStays, Zenon
<1>1. CASE ~Moves(w)
  BY <1>1, <1>g, Still, Zenon DEF Past
<1>2. CASE Fetches(w)
  <2>1. rows[i].status = "absent" /\ \A s \in batch[w] : s.id # i
    BY <1>2, Zenon DEF Fetches, Past
  <2>2. \A s \in batch'[w] : s.id # i
    BY <1>2, <2>1, Zenon DEF Fetches
  <2> QED BY <1>g, <1>2, <2>1, <2>2, Zenon DEF Fetches, Past
<1>3. CASE Takes(w)
  <2>1. rows[i].status = "absent" /\ \A s \in batch[w] : s.id # i
    BY <1>3, Zenon DEF Takes, Past
  <2> QED BY <1>g, <1>3, <2>1, Zenon DEF Takes, Past
<1>4. CASE Works(w)
  <2>1. cur[w].id # i /\ rows[i].status = "absent"
    BY <1>4, Zenon DEF Works, Past
  <2> QED BY <1>g, <1>4, <2>1, Zenon DEF Works, Past
<1>5. CASE Leaves(w)
  <2>1. rows'[i].status = "absent"
    BY <1>g, <1>5, Zenon DEF Leaves, Past
  <2> QED BY <1>5, <2>1, Zenon DEF Leaves, Past
<1> QED BY <1>1, <1>2, <1>3, <1>4, <1>5, OwnStep, Zenon

\* Crashes and failing calls are counted, and are not forgotten.
LEMMA TroublesGrow ==
    ASSUME IInv, [Next]_vars
    PROVE  /\ {crashes, faults, crashes', faults'} \subseteq Nat
           /\ crashes <= crashes' /\ faults <= faults'
           /\ \A w \in Workers : MarkFault(w) \/ Crash(w)
                 => crashes' + faults' = crashes + faults + 1
<1>1. {crashes, faults} \subseteq Nat
  BY DEF IInv, TypeOK
<1>2. (crashes' = crashes \/ crashes' = crashes + 1) /\ (faults' = faults \/ faults' = faults + 1)
  <2> DEFINE G == /\ crashes' = crashes \/ crashes' = crashes + 1
                  /\ faults' = faults \/ faults' = faults + 1
  <2>1. ASSUME NEW i \in Items, NEW m \in Members, NEW due \in BOOLEAN, EnqueueRetryItem(i, m, due)
        PROVE  G
    BY <2>1, Zenon DEF EnqueueRetryItem
  <2>2. ASSUME NEW m \in Members, RemoveGroupMember(m) PROVE G
    BY <2>2, Zenon DEF RemoveGroupMember
  <2>3. ASSUME NEW j \in Items, BecomeDue(j) PROVE G
    BY <2>3, Zenon DEF BecomeDue
  <2>4. ASSUME NEW p \in Procs, Fetch(p) \/ PollNothing(p) \/ RollbackFetch(p) PROVE G
    BY <2>4, Zenon DEF Fetch, SelectDue, CommitFetch, PollNothing, RollbackFetch, vars
  <2>5. ASSUME NEW w \in Workers, ProcessItem(w) \/ LookupFault(w) \/ MarkFault(w) \/ Crash(w)
        PROVE  G
    BY <2>5, Zenon DEF ProcessItem, NextItem, LookupMember, SendAccepted, SendRefused,
                 MarkSuccess, MarkFailure, Notify, LookupFault, MarkFault, Crash
  <2>6. UNCHANGED vars => G
    BY Zenon DEF vars
  <2> QED BY <2>1, <2>2, <2>3, <2>4, <2>5, <2>6, Zenon DEF Next
<1>3. ASSUME NEW w \in Workers, MarkFault(w) \/ Crash(w)
      PROVE  \/ crashes' = crashes + 1 /\ faults' = faults
             \/ crashes' = crashes /\ faults' = faults + 1
  BY <1>3, Zenon DEF MarkFault, Crash
<1>4. ASSUME NEW w \in Workers, MarkFault(w) \/ Crash(w)
      PROVE  crashes' + faults' = crashes + faults + 1
  BY ONLY <1>1, <1>3, <1>4
<1>5. {crashes', faults'} \subseteq Nat /\ crashes <= crashes' /\ faults <= faults'
  BY ONLY <1>1, <1>2
<1> QED BY <1>1, <1>4, <1>5, Zenon

\* The count is kept by every step.
LEMMA CountedStep == IInv /\ OneCopy /\ Counted /\ [Next]_vars => Counted'
<1> SUFFICES ASSUME IInv, OneCopy, Counted, [Next]_vars, NEW i \in Items
             PROVE  delivered'[i] <= Cardinality(Spent(i)') + crashes' + faults'
  BY Zenon DEF Counted
<1> DEFINE A == Cardinality(Spent(i))
           B == Cardinality(Spent(i)')
<1>f. /\ IsFiniteSet(Spent(i)) /\ IsFiniteSet(Spent(i)')
      /\ A \in Nat /\ B \in Nat
  <2>1. Spent(i) \subseteq Workers /\ Spent(i)' \subseteq Workers
    BY Zenon DEF Spent
  <2> QED BY <2>1, FS_Subset, FS_CardinalityType, Zenon
<1>s. delivered[i] \in Nat /\ delivered[i] <= A + crashes + faults
  BY Zenon DEF Counted, IInv, TypeOK
<1>n. {crashes, faults, crashes', faults'} \subseteq Nat /\ crashes <= crashes' /\ faults <= faults'
  BY TroublesGrow, Zenon
<1>1. CASE owner[i] = None
  <2>1. delivered[i] = 0
    BY <1>1, Zenon DEF OneCopy
  <2>2. ASSUME NEW w \in Workers, SendAccepted(w) PROVE cur[w].id # i
    BY <1>1, <2>2, Zenon DEF SendAccepted, OneCopy
  <2>3. delivered'[i] = delivered[i]
    BY <2>2, Accepted, Zenon DEF SendAccepted, IInv, TypeOK
  <2> QED BY ONLY <1>f, <1>n, <2>1, <2>3
<1>2. ASSUME owner[i] # None, NEW w \in Workers, MarkFault(w) \/ Crash(w),
             pc[w] = "sent", cur[w].id = i
      PROVE  delivered'[i] <= B + crashes' + faults'
  <2>1. delivered' = delivered
    BY <1>2, Zenon DEF MarkFault, Crash
  <2>2. \A v \in Workers : (MarkFault(v) \/ Crash(v)) /\ pc[v] = "sent" => v = w
    <3>1. SUFFICES ASSUME NEW v \in Workers, MarkFault(v) \/ Crash(v), pc[v] = "sent", v # w
                   PROVE  FALSE
      BY Zenon
    <3>t. pc \in [Procs -> {"idle", "selected", "loop", "lookup", "send", "sent",
                            "failed", "notify", "badMember", "badPayload"}]
      BY Zenon DEF IInv, TypeOK
    <3>2. pc'[v] # "sent"
      BY <3>1, <3>t, Zenon DEF MarkFault, Crash
    <3>3. pc'[v] = "sent"
      BY <1>2, <3>1, <3>t, ZenonT(60) DEF MarkFault, Crash
    <3> QED BY <3>2, <3>3, Zenon
  <2>3. Spent(i) \ {w} \subseteq Spent(i)'
    BY <1>2, <2>2, PastStays, Zenon DEF Spent
  <2>4. Cardinality(Spent(i) \ {w}) = A - 1 \/ Cardinality(Spent(i) \ {w}) = A
    BY <1>f, FS_RemoveElement, Zenon
  <2>5. Cardinality(Spent(i) \ {w}) <= B
    BY <1>f, <2>3, FS_Subset, Zenon
  <2>6. crashes' + faults' = crashes + faults + 1
    BY <1>2, TroublesGrow, Zenon
  <2> HIDE DEF A, B
  <2> QED BY ONLY <1>f, <1>s, <1>n, <2>1, <2>4, <2>5, <2>6
<1>3. CASE /\ owner[i] # None
           /\ \A w \in Workers : ~((MarkFault(w) \/ Crash(w)) /\ pc[w] = "sent" /\ cur[w].id = i)
  <2>1. Spent(i) \subseteq Spent(i)'
    BY <1>3, PastStays, Zenon DEF Spent
  <2>2. A <= B
    BY <1>f, <2>1, FS_Subset, Zenon
  <2>3. CASE delivered'[i] = delivered[i]
    BY ONLY <1>f, <1>s, <1>n, <2>2, <2>3
  <2>4. ASSUME NEW w \in Workers, SendAccepted(w), cur[w].id = i
        PROVE  delivered'[i] <= B + crashes' + faults'
    <3>1. w \notin Spent(i)
      BY <2>4, Zenon DEF SendAccepted, Spent, Past
    <3>2. w \in Spent(i)'
      <4>1. pc'[w] = "sent" /\ batch'[w] = batch[w] /\ cur'[w].id = i
        BY <2>4, Zenon DEF SendAccepted, IInv, TypeOK
      <4>2. \A s \in batch[w] : s.id # i
        BY <2>4, Zenon DEF SendAccepted, OneCopy
      <4> QED BY <4>1, <4>2, Zenon DEF Spent, Past
    <3>3. Spent(i) \cup {w} \subseteq Spent(i)'
      BY <2>1, <3>2, Zenon
    <3>4. Cardinality(Spent(i) \cup {w}) = A + 1
      BY <1>f, <3>1, FS_AddElement, Zenon
    <3>5. Cardinality(Spent(i) \cup {w}) <= B
      BY <1>f, <3>3, FS_Subset, Zenon
    <3>6. delivered'[i] = delivered[i] + 1
      BY <2>4, Zenon DEF SendAccepted, IInv, TypeOK
    <3> HIDE DEF A, B
    <3> QED BY ONLY <1>f, <1>s, <1>n, <3>4, <3>5, <3>6, SMTT(30)
  <2>5. delivered'[i] = delivered[i] \/ \E w \in Workers : SendAccepted(w) /\ cur[w].id = i
    BY Accepted, ZenonT(60) DEF SendAccepted, IInv, TypeOK
  <2> QED BY <2>3, <2>4, <2>5, Zenon
<1> QED BY <1>1, <1>2, <1>3, Zenon

\* Trakt accepts an item no more often than there are workers, crashes and failing
\* calls: a worker that has sent an item sends it again only when MarkRetrySuccess
\* was not reached or failed, however many workers fetched the same row.
THEOREM DuplicatesHold == Spec => []DuplicatesAreExplained
<1>1. Init => Owned /\ OneCopy
  <2>1. Init => Owned
    BY DEF Init, Owned
  <2>2. Init => OneCopy
    BY Zenon DEF Init, OneCopy
  <2> QED BY <2>1, <2>2, Zenon
<1>2. Init => Counted
  <2> SUFFICES ASSUME Init, NEW i \in Items
               PROVE  delivered[i] <= Cardinality(Spent(i)) + crashes + faults
    BY Zenon DEF Counted
  <2>1. Spent(i) \subseteq Workers
    BY Zenon DEF Spent
  <2>2. Cardinality(Spent(i)) \in Nat
    BY <2>1, FS_Subset, FS_CardinalityType, Zenon
  <2>3. delivered[i] = 0 /\ crashes = 0 /\ faults = 0
    BY Zenon DEF Init
  <2> QED BY ONLY <2>2, <2>3
<1>3. IInv /\ Counted => DuplicatesAreExplained
  <2> SUFFICES ASSUME IInv, Counted, NEW i \in Items
               PROVE  delivered[i] <= Cardinality(Workers) + crashes + faults
    BY Zenon DEF DuplicatesAreExplained
  <2>1. Spent(i) \subseteq Workers
    BY Zenon DEF Spent
  <2>2. Cardinality(Spent(i)) <= Cardinality(Workers)
    BY <2>1, FS_Subset, Zenon
  <2>3. Cardinality(Spent(i)) \in Nat /\ Cardinality(Workers) \in Nat
    BY <2>1, FS_Subset, FS_CardinalityType, Zenon
  <2>4. delivered[i] \in Nat /\ crashes \in Nat /\ faults \in Nat
    BY DEF IInv, TypeOK
  <2>5. delivered[i] <= Cardinality(Spent(i)) + crashes + faults
    BY Zenon DEF Counted
  <2> QED BY ONLY <2>2, <2>3, <2>4, <2>5
<1> QED BY <1>1, <1>2, <1>3, InitIInv, NextIInv, OwnedStep, OneCopyStep, CountedStep, PTL DEF Spec
=============================================================================
