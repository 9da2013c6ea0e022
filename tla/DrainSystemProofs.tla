-------------------------- MODULE DrainSystemProofs --------------------------
(***************************************************************************)
(* Proofs about DrainSystem and the health checker it extends, for any     *)
(* intervals, threshold and channel capacity and any number of outages,    *)
(* restarts and failed scrobbles.                                          *)
(*                                                                         *)
(* ChangesAreNoticed speaks of the time since Trakt changed; a step can    *)
(* only be judged with the time left until the next check as well, which   *)
(* is what NoticedAtNextCheck adds.  ChannelTellsMode needs that no check  *)
(* meets a full channel, which is RoomForChange.                           *)
(***************************************************************************)
EXTENDS DrainSystem, TLAPS

\* The time a change has lasted and the time left until the check that will see
\* it add up to no more than the interval the ticker was reset with.
NoticedAtNextCheck ==
    /\ mode = "live" => wait <= Short
    /\ mode = "live" /\ ~up => steady + wait <= Short
    /\ mode = "queue" /\ up => steady + wait <= Long
    /\ mode = "queue" /\ down < Threshold => wait <= Short
    /\ mode = "queue" /\ up /\ down < Threshold => steady + wait <= Short

\* A check that is due finds room in the channel.
RoomForChange == wait = 0 => Len(stateChan) < ChanCap

IInv ==
    /\ TypeOK
    /\ queued <= arrivals
    /\ NoticedAtNextCheck
    /\ RoomForChange
    /\ ChannelTellsMode

-----------------------------------------------------------------------------
\* Announcing the other mode keeps the channel's messages alternating and its
\* last message the mode, if the channel has room (Emit).
LEMMA EmitOther ==
    ASSUME HealthAssumption, HealthTypeOK, ChannelTellsMode, Len(stateChan) < ChanCap,
           NEW m \in {"live", "queue"}, m # mode, Emit(m), mode' = m
    PROVE  ChannelTellsMode' /\ stateChan' \in Seq({"live", "queue"})
<1>1. stateChan' = Append(stateChan, m)
  BY Zenon DEF Emit
<1>2. stateChan \in Seq({"live", "queue"}) /\ Len(stateChan) \in Nat
  BY DEF HealthTypeOK
<1>3. Len(stateChan') = Len(stateChan) + 1 /\ stateChan'[Len(stateChan) + 1] = m
  BY <1>1, <1>2
<1>4. \A i \in 1..Len(stateChan) : stateChan'[i] = stateChan[i]
  BY <1>1, <1>2
<1>5. stateChan # <<>> => stateChan[Len(stateChan)] = mode
  BY Zenon DEF ChannelTellsMode
<1>6. ASSUME NEW i \in 1..Len(stateChan') - 1 PROVE stateChan'[i] # stateChan'[i + 1]
  <2>1. CASE i = Len(stateChan)
    BY <2>1, <1>2, <1>3, <1>4, <1>5
  <2>2. CASE i # Len(stateChan)
    <3>1. i \in 1..Len(stateChan) - 1
      BY <2>2, <1>2, <1>3
    <3>2. stateChan[i] # stateChan[i + 1]
      BY <3>1, Zenon DEF ChannelTellsMode
    <3> QED BY <3>1, <3>2, <1>2, <1>4
  <2> QED BY <2>1, <2>2, Zenon
<1> QED BY <1>1, <1>2, <1>3, <1>6 DEF ChannelTellsMode

\* Receiving a message leaves the others alternating (the listener's range loop).
LEMMA ReceiveFirst ==
    ASSUME HealthTypeOK, ChannelTellsMode, stateChan # <<>>,
           stateChan' = Tail(stateChan), mode' = mode
    PROVE  ChannelTellsMode' /\ stateChan' \in Seq({"live", "queue"})
           /\ Len(stateChan') = Len(stateChan) - 1
<1>1. stateChan \in Seq({"live", "queue"}) /\ Len(stateChan) \in Nat \ {0}
  BY DEF HealthTypeOK
<1>2. Len(stateChan') = Len(stateChan) - 1
  BY <1>1
<1>3. \A i \in 1..Len(stateChan') : stateChan'[i] = stateChan[i + 1]
  BY <1>1
<1>4. stateChan' \in Seq({"live", "queue"})
  BY <1>1
<1>5. ASSUME NEW i \in 1..Len(stateChan') - 1 PROVE stateChan'[i] # stateChan'[i + 1]
  <2>1. i + 1 \in 1..Len(stateChan) - 1 /\ i \in 1..Len(stateChan') /\ i + 1 \in 1..Len(stateChan')
    BY <1>1, <1>2
  <2> QED BY <2>1, <1>3, Zenon DEF ChannelTellsMode
<1>6. stateChan' # <<>> => stateChan'[Len(stateChan')] = mode'
  <2>1. HAVE stateChan' # <<>>
  <2>2. Len(stateChan') \in 1..Len(stateChan')
    BY <2>1, <1>1, <1>2, <1>4
  <2> QED BY <2>2, <1>1, <1>2, <1>3 DEF ChannelTellsMode
<1> QED BY <1>2, <1>4, <1>5, <1>6, Zenon DEF ChannelTellsMode

\* A process that has just started satisfies the invariant.
LEMMA InitIInv == Init => IInv
BY HealthAssumption, DrainAssumption
   DEF Init, HealthInit, IInv, TypeOK, HealthTypeOK, NoticedAtNextCheck, RoomForChange,
       ChannelTellsMode

\* A check preserves the invariant: it resets the ticker with an interval that
\* suits the mode and the downtime it leaves behind.
LEMMA CheckIInv == IInv /\ Check => IInv'
<1> SUFFICES ASSUME IInv, Check PROVE IInv'
  BY Zenon
<1>t. HealthTypeOK /\ TypeOK /\ ChannelTellsMode
  BY Zenon DEF IInv, TypeOK
<1>r. wait = 0 /\ Len(stateChan) < ChanCap
  BY Zenon DEF IInv, RoomForChange, Check, CheckHealth
<1>u. UNCHANGED <<up, steady, queued, draining, initial, arrivals, restarts, outages>>
  BY Zenon DEF Check, CheckHealth, trakt, work, limits
<1>1. CASE up
  <2>1. RecordSuccess
    BY <1>1, Zenon DEF Check, CheckHealth
  <2>2. mode' = "live" /\ wait' = Short /\ down' = down
    BY <2>1, Zenon DEF RecordSuccess, calculateInterval
  <2>3. ChannelTellsMode' /\ stateChan' \in Seq({"live", "queue"})
    <3>1. CASE mode = "queue"
      BY <3>1, <2>1, <2>2, <1>t, <1>r, EmitOther, HealthAssumption, Zenon DEF RecordSuccess
    <3>2. CASE mode # "queue"
      <4>1. stateChan' = stateChan /\ mode' = mode
        BY <3>2, <2>1, <2>2, <1>t, Zenon DEF RecordSuccess, HealthTypeOK
      <4> QED BY <4>1, <1>t, Zenon DEF ChannelTellsMode, HealthTypeOK
    <3> QED BY <3>1, <3>2, Zenon
  <2>4. TypeOK' /\ RoomForChange' /\ (queued <= arrivals)'
    BY <2>2, <2>3, <1>t, <1>u, HealthAssumption DEF IInv, TypeOK, HealthTypeOK, RoomForChange
  <2>5. NoticedAtNextCheck'
    BY <2>2, <1>1, <1>u, HealthAssumption DEF NoticedAtNextCheck
  <2> QED BY <2>3, <2>4, <2>5, Zenon DEF IInv
<1>2. CASE ~up
  <2>1. RecordFailure
    BY <1>2, Zenon DEF Check, CheckHealth
  <2>2. mode' = "queue" /\ down' \in 0..Threshold
        /\ wait' = IF down' < Threshold THEN Short ELSE Long
    BY <2>1, <1>t, HealthAssumption DEF RecordFailure, calculateInterval, HealthTypeOK
  <2>3. ChannelTellsMode' /\ stateChan' \in Seq({"live", "queue"})
    <3>1. CASE mode = "live"
      BY <3>1, <2>1, <2>2, <1>t, <1>r, EmitOther, HealthAssumption, Zenon DEF RecordFailure
    <3>2. CASE mode # "live"
      <4>1. stateChan' = stateChan /\ mode' = mode
        BY <3>2, <2>1, <2>2, <1>t, Zenon DEF RecordFailure, HealthTypeOK
      <4> QED BY <4>1, <1>t, Zenon DEF ChannelTellsMode, HealthTypeOK
    <3> QED BY <3>1, <3>2, Zenon
  <2>4. TypeOK' /\ RoomForChange' /\ (queued <= arrivals)'
    BY <2>2, <2>3, <1>t, <1>u, HealthAssumption DEF IInv, TypeOK, HealthTypeOK, RoomForChange
  <2>5. NoticedAtNextCheck'
    BY <2>2, <1>2, <1>u, HealthAssumption DEF NoticedAtNextCheck
  <2> QED BY <2>3, <2>4, <2>5, Zenon DEF IInv
<1> QED BY <1>1, <1>2, Zenon

\* Every step of the system preserves the invariant.
LEMMA NextIInv == IInv /\ [Next]_vars => IInv'
<1> SUFFICES ASSUME IInv, [Next]_vars PROVE IInv'
  BY Zenon
<1> USE HealthAssumption, DrainAssumption
<1>1. CASE ScrobbleFails
  <2>1. UNCHANGED <<mode, down, wait, stateChan, up, steady, draining, initial, restarts, outages>>
    BY <1>1, Zenon DEF ScrobbleFails, healthVars, checker, trakt
  <2> QED BY <1>1, <2>1 DEF ScrobbleFails, IInv, TypeOK, HealthTypeOK, NoticedAtNextCheck,
                            RoomForChange, ChannelTellsMode
<1>2. CASE InitialDrain
  <2>1. UNCHANGED <<mode, down, wait, stateChan, up, steady, queued, arrivals, restarts, outages>>
    BY <1>2, Zenon DEF InitialDrain, healthVars, checker, trakt, limits
  <2>2. initial' = FALSE /\ StartDrains
    BY <1>2, Zenon DEF InitialDrain
  <2>3. draining' \in Nat
    BY <2>2 DEF StartDrains, IInv, TypeOK
  <2> QED BY <2>1, <2>2, <2>3, Zenon DEF IInv, TypeOK, HealthTypeOK, NoticedAtNextCheck, RoomForChange, ChannelTellsMode
<1>3. CASE Receive
  <2>1. UNCHANGED <<mode, down, wait, up, steady, queued, initial, arrivals, restarts, outages>>
    BY <1>3, Zenon DEF Receive, checker, trakt, limits
  <2>2. draining' \in Nat
    BY <1>3 DEF Receive, StartDrains, IInv, TypeOK
  <2>3. ChannelTellsMode' /\ stateChan' \in Seq({"live", "queue"}) /\ Len(stateChan') = Len(stateChan) - 1
    BY <1>3, <2>1, ReceiveFirst, Zenon DEF Receive, IInv, TypeOK
  <2>4. RoomForChange'
    <3>1. Len(stateChan) \in Nat
      BY DEF IInv, TypeOK, HealthTypeOK
    <3> QED BY <3>1, <2>1, <2>3 DEF IInv, RoomForChange
  <2>5. TypeOK' /\ (queued <= arrivals)' /\ NoticedAtNextCheck'
    BY <2>1, <2>2, <2>3, Zenon DEF IInv, TypeOK, HealthTypeOK, NoticedAtNextCheck
  <2> QED BY <2>3, <2>4, <2>5, Zenon DEF IInv
<1>4. CASE DrainStep
  <2>1. UNCHANGED <<mode, down, wait, stateChan, up, steady, initial, arrivals, restarts, outages>>
    BY <1>4, Zenon DEF DrainStep, healthVars, checker, trakt, limits
  <2>2. draining' \in Nat /\ queued' \in 0..MaxArrivals /\ queued' <= arrivals
    BY <1>4 DEF DrainStep, IInv, TypeOK
  <2> QED BY <2>1, <2>2, Zenon DEF IInv, TypeOK, HealthTypeOK, NoticedAtNextCheck, RoomForChange, ChannelTellsMode
<1>5. CASE Check
  BY <1>5, CheckIInv, Zenon
<1>6. CASE TimePasses
  <2>1. UNCHANGED <<mode, stateChan, up, queued, draining, initial, arrivals, restarts, outages>>
    BY <1>6, Zenon DEF TimePasses, Pass, work, limits
  <2>2. wait \in 1..Long /\ wait' = wait - 1 /\ down' \in {down, down + 1} /\ down' \in 0..Threshold
        /\ steady' \in {steady, steady + 1} /\ steady' \in 0..Long + 1 /\ down' >= down
    BY <1>6 DEF TimePasses, Pass, IInv, TypeOK, HealthTypeOK
  <2>3. TypeOK' /\ (queued <= arrivals)'
    BY <2>1, <2>2 DEF IInv, TypeOK, HealthTypeOK
  <2>4. NoticedAtNextCheck'
    <3>1. wait <= Short => wait' <= Short
      BY <2>2
    <3>2. /\ steady + wait <= Short => steady' + wait' <= Short
          /\ steady + wait <= Long => steady' + wait' <= Long
      <4>1. steady \in Nat /\ wait \in Nat
        BY DEF IInv, TypeOK, HealthTypeOK
      <4>2. wait' = wait - 1 /\ (steady' = steady \/ steady' = steady + 1)
        BY <2>2, Zenon
      <4>3. steady' + wait' <= steady + wait
        BY <4>1, <4>2
      <4> QED BY <4>1, <4>2, <4>3
    <3>3. down' < Threshold => down < Threshold
      BY <2>2 DEF IInv, TypeOK, HealthTypeOK
    <3>4. NoticedAtNextCheck /\ up' = up /\ mode' = mode
      BY <2>1, Zenon DEF IInv
    <3> QED BY <3>1, <3>2, <3>3, <3>4, Zenon DEF NoticedAtNextCheck
  <2>5. RoomForChange' /\ ChannelTellsMode'
    BY <1>6, <2>1, Zenon DEF TimePasses, IInv, RoomForChange, ChannelTellsMode
  <2> QED BY <2>3, <2>4, <2>5, Zenon DEF IInv
<1>7. CASE TraktChanges
  <2>1. UNCHANGED <<mode, down, wait, stateChan, queued, draining, initial, arrivals, restarts>>
    BY <1>7, Zenon DEF TraktChanges, Flip, checker, work
  <2>2. up' \in BOOLEAN /\ steady' = 0 /\ outages' \in 0..MaxOutages
    BY <1>7 DEF TraktChanges, Flip, IInv, TypeOK
  <2>3. TypeOK' /\ (queued <= arrivals)' /\ RoomForChange' /\ ChannelTellsMode'
    BY <2>1, <2>2 DEF IInv, TypeOK, HealthTypeOK, RoomForChange, ChannelTellsMode
  <2>4. NoticedAtNextCheck'
    <3>1. steady' + wait' <= Long
      BY <2>1, <2>2 DEF IInv, TypeOK, HealthTypeOK
    <3>2. mode' = "live" => wait' <= Short
      BY <2>1, Zenon DEF IInv, NoticedAtNextCheck
    <3>3. mode' = "queue" /\ down' < Threshold => wait' <= Short
      BY <2>1, Zenon DEF IInv, NoticedAtNextCheck
    <3>4. wait' <= Short => steady' + wait' <= Short
      BY <2>1, <2>2 DEF IInv, TypeOK, HealthTypeOK
    <3> QED BY <3>1, <3>2, <3>3, <3>4, Zenon DEF NoticedAtNextCheck
  <2> QED BY <2>3, <2>4, Zenon DEF IInv
<1>8. CASE Restart
  BY <1>8 DEF Restart, IInv, TypeOK, HealthTypeOK, NoticedAtNextCheck, RoomForChange, ChannelTellsMode
<1>9. CASE UNCHANGED vars
  BY <1>9, Zenon DEF vars, healthVars, checker, trakt, work, limits, IInv, TypeOK, HealthTypeOK,
              NoticedAtNextCheck, RoomForChange, ChannelTellsMode
<1> QED BY <1>1, <1>2, <1>3, <1>4, <1>5, <1>6, <1>7, <1>8, <1>9, Zenon DEF Next

\* The inductive invariant holds in every state the drain system reaches.
THEOREM Invariance == Spec => []IInv
BY InitIInv, NextIInv, PTL DEF Spec

\* The health checker's and the drain loop's state keeps its type; in
\* particular drains do not take more events off the queue than were put on it.
THEOREM TypeCorrect == Spec => []TypeOK
<1>1. IInv => TypeOK
  BY Zenon DEF IInv
<1> QED BY <1>1, Invariance, PTL

\* A lasting outage is noticed within the short interval and a lasting recovery
\* within the long one, for every choice of the intervals and the threshold
\* (runHealthCheckLoop, calculateInterval).
THEOREM NoticedHolds == Spec => []ChangesAreNoticed
<1>1. IInv => ChangesAreNoticed
  BY HealthAssumption DEF IInv, TypeOK, HealthTypeOK, NoticedAtNextCheck, ChangesAreNoticed
<1> QED BY <1>1, Invariance, PTL

\* What is still in stateChan alternates and ends with the present mode, for
\* every capacity of the channel (RecordSuccess, RecordFailure).
THEOREM ChannelHolds == Spec => []ChannelTellsMode
<1>1. IInv => ChannelTellsMode
  BY Zenon DEF IInv
<1> QED BY <1>1, Invariance, PTL
=============================================================================
