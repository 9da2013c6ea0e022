----------------------------- MODULE DrainSystem -----------------------------
(***************************************************************************)
(* When the offline queue is drained (main.go, startQueueDrainSystem): the *)
(* health checker, the loop that listens to it, the drain a process starts *)
(* two seconds after it came up, and the scrobbles that fail meanwhile.    *)
(*                                                                         *)
(* How a drain treats an event is the subject of OfflineQueue; here an     *)
(* event is sent while Trakt answers, and given up, after the five         *)
(* attempts of sendEventWithRetry, while it does not.                      *)
(***************************************************************************)
EXTENDS HealthChecker

CONSTANTS MaxArrivals, \* bound: scrobbles that fail
          MaxRestarts, \* bound: restarts of the process
          MaxOutages   \* bound: changes of Trakt's availability

ASSUME DrainAssumption == {MaxArrivals, MaxRestarts, MaxOutages} \subseteq Nat

VARIABLES queued,      \* number of events in the users' queues
          draining,    \* number of drains that run
          initial,     \* whether the startup drain is still to come
          arrivals, restarts, outages

work == <<queued, draining, initial>>
limits == <<arrivals, restarts, outages>>
vars == <<healthVars, work, limits>>

TypeOK ==
    /\ HealthTypeOK
    /\ queued \in 0..MaxArrivals
    /\ draining \in Nat
    /\ initial \in BOOLEAN
    /\ arrivals \in 0..MaxArrivals
    /\ restarts \in 0..MaxRestarts
    /\ outages \in 0..MaxOutages

Init ==
    /\ HealthInit
    /\ queued = 0
    /\ draining = 0
    /\ initial = TRUE
    /\ arrivals = 0
    /\ restarts = 0
    /\ outages = 0

\* scrobbleRequest fails: Trakt is unreachable, or answers 429 or 5xx to this
\* request although it is up.
ScrobbleFails ==
    /\ arrivals < MaxArrivals
    /\ arrivals' = arrivals + 1
    /\ queued' = queued + 1
    /\ UNCHANGED <<healthVars, draining, initial, restarts, outages>>

\* initiateQueueDrain: drains are started for the users with queued events.
StartDrains == draining' = IF queued > 0 THEN draining + 1 ELSE draining

\* Variant of InitialDrain: the new process waits for the health checker.
InitialDrainWaits ==
    /\ initial
    /\ initial' = FALSE
    /\ UNCHANGED <<healthVars, queued, draining, limits>>

\* Two seconds after the start of the process, whatever the health checker says.
InitialDrain ==
    /\ initial
    /\ initial' = FALSE
    /\ StartDrains
    /\ UNCHANGED <<healthVars, queued, limits>>

\* Variant of Receive: the listener starts drains when an outage begins.
ReceiveOutage ==
    /\ stateChan # <<>>
    /\ stateChan' = Tail(stateChan)
    /\ IF Head(stateChan) = "queue" THEN StartDrains ELSE UNCHANGED draining
    /\ UNCHANGED <<checker, trakt, queued, initial, limits>>

\* The listener of startQueueDrainSystem.
Receive ==
    /\ stateChan # <<>>
    /\ stateChan' = Tail(stateChan)
    /\ IF Head(stateChan) = "live" THEN StartDrains ELSE UNCHANGED draining
    /\ UNCHANGED <<checker, trakt, queued, initial, limits>>

\* Variant of DrainStep: an empty answer does not end the drain.
DrainStepBlind ==
    /\ draining > 0
    /\ queued' = queued - 1
    /\ UNCHANGED <<healthVars, draining, initial, limits>>

\* drainUserQueue takes an event off the queue, sent or given up, or finds the
\* queue empty and ends.
DrainStep ==
    /\ draining > 0
    /\ IF queued > 0
       THEN queued' = queued - 1 /\ UNCHANGED draining
       ELSE draining' = draining - 1 /\ UNCHANGED queued
    /\ UNCHANGED <<healthVars, initial, limits>>

\* A check, with the listener less than a full channel behind.
Check ==
    /\ CheckHealth
    /\ UNCHANGED <<work, limits>>

\* Time passes; in five minutes the listener, which only starts goroutines,
\* has made room in the channel.
TimePasses ==
    /\ Len(stateChan) < ChanCap
    /\ Pass
    /\ UNCHANGED <<work, limits>>

TraktChanges ==
    /\ outages < MaxOutages
    /\ outages' = outages + 1
    /\ Flip
    /\ UNCHANGED <<work, arrivals, restarts>>

\* The process dies and a new one starts, with a new health checker.
Restart ==
    /\ restarts < MaxRestarts
    /\ restarts' = restarts + 1
    /\ mode' = "live"
    /\ down' = 0
    /\ wait' = Short
    /\ stateChan' = <<>>
    /\ steady' = 0
    /\ draining' = 0
    /\ initial' = TRUE
    /\ UNCHANGED <<up, queued, arrivals, outages>>

Next ==
    \/ ScrobbleFails \/ InitialDrain \/ Receive \/ DrainStep
    \/ Check \/ TimePasses \/ TraktChanges \/ Restart

Spec == Init /\ [][Next]_vars

\* Time passes, the ticker fires, and the goroutines run: the listener, the
\* drains and the startup drain wait for nothing but the network, whose calls
\* time out.
Fairness ==
    /\ WF_vars(TimePasses) /\ WF_vars(Check)
    /\ WF_vars(Receive) /\ WF_vars(InitialDrain) /\ WF_vars(DrainStep)

FairSpec == Spec /\ Fairness

-----------------------------------------------------------------------------
(* Properties *)

\* An event that is in the queue while the checker is in queue mode is taken
\* off it, once Trakt is back for good: the recovery is noticed, announced and
\* answered with a drain that goes on until the queue is empty.
OutageQueueIsDrained ==
    <>[]up => (mode = "queue" /\ queued > 0 ~> queued = 0)

\* After a restart whatever is in the queue is taken off it, although the new
\* health checker starts in live mode and announces nothing.
RestartDrains == initial /\ queued > 0 ~> queued = 0

\* "initiateQueueDrain starts per-user drain goroutines when Trakt becomes
\* available": what is in the queue while Trakt answers is taken off it.
QueueIsDrained == queued > 0 /\ up ~> queued = 0 \/ ~up
=============================================================================
