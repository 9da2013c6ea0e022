---------------------------- MODULE HealthChecker ----------------------------
(***************************************************************************)
(* The adaptive health check of the Trakt API (lib/trakt/health.go): a     *)
(* ticker whose period is short while Trakt answers and in the first       *)
(* minutes of an outage, and long afterwards; every change of mode is put  *)
(* on a channel without blocking.                                          *)
(*                                                                         *)
(* Time is counted in units of the short interval.  The time since         *)
(* DowntimeSince only matters up to the threshold it is compared with, so  *)
(* it stops there.  A check takes ten seconds at most and is one step.     *)
(***************************************************************************)
EXTENDS Naturals, Sequences

CONSTANTS Short,     \* ShortHealthCheckInterval, 5 minutes
          Long,      \* LongHealthCheckInterval, 60 minutes
          Threshold, \* ExtendedOutageThreshold, 20 minutes
          ChanCap    \* capacity of stateChan, 10

ASSUME HealthAssumption ==
    /\ Short \in Nat \ {0}
    /\ Long \in Nat
    /\ Threshold \in Nat
    /\ Short <= Long
    /\ ChanCap \in Nat \ {0}

VARIABLES mode,      \* state.Mode
          down,      \* time since state.DowntimeSince, up to Threshold
          wait,      \* time until the ticker fires
          stateChan, \* the messages nobody has received yet
          up,        \* whether Trakt answers
          steady     \* history: how long it has been so for this process, up to Long + 1

checker == <<mode, down, wait>>
trakt == <<up, steady>>
healthVars == <<checker, stateChan, trakt>>

HealthTypeOK ==
    /\ mode \in {"live", "queue"}
    /\ down \in 0..Threshold
    /\ wait \in 0..Long
    /\ stateChan \in Seq({"live", "queue"})
    /\ up \in BOOLEAN
    /\ steady \in 0..Long + 1

HealthInit ==
    /\ mode = "live"
    /\ down = 0
    /\ wait = Short
    /\ stateChan = <<>>
    /\ up \in BOOLEAN
    /\ steady = 0

\* Variant of calculateInterval: the two intervals are exchanged.
IntervalsExchanged(m, elapsed) ==
    IF m = "live" \/ elapsed < Threshold THEN Long ELSE Short

\* calculateInterval, from the mode and the time since DowntimeSince.
calculateInterval(m, elapsed) ==
    IF m = "live" \/ elapsed < Threshold THEN Short ELSE Long

\* The non-blocking send: a full channel drops the message.
Emit(state) ==
    stateChan' = IF Len(stateChan) < ChanCap THEN Append(stateChan, state) ELSE stateChan

\* A healthy check: RecordSuccess and ticker.Reset(NextInterval()).
RecordSuccess ==
    /\ mode' = "live"
    /\ wait' = calculateInterval("live", down)
    /\ IF mode = "queue" THEN Emit("live") ELSE UNCHANGED stateChan
    /\ UNCHANGED down

\* Variant of RecordFailure: every failing check announces the outage.
RecordFailureRepeats ==
    /\ mode' = "queue"
    /\ down' = IF mode = "live" THEN 0 ELSE down
    /\ Emit("queue")
    /\ wait' = calculateInterval("queue", down')

\* A failed check: RecordFailure and ticker.Reset(NextInterval()).
RecordFailure ==
    /\ mode' = "queue"
    /\ down' = IF mode = "live" THEN 0 ELSE down
    /\ IF mode = "live" THEN Emit("queue") ELSE UNCHANGED stateChan
    /\ wait' = calculateInterval("queue", down')

\* The ticker fires in runHealthCheckLoop.
CheckHealth ==
    /\ wait = 0
    /\ IF up THEN RecordSuccess ELSE RecordFailure
    /\ UNCHANGED trakt

\* A unit of time passes; a check that is due is not put off by as much.
Pass ==
    /\ wait > 0
    /\ wait' = wait - 1
    /\ down' = IF mode = "queue" /\ down < Threshold THEN down + 1 ELSE down
    /\ steady' = IF steady <= Long THEN steady + 1 ELSE steady
    /\ UNCHANGED <<mode, stateChan, up>>

\* Trakt becomes unreachable or reachable.
Flip ==
    /\ up' = ~up
    /\ steady' = 0
    /\ UNCHANGED <<checker, stateChan>>

-----------------------------------------------------------------------------
(* Properties *)

\* An outage that lasts is noticed within the short interval, a recovery that
\* lasts within the long one, and within the short one when the outage has not
\* reached the threshold: resetting the ticker after each check, with the
\* interval computed from DowntimeSince, never lets the checker fall behind.
ChangesAreNoticed ==
    /\ mode = "live" /\ ~up => steady <= Short
    /\ mode = "queue" /\ up => steady <= Long
    /\ mode = "queue" /\ up /\ down < Threshold => steady <= Short

\* What the channel still holds leads to the present mode: its messages
\* alternate and the last of them is the mode, so that a listener that has
\* received everything knows the mode.
ChannelTellsMode ==
    /\ \A i \in 1..Len(stateChan) - 1 : stateChan[i] # stateChan[i + 1]
    /\ stateChan # <<>> => stateChan[Len(stateChan)] = mode
=============================================================================
