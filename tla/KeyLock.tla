------------------------------- MODULE KeyLock -------------------------------
(***************************************************************************)
(* What MultipleLock of lib/common/lock.go promises its callers: one       *)
(* readers-writer lock per key.  A goroutine asks for a key, gets in when  *)
(* nobody is inside whose mode conflicts with its own, and leaves; the     *)
(* process goes on.  Once the promise is broken nothing is promised.       *)
(***************************************************************************)
CONSTANTS Procs, Keys, None

VARIABLES place,   \* where each goroutine is: "out", "asking" or "inside"
          key,     \* the key it asked for, and as what: "w" or "r"
          mode,
          alive,   \* whether the process runs
          broken

vars == <<place, key, mode, alive, broken>>

Init ==
    /\ place = [p \in Procs |-> "out"]
    /\ key = [p \in Procs |-> None]
    /\ mode \in [Procs -> {"w", "r"}]
    /\ alive = TRUE
    /\ broken = FALSE

Ask(p) ==
    /\ place[p] = "out"
    /\ place' = [place EXCEPT ![p] = "asking"]
    /\ \E k \in Keys : key' = [key EXCEPT ![p] = k]
    /\ \E m \in {"w", "r"} : mode' = [mode EXCEPT ![p] = m]

Conflict(p, q) == key[p] = key[q] /\ "w" \in {mode[p], mode[q]}

Enter(p) ==
    /\ place[p] = "asking"
    /\ \A q \in Procs : place[q] = "inside" => ~Conflict(p, q)
    /\ place' = [place EXCEPT ![p] = "inside"]
    /\ UNCHANGED <<key, mode>>

Exit(p) ==
    /\ place[p] = "inside"
    /\ place' = [place EXCEPT ![p] = "out"]
    /\ key' = [key EXCEPT ![p] = None]
    /\ UNCHANGED mode

Next ==
    \/ /\ \E p \in Procs : Ask(p) \/ Enter(p) \/ Exit(p)
       /\ alive /\ UNCHANGED <<alive, broken>>
    \/ broken'

Spec == Init /\ [][Next]_vars
=============================================================================
