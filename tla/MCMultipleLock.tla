--------------------------- MODULE MCMultipleLock ---------------------------
(* Small instances of MultipleLock for TLC.                                   *)
EXTENDS MultipleLock, TLC

\* Every goroutine may lock every key.
AllKeys == [p \in Procs |-> Keys]

\* Nothing is claimed of what follows a race.
NotRaced == ~raced
=============================================================================
