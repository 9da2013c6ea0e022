--------------------------- MODULE MCOfflineQueue ---------------------------
(* Instances of OfflineQueue for TLC. *)
EXTENDS OfflineQueue, TLC

\* The first two events are of the same media on the same player, a "start" and
\* the "stop" that follows it; the others differ.
SharedKey == [e \in Events |-> IF e <= 2 THEN 1 ELSE e]

Symmetry == Permutations(Enqueuers) \cup Permutations(Drains)
=============================================================================
