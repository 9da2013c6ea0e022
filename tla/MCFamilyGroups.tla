--------------------------- MODULE MCFamilyGroups ---------------------------
(* Instances of FamilyGroups for TLC.  All wizards ask for one Plex username; *)
(* the members' labels differ, and none is the name of an account.            *)
EXTENDS FamilyGroups, TLC

OnePlex == [w \in Wizards |-> "plex"]
OwnLabel == [m \in MemberIds |-> m]

Symmetry == Permutations(Wizards) \cup Permutations(Admins)
            \cup Permutations(Callbacks) \cup Permutations(Accounts) \cup Permutations(MemberIds)
=============================================================================
