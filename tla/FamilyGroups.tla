---------------------------- MODULE FamilyGroups ----------------------------
(***************************************************************************)
(* Family groups on PostgreSQL: the wizard that creates a group and its    *)
(* pending members (createFamilyAuthState), the OAuth callback that        *)
(* authorizes a member (authorizeFamilyMember), and the administration of  *)
(* groups (main.go), on the tables family_groups and group_members         *)
(* (lib/store/postgresql_family.go, tables created in postgresql.go).      *)
(*                                                                         *)
(* Each call of the store is a step, and other requests run in between.    *)
(* A group's id is drawn by the wizard's request, and stands for it.  All  *)
(* tokens of a group's session share one FamilyGroupState and one time of  *)
(* creation, so a session is one object per group, however many tokens it  *)
(* has.  It lives in memory and is never removed, only too old.            *)
(***************************************************************************)
EXTENDS Integers, FiniteSets

CONSTANTS Wizards,      \* requests to create a group, and the ids they draw
          Plex,         \* the Plex username each of them asks for
          Admins,       \* concurrent requests of the administration
          Callbacks,    \* concurrent OAuth callbacks
          MemberIds,    \* ids that can be drawn for members
          Label,        \* the label of a member
          Accounts,     \* Trakt accounts
          MinMembers,   \* 2 in the code
          MaxMembers,   \* 10 in the code
          Lifetime,     \* of a session: 15 minutes in the code
          MaxFaults,    \* bound: calls of the store that fail
          None

Names == Accounts \cup {Label[m] : m \in MemberIds}
Grant == [account: Accounts, name: Names]
Row == [group: Wizards, grant: Grant \cup {None}]
Session == [members: SUBSET MemberIds, authorized: SUBSET MemberIds, age: 0..(Lifetime + 1)]

ASSUME FamilyAssumption ==
    /\ MinMembers \in Nat \ {0} /\ MaxMembers \in Nat /\ MinMembers <= MaxMembers
    /\ Lifetime \in Nat /\ MaxFaults \in Nat
    /\ IsFiniteSet(MemberIds) /\ IsFiniteSet(Admins)
    /\ None \notin Wizards \cup MemberIds \cup Grant \cup Row \cup Session

VARIABLES groups,       \* rows of family_groups
          members,      \* rows of group_members, None if there is none
          drawn,        \* ids drawn for members so far
          session,      \* FamilyGroupState of a group, None before it is created
          wpc,          \* the wizard's request: where it is,
          left,         \*   how many members it has still to add,
          added,        \*   and the ids of those it has added
          apc,          \* a request to add a member: where it is,
          agroup,       \*   and for which group
          cpc,          \* a callback: where it is,
          target,       \*   the member it authorizes,
          group,        \*   the group of its session,
          grant,        \*   the account Trakt granted and the name it is saved under
          over,         \* history: limit checks passed while other inserts were pending
          raced,        \* history: groups where a duplicate check was passed while
                        \*   another callback with that name was past its own
          faults

wizard == <<wpc, left, added>>
admin == <<apc, agroup>>
callback == <<cpc, target, group, grant>>
history == <<over, raced>>
vars == <<groups, members, drawn, session, wizard, admin, callback, history, faults>>

TypeOK ==
    /\ groups \subseteq Wizards
    /\ members \in [MemberIds -> Row \cup {None}]
    /\ drawn \subseteq MemberIds
    /\ session \in [Wizards -> Session \cup {None}]
    /\ wpc \in [Wizards -> {"idle", "create", "add", "undo", "done"}]
    /\ left \in [Wizards -> 0..MaxMembers]
    /\ added \in [Wizards -> SUBSET MemberIds]
    /\ apc \in [Admins -> {"idle", "insert"}]
    /\ agroup \in [Admins -> Wizards \cup {None}]
    /\ cpc \in [Callbacks -> {"idle", "check", "update", "mark"}]
    /\ target \in [Callbacks -> MemberIds \cup {None}]
    /\ group \in [Callbacks -> Wizards \cup {None}]
    /\ grant \in [Callbacks -> Grant \cup {None}]
    /\ over \in [Wizards -> Nat]
    /\ raced \subseteq Wizards
    /\ faults \in 0..MaxFaults

Init ==
    /\ groups = {}
    /\ members = [m \in MemberIds |-> None]
    /\ drawn = {}
    /\ session = [g \in Wizards |-> None]
    /\ wpc = [w \in Wizards |-> "idle"]
    /\ left = [w \in Wizards |-> 0]
    /\ added = [w \in Wizards |-> {}]
    /\ apc = [a \in Admins |-> "idle"]
    /\ agroup = [a \in Admins |-> None]
    /\ cpc = [c \in Callbacks |-> "idle"]
    /\ target = [c \in Callbacks |-> None]
    /\ group = [c \in Callbacks |-> None]
    /\ grant = [c \in Callbacks |-> None]
    /\ over = [g \in Wizards |-> 0] /\ raced = {}
    /\ faults = 0

-----------------------------------------------------------------------------
(* The store. *)

\* ListGroupMembers: the rows of a group.
ListGroupMembers(g) == {m \in MemberIds : members[m] # None /\ members[m].group = g}

\* GetFamilyGroupByPlex finds a group of this Plex username.
PlexTaken(w) == \E g \in groups : Plex[g] = Plex[w]

\* AddGroupMember: INSERT of a pending member under a new id.
Insert(m, g) ==
    /\ m \notin drawn
    /\ drawn' = drawn \cup {m}
    /\ members' = [members EXCEPT ![m] = [group |-> g, grant |-> None]]

\* What ON DELETE CASCADE leaves of group_members.
Cascade(g) ==
    [m \in MemberIds |-> IF members[m] # None /\ members[m].group = g THEN None ELSE members[m]]

Fault == faults < MaxFaults /\ faults' = faults + 1

-----------------------------------------------------------------------------
(* createFamilyAuthState. *)

\* The request ends, and its variables with it.
End(w) == /\ wpc' = [wpc EXCEPT ![w] = "done"]
          /\ left' = [left EXCEPT ![w] = 0]
          /\ added' = [added EXCEPT ![w] = {}]

\* The request is valid and its Plex username is free, as far as the store tells.
CheckPlex(w) ==
    /\ wpc[w] = "idle"
    /\ IF PlexTaken(w)
       THEN End(w)
       ELSE /\ \E n \in MinMembers..MaxMembers : left' = [left EXCEPT ![w] = n]
            /\ wpc' = [wpc EXCEPT ![w] = "create"]
            /\ added' = added
    /\ UNCHANGED <<groups, members, drawn, session, admin, callback, history, faults>>

\* Variant of CreateFamilyGroup: the column plex_username is not unique.
CreateFamilyGroupTwice(w) ==
    /\ wpc[w] = "create"
    /\ groups' = groups \cup {w}
    /\ wpc' = [wpc EXCEPT ![w] = "add"]
    /\ UNCHANGED <<members, drawn, session, left, added, admin, callback, history, faults>>

\* CreateFamilyGroup: the unique column refuses a second group.
CreateFamilyGroup(w) ==
    /\ wpc[w] = "create"
    /\ IF PlexTaken(w)
       THEN End(w) /\ groups' = groups
       ELSE /\ groups' = groups \cup {w}
            /\ wpc' = [wpc EXCEPT ![w] = "add"]
            /\ UNCHANGED <<left, added>>
    /\ UNCHANGED <<members, drawn, session, admin, callback, history, faults>>

\* CreateFamilyGroup fails for another reason.
CreateFault(w) ==
    /\ wpc[w] = "create"
    /\ Fault
    /\ End(w)
    /\ UNCHANGED <<groups, members, drawn, session, admin, callback, history>>

\* Variant of AddPending: the loop runs once too often.
AddPendingPast(w) ==
    /\ wpc[w] = "add" /\ w \in groups
    /\ \E m \in MemberIds : /\ Insert(m, w)
                           /\ added' = [added EXCEPT ![w] = added[w] \cup {m}]
    /\ left' = [left EXCEPT ![w] = left[w] - 1]
    /\ UNCHANGED <<groups, session, wpc, admin, callback, history, faults>>

\* AddGroupMember in the wizard's loop; the foreign key refuses the row of a group
\* that has been deleted meanwhile.
AddPending(w) ==
    /\ wpc[w] = "add" /\ left[w] > 0
    /\ IF w \in groups
       THEN /\ \E m \in MemberIds : /\ Insert(m, w)
                                   /\ added' = [added EXCEPT ![w] = added[w] \cup {m}]
            /\ left' = [left EXCEPT ![w] = left[w] - 1]
            /\ wpc' = wpc
       ELSE /\ wpc' = [wpc EXCEPT ![w] = "undo"]
            /\ UNCHANGED <<members, drawn, left, added>>
    /\ UNCHANGED <<groups, session, admin, callback, history, faults>>

\* AddGroupMember fails for another reason.
AddPendingFault(w) ==
    /\ wpc[w] = "add" /\ left[w] > 0
    /\ Fault
    /\ wpc' = [wpc EXCEPT ![w] = "undo"]
    /\ UNCHANGED <<groups, members, drawn, session, left, added, admin, callback, history>>

\* DeleteFamilyGroup after a failure, whose own failure is ignored.
Undo(w) ==
    /\ wpc[w] = "undo"
    /\ \/ groups' = groups \ {w} /\ members' = Cascade(w) /\ faults' = faults
       \/ Fault /\ UNCHANGED <<groups, members>>
    /\ End(w)
    /\ UNCHANGED <<drawn, session, admin, callback, history>>

\* All members are there: the session begins, with the members this request added.
CreateSession(w) ==
    /\ wpc[w] = "add" /\ left[w] = 0
    /\ session' = [session EXCEPT ![w] =
           [members |-> added[w], authorized |-> {}, age |-> 0]]
    /\ End(w)
    /\ UNCHANGED <<groups, members, drawn, admin, callback, history, faults>>

-----------------------------------------------------------------------------
(* authorizeFamilyMember. *)

\* authStates.Get finds the session of g, and it is young enough.
Get(g) == session[g] # None /\ session[g].age <= Lifetime

\* The session is there and knows the member, and Trakt exchanges the code for
\* the tokens of the account the browser was logged in to.  Without the display name of
\* the account the label takes its place.  Every other answer changes nothing.
Exchange(c, g, m) ==
    /\ cpc[c] = "idle"
    /\ Get(g) /\ m \in session[g].members
    /\ \E a \in Accounts : \E n \in {a, Label[m]} :
           grant' = [grant EXCEPT ![c] = [account |-> a, name |-> n]]
    /\ target' = [target EXCEPT ![c] = m]
    /\ group' = [group EXCEPT ![c] = g]
    /\ cpc' = [cpc EXCEPT ![c] = "check"]
    /\ UNCHANGED <<groups, members, drawn, session, wizard, admin, history, faults>>

\* The request ends.
Finish(c) == /\ cpc' = [cpc EXCEPT ![c] = "idle"]
             /\ target' = [target EXCEPT ![c] = None]
             /\ group' = [group EXCEPT ![c] = None]
             /\ grant' = [grant EXCEPT ![c] = None]

\* Another member of the group is saved under the name of this callback.
NameTaken(c) ==
    \E m \in ListGroupMembers(group[c]) \ {target[c]} :
        members[m].grant # None /\ members[m].grant.name = grant[c].name

\* Another callback has passed its check with this name, for another member, and not
\* saved it yet.
Rivals(c) == {d \in Callbacks : /\ cpc[d] = "update"
                               /\ group[d] = group[c] /\ target[d] # target[c]
                               /\ grant[d].name = grant[c].name}

\* Variant of CheckDuplicate: a member's own row is the only one compared.
CheckDuplicateSelf(c) ==
    /\ cpc[c] = "check"
    /\ cpc' = [cpc EXCEPT ![c] = "update"]
    /\ raced' = IF Rivals(c) # {} THEN raced \cup {group[c]} ELSE raced
    /\ UNCHANGED <<groups, members, drawn, session, wizard, admin, target, group, grant, over, faults>>

\* The check for a duplicate account (FR-010a).
CheckDuplicate(c) ==
    /\ cpc[c] = "check"
    /\ IF NameTaken(c)
       THEN Finish(c) /\ raced' = raced
       ELSE /\ cpc' = [cpc EXCEPT ![c] = "update"]
            /\ raced' = IF Rivals(c) # {} THEN raced \cup {group[c]} ELSE raced
            /\ UNCHANGED <<target, group, grant>>
    /\ UNCHANGED <<groups, members, drawn, session, wizard, admin, over, faults>>

\* If the members cannot be listed the check is skipped.
CheckFault(c) ==
    /\ cpc[c] = "check"
    /\ Fault
    /\ cpc' = [cpc EXCEPT ![c] = "update"]
    /\ raced' = raced \cup {group[c]}
    /\ UNCHANGED <<groups, members, drawn, session, wizard, admin, target, group, grant, over>>

\* GetGroupMember and UpdateGroupMember.  A row's columns but for the grant never change,
\* and the UPDATE finds no row if the member is gone, so that nothing depends on what
\* happens between the two calls.
UpdateGroupMember(c) ==
    /\ cpc[c] = "update"
    /\ IF members[target[c]] = None
       THEN Finish(c) /\ members' = members
       ELSE /\ members' = [members EXCEPT ![target[c]].grant = grant[c]]
            /\ cpc' = [cpc EXCEPT ![c] = "mark"]
            /\ UNCHANGED <<target, group, grant>>
    /\ UNCHANGED <<groups, drawn, session, wizard, admin, history, faults>>

\* Variant of UpdateFault: the failure of the update is only logged.
UpdateFaultLogged(c) ==
    /\ cpc[c] = "update"
    /\ Fault
    /\ cpc' = [cpc EXCEPT ![c] = "mark"]
    /\ UNCHANGED <<groups, members, drawn, session, wizard, admin, target, group, grant, history>>

\* GetGroupMember or UpdateGroupMember fails.
UpdateFault(c) ==
    /\ cpc[c] = "update"
    /\ Fault
    /\ Finish(c)
    /\ UNCHANGED <<groups, members, drawn, session, wizard, admin, history>>

\* The member is marked in the session, which all its callbacks share without a lock, and
\* the loop over the session's members tells the browser whether all are.  A member is
\* never set back to pending, so that the loop, reading one after the other beside other
\* callbacks' marks, finds what SessionTellsTable says of every single state.
Mark(c) ==
    /\ cpc[c] = "mark"
    /\ session' = [session EXCEPT ![group[c]].authorized = @ \cup {target[c]}]
    /\ Finish(c)
    /\ UNCHANGED <<groups, members, drawn, wizard, admin, history, faults>>

-----------------------------------------------------------------------------
(* The administration. *)

\* Requests that have been allowed to insert a member into g and have not done so.
Inserting(g) == {a \in Admins : apc[a] = "insert" /\ agroup[a] = g}
Adding(g) == wpc[g] = "add" /\ left[g] > 0

\* Variant of CountMembers: one member too many is let in.
CountMembersLate(a, g) ==
    /\ apc[a] = "idle" /\ g \in groups
    /\ Cardinality(ListGroupMembers(g)) <= MaxMembers
    /\ apc' = [apc EXCEPT ![a] = "insert"]
    /\ agroup' = [agroup EXCEPT ![a] = g]
    /\ over' = [over EXCEPT ![g] = IF Inserting(g) # {} \/ Adding(g) THEN @ + 1 ELSE @]
    /\ UNCHANGED <<groups, members, drawn, session, wizard, callback, raced, faults>>

\* addFamilyGroupMember finds the group and less than the limit of members.  A group that
\* is deleted between the two calls has none, and its foreign key refuses the insertion,
\* as if it were deleted after them.
CountMembers(a, g) ==
    /\ apc[a] = "idle" /\ g \in groups
    /\ Cardinality(ListGroupMembers(g)) < MaxMembers
    /\ apc' = [apc EXCEPT ![a] = "insert"]
    /\ agroup' = [agroup EXCEPT ![a] = g]
    /\ over' = [over EXCEPT ![g] = IF Inserting(g) # {} \/ Adding(g) THEN @ + 1 ELSE @]
    /\ UNCHANGED <<groups, members, drawn, session, wizard, callback, raced, faults>>

Leave(a) == /\ apc' = [apc EXCEPT ![a] = "idle"]
            /\ agroup' = [agroup EXCEPT ![a] = None]

\* Variant of AddGroupMember: no foreign key, as on the other stores.
AddGroupMemberAnyway(a) ==
    /\ apc[a] = "insert"
    /\ \E m \in MemberIds : Insert(m, agroup[a])
    /\ Leave(a)
    /\ UNCHANGED <<groups, session, wizard, callback, history, faults>>

\* Its INSERT, which the foreign key refuses if the group is gone.
AddGroupMember(a) ==
    /\ apc[a] = "insert"
    /\ IF agroup[a] \in groups
       THEN \E m \in MemberIds : Insert(m, agroup[a])
       ELSE UNCHANGED <<members, drawn>>
    /\ Leave(a)
    /\ UNCHANGED <<groups, session, wizard, callback, history, faults>>

\* The INSERT fails for another reason.
AdminFault(a) ==
    /\ apc[a] = "insert"
    /\ Fault
    /\ Leave(a)
    /\ UNCHANGED <<groups, members, drawn, session, wizard, callback, history>>

\* removeFamilyGroupMember: the DELETE tests again what was looked up before it.
RemoveGroupMember(m) ==
    /\ members[m] # None
    /\ members' = [members EXCEPT ![m] = None]
    /\ UNCHANGED <<groups, drawn, session, wizard, admin, callback, history, faults>>

\* deleteFamilyGroup, likewise.
DeleteFamilyGroup(g) ==
    /\ g \in groups
    /\ groups' = groups \ {g}
    /\ members' = Cascade(g)
    /\ UNCHANGED <<drawn, session, wizard, admin, callback, history, faults>>

\* Time passes for the sessions.
Tick ==
    /\ \E g \in Wizards : Get(g)
    /\ session' = [g \in Wizards |->
           IF Get(g) THEN [session[g] EXCEPT !.age = @ + 1] ELSE session[g]]
    /\ UNCHANGED <<groups, members, drawn, wizard, admin, callback, history, faults>>

-----------------------------------------------------------------------------
Wizard(w) == \/ CheckPlex(w) \/ CreateFamilyGroup(w) \/ CreateFault(w)
             \/ AddPending(w) \/ AddPendingFault(w) \/ Undo(w) \/ CreateSession(w)

Callback(c) == \/ \E g \in Wizards, m \in MemberIds : Exchange(c, g, m)
               \/ CheckDuplicate(c) \/ CheckFault(c)
               \/ UpdateGroupMember(c) \/ UpdateFault(c) \/ Mark(c)

Admin(a) == \/ \E g \in Wizards : CountMembers(a, g)
            \/ AddGroupMember(a) \/ AdminFault(a)

Next == \/ \E w \in Wizards : Wizard(w) \/ DeleteFamilyGroup(w)
        \/ \E c \in Callbacks : Callback(c)
        \/ \E a \in Admins : Admin(a)
        \/ \E m \in MemberIds : RemoveGroupMember(m)
        \/ Tick

Spec == Init /\ [][Next]_vars

-----------------------------------------------------------------------------
\* A Plex username has one family group at most, also when two wizards ask for it at
\* once and both find it free (CreateFamilyGroup and its unique column).
OneGroupPerPlex == \A g, h \in groups : Plex[g] = Plex[h] => g = h

\* A member never outlives its group, whichever of its insertion, its authorization and
\* the deletion of the group comes last (foreign key, and the UPDATE that finds no row).
NoOrphans == \A m \in MemberIds : members[m] # None => members[m].group \in groups

\* What a session says of a member is in the table: a member marked authorized is saved
\* with an account, unless it was removed since.  So a browser that is told that all are
\* authorized (all_authorized in authorizeFamilyMember) is told the truth, although the
\* session is in memory, the table is not, and a call may fail between the two.
SessionTellsTable ==
    \A g \in Wizards : session[g] # None =>
        \A m \in session[g].authorized : members[m] = None \/ members[m].grant # None

\* A group exceeds the limit by no more members than there were limit checks passed
\* while the wizard, or another request, had inserts to come (addFamilyGroupMember).
LimitOnlyOverrunByRaces ==
    \A g \in Wizards : Cardinality(ListGroupMembers(g)) <= MaxMembers + over[g]

SameName(m, n) == /\ members[m] # None /\ members[n] # None
                  /\ members[m].group = members[n].group
                  /\ members[m].grant # None /\ members[n].grant # None
                  /\ members[m].grant.name = members[n].grant.name

\* Two members of a group are saved under one Trakt name only if their callbacks crossed
\* between check and update, or the check could not be made (FR-010a in
\* authorizeFamilyMember; no constraint of the table repeats it).
NamesDifferUnlessRaced ==
    \A m, n \in MemberIds : m # n /\ SameName(m, n) => members[m].group \in raced
=============================================================================
