------------------------- MODULE FamilyGroupsProofs -------------------------
(***************************************************************************)
(* Theorems about FamilyGroups: for any number of wizards, callbacks,      *)
(* requests of the administration, members, accounts and failing calls.    *)
(*                                                                         *)
(* The type invariant needs to know what a request in progress carries     *)
(* (CallbackOK, AdminOK).  The session tells the truth because an id is    *)
(* drawn once and stays with its group (IdsOK), and because a callback     *)
(* marks what it has saved (MarkOK).  Names differ because a callback past *)
(* its check has no rival, in the table or in flight, unless the group has *)
(* been raced (NamesOK).  The limit is kept by counting the insertions     *)
(* under way with the members (LimitFor).                                  *)
(***************************************************************************)
EXTENDS FamilyGroups, FiniteSetTheorems, TLAPS

\* A callback in progress has a member, a group with a session that has the member, and
\* a grant.
CallbackOK ==
    \A c \in Callbacks : cpc[c] # "idle" =>
        /\ target[c] \in MemberIds /\ group[c] \in Wizards /\ grant[c] \in Grant
        /\ session[group[c]] # None /\ target[c] \in session[group[c]].members

AdminOK == \A a \in Admins : apc[a] = "insert" => agroup[a] \in Wizards

\* A session begins when its wizard ends.
WizardOK == \A w \in Wizards : wpc[w] # "done" => session[w] = None

TInv == TypeOK /\ CallbackOK /\ AdminOK /\ WizardOK

LEMMA InitTInv == Init => TInv
  BY FamilyAssumption DEF Init, TInv, TypeOK, CallbackOK, AdminOK, WizardOK

\* A wizard's request.
LEMMA WizardTInv == ASSUME TInv, NEW w \in Wizards, Wizard(w) PROVE TInv'
<1> USE FamilyAssumption DEF TInv
<1>1. CASE CheckPlex(w)
  BY <1>1, SMTT(30) DEF CheckPlex, End, TypeOK, CallbackOK, AdminOK, WizardOK, admin, callback, history
<1>2. CASE CreateFamilyGroup(w) \/ CreateFault(w)
  BY <1>2, SMTT(30) DEF CreateFamilyGroup, CreateFault, Fault, End, TypeOK, CallbackOK, AdminOK, WizardOK, admin, callback, history
<1>3. CASE AddPending(w)
  <2>1. members' \in [MemberIds -> Row \cup {None}] /\ drawn' \subseteq MemberIds
    BY <1>3 DEF AddPending, Insert, TypeOK, Row
  <2>2. left' \in [Wizards -> 0..MaxMembers]
    BY <1>3 DEF AddPending, TypeOK
  <2>3. added' \in [Wizards -> SUBSET MemberIds] /\ wpc' \in [Wizards -> {"idle", "create", "add", "undo", "done"}]
    BY <1>3 DEF AddPending, TypeOK
  <2> QED BY <1>3, <2>1, <2>2, <2>3, ZenonT(60) DEF AddPending, TypeOK, CallbackOK, AdminOK, WizardOK, admin, callback, history
<1>4. CASE AddPendingFault(w)
  BY <1>4 DEF AddPendingFault, Fault, TypeOK, CallbackOK, AdminOK, WizardOK, admin, callback, history
<1>5. CASE Undo(w)
  <2>1. members' \in [MemberIds -> Row \cup {None}]
    BY <1>5, ZenonT(60) DEF Undo, Cascade, TypeOK
  <2> QED BY <1>5, <2>1 DEF Undo, Fault, End, TypeOK, CallbackOK, AdminOK, WizardOK, admin, callback, history
<1>6. CASE CreateSession(w)
  <2>1. added[w] \in SUBSET MemberIds /\ 0 \in 0..(Lifetime + 1)
    BY DEF TypeOK
  <2>2. session' \in [Wizards -> Session \cup {None}]
    BY <1>6, <2>1, Zenon DEF CreateSession, TypeOK, Session
  <2>3. \A c \in Callbacks : cpc[c] # "idle" => group[c] # w
    BY <1>6, Zenon DEF CreateSession, CallbackOK, WizardOK
  <2>4. CallbackOK'
    BY <1>6, <2>3, Zenon DEF CreateSession, CallbackOK, TypeOK, callback
  <2> QED BY <1>6, <2>2, <2>4, ZenonT(60) DEF CreateSession, End, TypeOK, AdminOK, WizardOK, admin, callback, history
<1> QED BY <1>1, <1>2, <1>3, <1>4, <1>5, <1>6, Zenon DEF Wizard

\* An authorization callback.
LEMMA CallbackTInv == ASSUME TInv, NEW c \in Callbacks, Callback(c) PROVE TInv'
<1> USE FamilyAssumption DEF TInv
<1>1. CASE \E g \in Wizards, m \in MemberIds : Exchange(c, g, m)
  <2>1. PICK g \in Wizards, m \in MemberIds : Exchange(c, g, m)
    BY <1>1, Zenon
  <2>2. PICK a \in Accounts, n \in Names :
            grant' = [grant EXCEPT ![c] = [account |-> a, name |-> n]]
    BY <2>1, Zenon DEF Exchange, Names
  <2>3. [account |-> a, name |-> n] \in Grant
    BY Zenon DEF Grant
  <2>4. grant' \in [Callbacks -> Grant \cup {None}] /\ grant'[c] \in Grant
        /\ \A d \in Callbacks : d # c => grant'[d] = grant[d]
    BY <2>2, <2>3, Zenon DEF TypeOK
  <2>5. TypeOK'
    BY <2>1, <2>4, Zenon DEF Exchange, TypeOK, wizard, admin, history
  <2>6. CallbackOK'
    BY <2>1, <2>4, ZenonT(60) DEF Exchange, CallbackOK, TypeOK, Get
  <2> QED BY <2>1, <2>5, <2>6, Zenon DEF Exchange, AdminOK, WizardOK, wizard, admin
<1>2. CASE CheckDuplicate(c) \/ CheckFault(c)
  <2>1. group[c] \in Wizards
    BY <1>2, Zenon DEF CheckDuplicate, CheckFault, CallbackOK
  <2> QED BY <1>2, <2>1, SMTT(30) DEF CheckDuplicate, CheckFault, Fault, Finish, TypeOK, CallbackOK, AdminOK, WizardOK, wizard, admin
<1>3. CASE UpdateGroupMember(c)
  <2>1. target[c] \in MemberIds /\ grant[c] \in Grant
    BY <1>3, Zenon DEF UpdateGroupMember, CallbackOK
  <2>2. members' \in [MemberIds -> Row \cup {None}]
    BY <1>3, <2>1 DEF UpdateGroupMember, TypeOK, Row
  <2> QED BY <1>3, <2>2, SMTT(30) DEF UpdateGroupMember, Finish, TypeOK, CallbackOK, AdminOK, WizardOK, wizard, admin, history
<1>4. CASE UpdateFault(c)
  BY <1>4 DEF UpdateFault, Fault, Finish, TypeOK, CallbackOK, AdminOK, WizardOK, wizard, admin, history
<1>5. CASE Mark(c)
  <2>1. target[c] \in MemberIds /\ group[c] \in Wizards /\ session[group[c]] \in Session
    BY <1>5, ZenonT(60) DEF Mark, CallbackOK, TypeOK
  <2>2. session' \in [Wizards -> Session \cup {None}]
    BY <1>5, <2>1, ZenonT(60) DEF Mark, TypeOK, Session
  <2>3. \A g \in Wizards : /\ session[g] = None => session'[g] = None
                           /\ session[g] # None => session'[g] # None /\ session'[g].members = session[g].members
    BY <1>5, <2>1 DEF Mark, TypeOK, Session
  <2>4. CallbackOK'
    BY <1>5, <2>3 DEF Mark, Finish, CallbackOK, TypeOK
  <2>5. TypeOK'
    BY <1>5, <2>2, Zenon DEF Mark, Finish, TypeOK, wizard, admin, history
  <2>6. WizardOK'
    BY <1>5, <2>3, Zenon DEF Mark, WizardOK, wizard
  <2> QED BY <1>5, <2>4, <2>5, <2>6, Zenon DEF Mark, AdminOK, admin
<1> QED BY <1>1, <1>2, <1>3, <1>4, <1>5, Zenon DEF Callback

\* The administration, and time.
LEMMA EnvironmentTInv ==
    ASSUME TInv, \/ \E a \in Admins : Admin(a)
                 \/ \E g \in Wizards : DeleteFamilyGroup(g)
                 \/ \E m \in MemberIds : RemoveGroupMember(m)
                 \/ Tick
    PROVE  TInv'
<1> USE FamilyAssumption DEF TInv
<1>1. ASSUME NEW a \in Admins, Admin(a) PROVE TInv'
  <2>1. CASE \E g \in Wizards : CountMembers(a, g)
    BY <2>1 DEF CountMembers, TypeOK, CallbackOK, AdminOK, WizardOK, wizard, callback
  <2>2. CASE AddGroupMember(a)
    <3>1. agroup[a] \in Wizards
      BY <2>2, Zenon DEF AddGroupMember, AdminOK
    <3>2. members' \in [MemberIds -> Row \cup {None}] /\ drawn' \subseteq MemberIds
      BY <2>2, <3>1, SMTT(30) DEF AddGroupMember, Insert, TypeOK, Row
    <3> QED BY <2>2, <3>2, Zenon DEF AddGroupMember, Leave, TypeOK, CallbackOK, AdminOK, WizardOK, wizard, callback, history
  <2>3. CASE AdminFault(a)
    BY <2>3 DEF AdminFault, Fault, Leave, TypeOK, CallbackOK, AdminOK, WizardOK, wizard, callback, history
  <2> QED BY <1>1, <2>1, <2>2, <2>3, Zenon DEF Admin
<1>2. ASSUME NEW g \in Wizards, DeleteFamilyGroup(g) PROVE TInv'
  <2>1. members' \in [MemberIds -> Row \cup {None}]
    BY <1>2, Zenon DEF DeleteFamilyGroup, Cascade, TypeOK
  <2> QED BY <1>2, <2>1, Zenon DEF DeleteFamilyGroup, TypeOK, CallbackOK, AdminOK, WizardOK, wizard, admin, callback, history
<1>3. ASSUME NEW m \in MemberIds, RemoveGroupMember(m) PROVE TInv'
  BY <1>3, Zenon DEF RemoveGroupMember, TypeOK, CallbackOK, AdminOK, WizardOK, wizard, admin, callback, history
<1>4. CASE Tick
  <2>1. ASSUME NEW g \in Wizards
        PROVE  /\ session'[g] \in Session \cup {None}
               /\ session[g] = None => session'[g] = None
               /\ session[g] # None => session'[g] # None /\ session'[g].members = session[g].members
    BY <1>4 DEF Tick, Get, TypeOK, Session
  <2>2. session' \in [Wizards -> Session \cup {None}]
    BY <1>4, <2>1, Zenon DEF Tick
  <2> QED BY <1>4, <2>1, <2>2, Zenon DEF Tick, TypeOK, CallbackOK, AdminOK, WizardOK, wizard, admin, callback, history
<1> QED BY <1>1, <1>2, <1>3, <1>4, Zenon

LEMMA TInvInvariant == Spec => []TInv
<1>1. TInv /\ [Next]_vars => TInv'
  <2> SUFFICES ASSUME TInv, [Next]_vars PROVE TInv'
    BY Zenon
  <2>1. CASE UNCHANGED vars
    BY <2>1, Zenon DEF vars, wizard, admin, callback, history, TInv, TypeOK, CallbackOK, AdminOK, WizardOK
  <2> QED BY <2>1, WizardTInv, CallbackTInv, EnvironmentTInv, Zenon DEF Next
<1> QED BY <1>1, InitTInv, PTL DEF Spec

\* TypeOK is an invariant: requests of the wizard, the callbacks and the administration
\* keep the tables, the sessions and their own variables well formed.
THEOREM TypeCorrect == Spec => []TypeOK
<1>1. TInv => TypeOK
  BY Zenon DEF TInv
<1> QED BY <1>1, TInvInvariant, PTL

-----------------------------------------------------------------------------
\* A Plex username has one group: the unique column of CreateFamilyGroup decides between
\* wizards that both found the name free.
THEOREM OneGroupHolds == Spec => []OneGroupPerPlex
<1>1. Init => OneGroupPerPlex
  BY Zenon DEF Init, OneGroupPerPlex
<1>2. OneGroupPerPlex /\ [Next]_vars => OneGroupPerPlex'
  <2> SUFFICES ASSUME OneGroupPerPlex, [Next]_vars PROVE OneGroupPerPlex'
    BY Zenon
  <2>1. ASSUME NEW w \in Wizards, CreateFamilyGroup(w) PROVE OneGroupPerPlex'
    BY <2>1, Zenon DEF CreateFamilyGroup, PlexTaken, OneGroupPerPlex
  <2>2. CASE groups' \subseteq groups
    BY <2>2, Zenon DEF OneGroupPerPlex
  <2>3. ASSUME NEW w \in Wizards, Wizard(w), ~CreateFamilyGroup(w) PROVE groups' \subseteq groups
    BY <2>3, Zenon DEF Wizard, CheckPlex, CreateFault, AddPending, AddPendingFault, Undo, CreateSession
  <2>4. ASSUME NEW c \in Callbacks, Callback(c) PROVE groups' \subseteq groups
    BY <2>4, Zenon DEF Callback, Exchange, CheckDuplicate, CheckFault, UpdateGroupMember, UpdateFault, Mark
  <2>5. ASSUME NEW a \in Admins, Admin(a) PROVE groups' \subseteq groups
    BY <2>5, Zenon DEF Admin, CountMembers, AddGroupMember, AdminFault
  <2>6. CASE \/ \E g \in Wizards : DeleteFamilyGroup(g)
             \/ \E m \in MemberIds : RemoveGroupMember(m)
             \/ Tick \/ UNCHANGED vars
    BY <2>6, <2>2, Zenon DEF DeleteFamilyGroup, RemoveGroupMember, Tick, vars
  <2> QED BY <2>1, <2>2, <2>3, <2>4, <2>5, <2>6, Zenon DEF Next
<1> QED BY <1>1, <1>2, PTL DEF Spec

-----------------------------------------------------------------------------
\* An id is drawn once, for one group: the rows, the wizards' lists and the sessions agree
\* on the group of a member.
IdsOK ==
    /\ \A m \in MemberIds : members[m] # None => m \in drawn
    /\ \A w \in Wizards : \A m \in added[w] :
           m \in drawn /\ (members[m] # None => members[m].group = w)
    /\ \A g \in Wizards : session[g] # None =>
           /\ session[g].authorized \subseteq session[g].members
           /\ \A m \in session[g].members :
                  m \in drawn /\ (members[m] # None => members[m].group = g)

\* A callback marks a member that it has saved.
MarkOK == \A c \in Callbacks : cpc[c] = "mark" =>
              members[target[c]] = None \/ members[target[c]].grant # None

SInv == IdsOK /\ MarkOK /\ SessionTellsTable /\ NoOrphans

\* A new row disturbs nothing: its id is new.
LEMMA InsertSInv ==
    ASSUME TInv, SInv, NEW m \in MemberIds, NEW g \in groups, Insert(m, g),
           UNCHANGED <<groups, session, callback>>,
           \A w \in Wizards : added'[w] = added[w] \/ (w = g /\ added'[w] = added[w] \cup {m})
    PROVE  SInv'
<1> USE DEF TInv, SInv
<1>1. /\ drawn' = drawn \cup {m} /\ m \notin drawn
      /\ members' = [members EXCEPT ![m] = [group |-> g, grant |-> None]]
      /\ \A n \in MemberIds : n # m => members'[n] = members[n]
      /\ members'[m] = [group |-> g, grant |-> None]
  BY Zenon DEF Insert, TypeOK
<1>2. /\ \A w \in Wizards : added[w] \subseteq MemberIds
      /\ \A w \in Wizards : session[w] # None => session[w].members \subseteq MemberIds
  BY Zenon DEF TypeOK, Session
<1>3. IdsOK'
  <2>1. (\A n \in MemberIds : members[n] # None => n \in drawn)'
    BY <1>1, Zenon DEF IdsOK
  <2>2. (\A w \in Wizards : \A n \in added[w] :
            n \in drawn /\ (members[n] # None => members[n].group = w))'
    BY <1>1, <1>2 DEF IdsOK
  <2>3. (\A w \in Wizards : session[w] # None =>
            /\ session[w].authorized \subseteq session[w].members
            /\ \A n \in session[w].members :
                   n \in drawn /\ (members[n] # None => members[n].group = w))'
    BY <1>1, <1>2 DEF IdsOK
  <2> QED BY <2>1, <2>2, <2>3, Zenon DEF IdsOK
<1>4. MarkOK'
  BY <1>1, <1>2 DEF MarkOK, IdsOK, CallbackOK, callback
<1>5. SessionTellsTable'
  BY <1>1, <1>2, ZenonT(60) DEF SessionTellsTable, IdsOK
<1>6. NoOrphans'
  BY <1>1 DEF NoOrphans
<1> QED BY <1>3, <1>4, <1>5, <1>6, Zenon

\* Nor does a row that goes, as long as those of a deleted group all do.
LEMMA GoneSInv ==
    ASSUME TInv, SInv, UNCHANGED <<drawn, session>>, NoOrphans',
           \A m \in MemberIds : members'[m] = members[m] \/ members'[m] = None,
           \A w \in Wizards : added'[w] \subseteq added[w],
           \A c \in Callbacks : cpc'[c] = "mark" => cpc[c] = "mark" /\ target'[c] = target[c]
    PROVE  SInv'
<1> USE DEF TInv, SInv
<1>2. /\ \A w \in Wizards : added[w] \subseteq MemberIds
      /\ \A w \in Wizards : session[w] # None =>
             session[w].members \subseteq MemberIds /\ session[w].authorized \subseteq MemberIds
  BY ZenonT(60) DEF TypeOK, Session
<1>3. IdsOK'
  BY <1>2 DEF IdsOK
<1>4. MarkOK'
  BY ZenonT(60) DEF MarkOK, CallbackOK
<1>5. SessionTellsTable'
  BY <1>2, Zenon DEF SessionTellsTable
<1> QED BY <1>3, <1>4, <1>5, Zenon

\* A wizard's request.
LEMMA WizardSInv == ASSUME TInv, SInv, NEW w \in Wizards, Wizard(w) PROVE SInv'
<1> USE DEF TInv
<1>1. CASE CheckPlex(w) \/ CreateFamilyGroup(w) \/ CreateFault(w) \/ AddPendingFault(w)
  <2>1. UNCHANGED <<members, drawn, session, callback>> /\ groups \subseteq groups'
    BY <1>1, Zenon DEF CheckPlex, CreateFamilyGroup, CreateFault, AddPendingFault
  <2>2. \A v \in Wizards : added'[v] \subseteq added[v]
    BY <1>1, Zenon DEF CheckPlex, CreateFamilyGroup, CreateFault, AddPendingFault, End, TypeOK
  <2>3. NoOrphans'
    BY <2>1, Zenon DEF SInv, NoOrphans
  <2> QED BY <2>1, <2>2, <2>3, GoneSInv, Zenon DEF callback
<1>2. CASE AddPending(w) /\ w \in groups
  <2>1. PICK m \in MemberIds : Insert(m, w) /\ added' = [added EXCEPT ![w] = added[w] \cup {m}]
    BY <1>2, Zenon DEF AddPending
  <2>2. \A v \in Wizards : added'[v] = added[v] \/ (v = w /\ added'[v] = added[v] \cup {m})
    BY <2>1, Zenon DEF TypeOK
  <2>3. UNCHANGED <<groups, session, callback>>
    BY <1>2, Zenon DEF AddPending
  <2> QED BY <1>2, <2>1, <2>2, <2>3, InsertSInv, Zenon
<1>3. CASE AddPending(w) /\ w \notin groups
  <2>1. UNCHANGED <<groups, members, drawn, session, added, callback>>
    BY <1>3, Zenon DEF AddPending
  <2>2. NoOrphans'
    BY <2>1, Zenon DEF SInv, NoOrphans
  <2> QED BY <2>1, <2>2, GoneSInv, Zenon DEF callback
<1>4. CASE Undo(w)
  <2>1. UNCHANGED <<drawn, session, callback>> /\ \A v \in Wizards : added'[v] \subseteq added[v]
    BY <1>4, Zenon DEF Undo, End, TypeOK
  <2>2. \A m \in MemberIds : members'[m] = members[m] \/ members'[m] = None
    BY <1>4, Zenon DEF Undo, Cascade
  <2>3. NoOrphans'
    BY <1>4, Zenon DEF Undo, Cascade, SInv, NoOrphans
  <2> QED BY <2>1, <2>2, <2>3, GoneSInv, Zenon DEF callback
<1>5. CASE CreateSession(w)
  <2>1. /\ \A g \in Wizards : g # w => session'[g] = session[g]
        /\ session'[w] = [members |-> added[w], authorized |-> {}, age |-> 0]
        /\ \A g \in Wizards : added'[g] \subseteq added[g]
    BY <1>5, Zenon DEF CreateSession, End, TypeOK
  <2>2. UNCHANGED <<groups, members, drawn, callback>>
    BY <1>5, Zenon DEF CreateSession
  <2>3. IdsOK'
    BY <2>1, <2>2 DEF SInv, IdsOK
  <2> QED BY <2>1, <2>2, <2>3 DEF SInv, MarkOK, SessionTellsTable, NoOrphans, callback
<1> QED BY <1>1, <1>2, <1>3, <1>4, <1>5, Zenon DEF Wizard

\* An authorization callback: it saves a row before it marks the member.
LEMMA CallbackSInv == ASSUME TInv, SInv, NEW c \in Callbacks, Callback(c) PROVE SInv'
<1> USE FamilyAssumption DEF TInv
<1>1. CASE \/ \E g \in Wizards, m \in MemberIds : Exchange(c, g, m)
           \/ CheckDuplicate(c) \/ CheckFault(c) \/ UpdateFault(c)
  <2>1. UNCHANGED <<groups, members, drawn, session, added>>
    BY <1>1, Zenon DEF Exchange, CheckDuplicate, CheckFault, UpdateFault, wizard
  <2>2. \A d \in Callbacks : cpc'[d] = "mark" => cpc[d] = "mark" /\ target'[d] = target[d]
    BY <1>1, ZenonT(60) DEF Exchange, CheckDuplicate, CheckFault, UpdateFault, Finish, TypeOK
  <2>3. NoOrphans'
    BY <2>1, Zenon DEF SInv, NoOrphans
  <2> QED BY <2>1, <2>2, <2>3, GoneSInv, Zenon
<1>2. CASE UpdateGroupMember(c)
  <2>1. target[c] \in MemberIds /\ grant[c] \in Grant /\ grant[c] # None
    BY <1>2, Zenon DEF UpdateGroupMember, CallbackOK
  <2>2. UNCHANGED <<groups, drawn, session, added>>
    BY <1>2, Zenon DEF UpdateGroupMember, wizard
  <2>3. \A m \in MemberIds : \/ members'[m] = members[m]
                             \/ /\ members[m] # None /\ members'[m] # None
                                /\ members'[m].group = members[m].group
                                /\ members'[m].grant = grant[c]
    BY <1>2, <2>1 DEF UpdateGroupMember, TypeOK, Row
  <2>4. IdsOK'
    <3>1. /\ \A w \in Wizards : added[w] \subseteq MemberIds
          /\ \A w \in Wizards : session[w] # None => session[w].members \subseteq MemberIds
      BY Zenon DEF TypeOK, Session
    <3> QED BY <2>2, <2>3, <3>1 DEF SInv, IdsOK
  <2>5. MarkOK'
    <3>1. ASSUME NEW d \in Callbacks, d # c, cpc'[d] = "mark"
          PROVE  members'[target'[d]] = None \/ members'[target'[d]].grant # None
      <4>1. cpc[d] = "mark" /\ target'[d] = target[d] /\ target[d] \in MemberIds
        BY <1>2, <3>1, ZenonT(60) DEF UpdateGroupMember, Finish, TypeOK, CallbackOK
      <4> QED BY <2>1, <2>3, <4>1, Zenon DEF SInv, MarkOK
    <3>2. ASSUME cpc'[c] = "mark" PROVE members'[target'[c]].grant # None
      <4>1. members[target[c]] # None /\ target'[c] = target[c]
            /\ members' = [members EXCEPT ![target[c]].grant = grant[c]]
        BY <1>2, <3>2, Zenon DEF UpdateGroupMember, Finish, TypeOK
      <4> QED BY <2>1, <4>1 DEF TypeOK, Row
    <3> QED BY <3>1, <3>2, Zenon DEF MarkOK
  <2>6. SessionTellsTable'
    <3>1. \A w \in Wizards : session[w] # None => session[w].authorized \subseteq MemberIds
      BY Zenon DEF TypeOK, Session
    <3> QED BY <2>1, <2>2, <2>3, <3>1, Zenon DEF SInv, SessionTellsTable
  <2>7. NoOrphans'
    BY <2>2, <2>3, Zenon DEF SInv, NoOrphans
  <2> QED BY <2>4, <2>5, <2>6, <2>7, Zenon DEF SInv
<1>3. CASE Mark(c)
  <2>1. /\ target[c] \in MemberIds /\ group[c] \in Wizards /\ session[group[c]] \in Session
        /\ target[c] \in session[group[c]].members
    BY <1>3, Zenon DEF Mark, CallbackOK, TypeOK
  <2>2. UNCHANGED <<groups, members, drawn, added>>
    BY <1>3, Zenon DEF Mark, wizard
  <2>3. \A g \in Wizards : g # group[c] => session'[g] = session[g]
    BY <1>3, <2>1, Zenon DEF Mark, TypeOK
  <2>4. /\ session'[group[c]].members = session[group[c]].members
        /\ session'[group[c]].authorized = session[group[c]].authorized \cup {target[c]}
    BY <1>3, <2>1, ZenonT(60) DEF Mark, TypeOK, Session
  <2>5. members[target[c]] = None \/ members[target[c]].grant # None
    BY <1>3, Zenon DEF Mark, SInv, MarkOK
  <2>6. session[group[c]] # None
    BY <2>1, Zenon
  <2>7. IdsOK'
    BY <2>1, <2>2, <2>3, <2>4, <2>6 DEF SInv, IdsOK
  <2>8. MarkOK'
    BY <1>3, <2>2, Zenon DEF Mark, Finish, SInv, MarkOK, TypeOK
  <2>9. SessionTellsTable'
    BY <2>1, <2>2, <2>3, <2>4, <2>5, <2>6, Zenon DEF SInv, SessionTellsTable
  <2> QED BY <2>2, <2>7, <2>8, <2>9, Zenon DEF SInv, NoOrphans
<1> QED BY <1>1, <1>2, <1>3, Zenon DEF Callback

\* The administration, and time.
LEMMA EnvironmentSInv ==
    ASSUME TInv, SInv, \/ \E a \in Admins : Admin(a)
                       \/ \E g \in Wizards : DeleteFamilyGroup(g)
                       \/ \E m \in MemberIds : RemoveGroupMember(m)
                       \/ Tick
    PROVE  SInv'
<1> USE FamilyAssumption DEF TInv
<1>1. ASSUME NEW a \in Admins, AddGroupMember(a), agroup[a] \in groups PROVE SInv'
  <2>1. PICK m \in MemberIds : Insert(m, agroup[a])
    BY <1>1, Zenon DEF AddGroupMember
  <2>2. UNCHANGED <<groups, session, callback, added>>
    BY <1>1, Zenon DEF AddGroupMember, wizard
  <2> QED BY <1>1, <2>1, <2>2, InsertSInv, Zenon
<1>2. ASSUME NEW a \in Admins, Admin(a), ~(AddGroupMember(a) /\ agroup[a] \in groups) PROVE SInv'
  <2>1. UNCHANGED <<groups, members, drawn, session, added, callback>>
    BY <1>2, Zenon DEF Admin, CountMembers, AddGroupMember, AdminFault, wizard
  <2>2. NoOrphans'
    BY <2>1, Zenon DEF SInv, NoOrphans
  <2> QED BY <2>1, <2>2, GoneSInv, Zenon DEF callback
<1>3. ASSUME NEW g \in Wizards, DeleteFamilyGroup(g) PROVE SInv'
  <2>1. UNCHANGED <<drawn, session, added, callback>>
    BY <1>3, Zenon DEF DeleteFamilyGroup, wizard
  <2>2. NoOrphans' /\ \A m \in MemberIds : members'[m] = members[m] \/ members'[m] = None
    BY <1>3, Zenon DEF DeleteFamilyGroup, Cascade, SInv, NoOrphans
  <2> QED BY <2>1, <2>2, GoneSInv, Zenon DEF callback
<1>4. ASSUME NEW m \in MemberIds, RemoveGroupMember(m) PROVE SInv'
  <2>1. UNCHANGED <<groups, drawn, session, added, callback>>
    BY <1>4, Zenon DEF RemoveGroupMember, wizard
  <2>2. NoOrphans' /\ \A n \in MemberIds : members'[n] = members[n] \/ members'[n] = None
    BY <1>4, Zenon DEF RemoveGroupMember, SInv, NoOrphans, TypeOK
  <2> QED BY <2>1, <2>2, GoneSInv, Zenon DEF callback
<1>5. CASE Tick
  <2>1. \A g \in Wizards : session'[g] # None =>
            /\ session[g] # None
            /\ session'[g].members = session[g].members
            /\ session'[g].authorized = session[g].authorized
    BY <1>5 DEF Tick, Get, TypeOK, Session
  <2>2. UNCHANGED <<groups, members, drawn, added, callback>>
    BY <1>5, Zenon DEF Tick, wizard
  <2>3. IdsOK'
    BY <2>1, <2>2, Zenon DEF SInv, IdsOK
  <2>4. SessionTellsTable'
    BY <2>1, <2>2, Zenon DEF SInv, SessionTellsTable
  <2> QED BY <2>2, <2>3, <2>4, Zenon DEF SInv, MarkOK, NoOrphans, callback
<1> QED BY <1>1, <1>2, <1>3, <1>4, <1>5, Zenon

LEMMA SInvInvariant == Spec => []SInv
<1>1. Init => SInv
  BY DEF Init, SInv, IdsOK, MarkOK, SessionTellsTable, NoOrphans
<1>2. TInv /\ SInv /\ [Next]_vars => SInv'
  <2> SUFFICES ASSUME TInv, SInv, [Next]_vars PROVE SInv'
    BY Zenon
  <2>1. CASE UNCHANGED vars
    BY <2>1, Zenon DEF vars, wizard, callback, SInv, IdsOK, MarkOK, SessionTellsTable, NoOrphans
  <2> QED BY <2>1, WizardSInv, CallbackSInv, EnvironmentSInv, Zenon DEF Next
<1> QED BY <1>1, <1>2, TInvInvariant, PTL DEF Spec

\* What a session says of a member is in the table: a callback saves the row before it
\* marks the member, a row once granted is only ever replaced or removed, and no id
\* comes back (UpdateGroupMember and Mark in authorizeFamilyMember).
THEOREM SessionTrue == Spec => []SessionTellsTable
<1>1. SInv => SessionTellsTable
  BY Zenon DEF SInv
<1> QED BY <1>1, SInvInvariant, PTL

\* A member never outlives its group (the foreign key of group_members).
THEOREM NoOrphansHolds == Spec => []NoOrphans
<1>1. SInv => NoOrphans
  BY Zenon DEF SInv
<1> QED BY <1>1, SInvInvariant, PTL

-----------------------------------------------------------------------------
\* A callback past its check shares its name with no row and no callback past its own,
\* unless its group has been raced.
SavedAs(m, c) == /\ members[m] # None /\ members[m].group = group[c]
                 /\ members[m].grant # None /\ members[m].grant.name = grant[c].name

NamesOK ==
    /\ \A c \in Callbacks, m \in MemberIds :
           cpc[c] = "update" /\ m # target[c] /\ SavedAs(m, c) => group[c] \in raced
    /\ \A c, d \in Callbacks :
           /\ cpc[c] = "update" /\ cpc[d] = "update"
           /\ group[c] = group[d] /\ target[c] # target[d] /\ grant[c].name = grant[d].name
           => group[c] \in raced

NInv == NamesOK /\ NamesDifferUnlessRaced

\* The steps that save no name and pass no check.
LEMMA QuietNInv ==
    ASSUME NInv, raced' = raced,
           \A m \in MemberIds : \/ members'[m] = members[m] \/ members'[m] = None
                                \/ members'[m].grant = None,
           \A c \in Callbacks : cpc'[c] = "update" =>
               /\ cpc[c] = "update" /\ target'[c] = target[c]
               /\ group'[c] = group[c] /\ grant'[c] = grant[c]
    PROVE  NInv'
<1>1. (\A c \in Callbacks, m \in MemberIds :
          cpc[c] = "update" /\ m # target[c] /\ SavedAs(m, c) => group[c] \in raced)'
  BY DEF NInv, NamesOK, SavedAs
<1>2. (\A c, d \in Callbacks :
          /\ cpc[c] = "update" /\ cpc[d] = "update"
          /\ group[c] = group[d] /\ target[c] # target[d] /\ grant[c].name = grant[d].name
          => group[c] \in raced)'
  BY DEF NInv, NamesOK
<1>3. NamesDifferUnlessRaced'
  BY DEF NInv, NamesDifferUnlessRaced, SameName
<1> QED BY <1>1, <1>2, <1>3, Zenon DEF NInv, NamesOK

\* A callback's check: it passes only if the name is free in the table, and marks the
\* group as raced if another callback is about to save it.
LEMMA CheckNInv ==
    ASSUME TInv, NInv, NEW c \in Callbacks, CheckDuplicate(c) \/ CheckFault(c)
    PROVE  NInv'
<1> USE DEF TInv
<1>1. CASE CheckDuplicate(c) /\ NameTaken(c)
  <2>1. members' = members /\ raced' = raced
    BY <1>1, Zenon DEF CheckDuplicate
  <2>2. \A d \in Callbacks : cpc'[d] = "update" =>
            /\ cpc[d] = "update" /\ target'[d] = target[d]
            /\ group'[d] = group[d] /\ grant'[d] = grant[d]
    BY <1>1, ZenonT(60) DEF CheckDuplicate, Finish, TypeOK
  <2> QED BY <2>1, <2>2, QuietNInv, Zenon
<1>2. CASE CheckFault(c) \/ ~NameTaken(c)
  <2>1. /\ UNCHANGED <<members, target, group, grant>> /\ raced \subseteq raced'
        /\ \A d \in Callbacks : cpc'[d] = "update" => d = c \/ cpc[d] = "update"
    BY <1>2, Zenon DEF CheckDuplicate, CheckFault, TypeOK
  <2>2. \A m \in MemberIds : m # target[c] /\ SavedAs(m, c) => group[c] \in raced'
    BY <1>2, Zenon DEF CheckDuplicate, CheckFault, NameTaken, ListGroupMembers, SavedAs
  <2>3. \A d \in Callbacks : cpc[d] = "update" /\ group[d] = group[c] /\ target[d] # target[c]
            /\ grant[d].name = grant[c].name => group[c] \in raced'
    BY <1>2, Zenon DEF CheckDuplicate, CheckFault, Rivals
  <2>4. NamesOK'
    <3>1. ASSUME NEW d \in Callbacks, NEW m \in MemberIds,
                 cpc'[d] = "update", m # target[d], SavedAs(m, d)
          PROVE  group[d] \in raced'
      BY <2>1, <2>2, <3>1, Zenon DEF NInv, NamesOK
    <3>2. ASSUME NEW d \in Callbacks, NEW e \in Callbacks, cpc'[d] = "update", cpc'[e] = "update",
                 group[d] = group[e], target[d] # target[e], grant[d].name = grant[e].name
          PROVE  group[d] \in raced'
      BY <2>1, <2>3, <3>2, Zenon DEF NInv, NamesOK
    <3> QED BY <2>1, <3>1, <3>2, Zenon DEF NamesOK, SavedAs
  <2>5. NamesDifferUnlessRaced'
    BY <2>1, Zenon DEF NInv, NamesDifferUnlessRaced, SameName
  <2> QED BY <2>4, <2>5, Zenon DEF NInv
<1> QED BY <1>1, <1>2, Zenon

\* A callback's update: what it saves was free, in the table and among the others.
LEMMA UpdateNInv ==
    ASSUME TInv, SInv, NInv, NEW c \in Callbacks, UpdateGroupMember(c)
    PROVE  NInv'
<1> USE FamilyAssumption DEF TInv
<1>1. raced' = raced /\ cpc[c] = "update"
  BY Zenon DEF UpdateGroupMember, history
<1>2. \A d \in Callbacks : cpc'[d] = "update" =>
          /\ d # c /\ cpc[d] = "update" /\ target'[d] = target[d]
          /\ group'[d] = group[d] /\ grant'[d] = grant[d]
  BY DEF UpdateGroupMember, Finish, TypeOK
<1>3. CASE members[target[c]] = None
  <2>1. members' = members
    BY <1>3, Zenon DEF UpdateGroupMember
  <2> QED BY <1>1, <1>2, <2>1, QuietNInv, Zenon
<1>4. CASE members[target[c]] # None
  <2>1. target[c] \in MemberIds /\ group[c] \in Wizards /\ grant[c] \in Grant /\ session[group[c]] # None
    BY <1>1, Zenon DEF CallbackOK
  <2>2. members[target[c]].group = group[c]
    BY <1>1, <1>4, <2>1, Zenon DEF CallbackOK, SInv, IdsOK
  <2>3. \A m \in MemberIds : m # target[c] => members'[m] = members[m]
    BY <1>4, <2>1, ZenonT(60) DEF UpdateGroupMember, TypeOK
  <2>4. members'[target[c]].group = group[c] /\ members'[target[c]].grant = grant[c]
    BY <1>4, <2>1, <2>2 DEF UpdateGroupMember, TypeOK, Row
  <2>5. \A m \in MemberIds : m # target[c] /\ SavedAs(m, c) => group[c] \in raced
    BY <1>1, Zenon DEF NInv, NamesOK
  <2>6. \A d \in Callbacks : cpc[d] = "update" /\ group[c] = group[d] /\ target[c] # target[d]
            /\ grant[c].name = grant[d].name => group[c] \in raced
    BY <1>1, Zenon DEF NInv, NamesOK
  <2>7. (\A d \in Callbacks, m \in MemberIds :
            cpc[d] = "update" /\ m # target[d] /\ SavedAs(m, d) => group[d] \in raced)'
    BY <1>1, <1>2, <2>1, <2>3, <2>4, <2>6 DEF NInv, NamesOK, SavedAs
  <2>8. (\A d, e \in Callbacks :
            /\ cpc[d] = "update" /\ cpc[e] = "update"
            /\ group[d] = group[e] /\ target[d] # target[e] /\ grant[d].name = grant[e].name
            => group[d] \in raced)'
    BY <1>1, <1>2, ZenonT(60) DEF NInv, NamesOK
  <2>9. NamesDifferUnlessRaced'
    <3> SUFFICES ASSUME NEW m \in MemberIds, NEW n \in MemberIds, m # n, SameName(m, n)'
                 PROVE  members'[m].group \in raced
      BY <1>1, Zenon DEF NamesDifferUnlessRaced
    <3>1. CASE m # target[c] /\ n # target[c]
      <4>1. SameName(m, n) /\ members'[m] = members[m]
        BY <2>3, <3>1, Zenon DEF SameName
      <4> QED BY <4>1, Zenon DEF NInv, NamesDifferUnlessRaced
    <3>2. CASE m = target[c]
      <4>1. SavedAs(n, c)
        BY <2>3, <2>4, <3>2, Zenon DEF SameName, SavedAs
      <4> QED BY <2>4, <2>5, <3>2, <4>1, Zenon
    <3>3. CASE n = target[c]
      <4>1. SavedAs(m, c) /\ members'[m].group = group[c]
        BY <2>3, <2>4, <3>3, Zenon DEF SameName, SavedAs
      <4> QED BY <2>5, <3>3, <4>1, Zenon
    <3> QED BY <3>1, <3>2, <3>3, Zenon
  <2> QED BY <2>7, <2>8, <2>9, Zenon DEF NInv, NamesOK
<1> QED BY <1>3, <1>4, Zenon

\* Two members of a group are saved under one name only if their callbacks crossed, or a
\* check could not be made (the check and the update of authorizeFamilyMember).
THEOREM NamesDiffer == Spec => []NamesDifferUnlessRaced
<1>1. Init => NInv
  BY ZenonT(60) DEF Init, NInv, NamesOK, NamesDifferUnlessRaced, SameName
<1>2. TInv /\ SInv /\ NInv /\ [Next]_vars => NInv'
  <2> SUFFICES ASSUME TInv, SInv, NInv, [Next]_vars PROVE NInv'
    BY Zenon
  <2>1. ASSUME NEW w \in Wizards, Wizard(w) PROVE NInv'
    <3>1. UNCHANGED callback /\ raced' = raced
      BY <2>1, Zenon DEF Wizard, CheckPlex, CreateFamilyGroup, CreateFault, AddPending, AddPendingFault, Undo, CreateSession, history
    <3>2. \A m \in MemberIds : \/ members'[m] = members[m] \/ members'[m] = None
                               \/ members'[m].grant = None
      <4>1. CASE AddPending(w)
        BY <4>1 DEF AddPending, Insert, TInv, TypeOK
      <4>2. CASE Undo(w)
        BY <4>2, Zenon DEF Undo, Cascade
      <4>3. CASE ~AddPending(w) /\ ~Undo(w)
        BY <2>1, <4>3, Zenon DEF Wizard, CheckPlex, CreateFamilyGroup, CreateFault, AddPendingFault, CreateSession
      <4> QED BY <4>1, <4>2, <4>3, Zenon
    <3> QED BY <3>1, <3>2, QuietNInv, Zenon DEF callback
  <2>2. ASSUME NEW c \in Callbacks,
               \/ \E g \in Wizards, m \in MemberIds : Exchange(c, g, m)
               \/ UpdateFault(c) \/ Mark(c)
        PROVE  NInv'
    <3>1. members' = members /\ raced' = raced
      BY <2>2, Zenon DEF Exchange, UpdateFault, Mark, history
    <3>2. \A d \in Callbacks : cpc'[d] = "update" =>
              /\ cpc[d] = "update" /\ target'[d] = target[d]
              /\ group'[d] = group[d] /\ grant'[d] = grant[d]
      BY <2>2 DEF Exchange, UpdateFault, Mark, Finish, TInv, TypeOK
    <3> QED BY <3>1, <3>2, QuietNInv, Zenon
  <2>3. ASSUME NEW c \in Callbacks, Callback(c) PROVE NInv'
    BY <2>2, <2>3, CheckNInv, UpdateNInv, Zenon DEF Callback
  <2>4. ASSUME \/ \E a \in Admins : Admin(a)
               \/ \E g \in Wizards : DeleteFamilyGroup(g)
               \/ \E m \in MemberIds : RemoveGroupMember(m)
               \/ Tick \/ UNCHANGED vars
        PROVE  NInv'
    <3>1. UNCHANGED callback /\ raced' = raced
      BY <2>4, Zenon DEF Admin, CountMembers, AddGroupMember, AdminFault, DeleteFamilyGroup, RemoveGroupMember, Tick, vars, history
    <3>2. \A m \in MemberIds : \/ members'[m] = members[m] \/ members'[m] = None
                               \/ members'[m].grant = None
      <4>1. ASSUME NEW a \in Admins, Admin(a)
            PROVE  \A m \in MemberIds : members'[m] = members[m] \/ members'[m].grant = None
        BY <4>1 DEF Admin, CountMembers, AddGroupMember, Insert, AdminFault, TInv, TypeOK
      <4>2. CASE \/ \E g \in Wizards : DeleteFamilyGroup(g)
                 \/ \E m \in MemberIds : RemoveGroupMember(m)
                 \/ Tick \/ UNCHANGED vars
        BY <4>2, Zenon DEF DeleteFamilyGroup, Cascade, RemoveGroupMember, Tick, vars, TInv, TypeOK
      <4> QED BY <2>4, <4>1, <4>2, Zenon
    <3> QED BY <3>1, <3>2, QuietNInv, Zenon DEF callback
  <2> QED BY <2>1, <2>3, <2>4, Zenon DEF Next
<1>3. NInv => NamesDifferUnlessRaced
  BY Zenon DEF NInv
<1> QED BY <1>1, <1>2, <1>3, TInvInvariant, SInvInvariant, PTL DEF Spec

-----------------------------------------------------------------------------
\* What the wizard of g has still to insert.
ToAdd(g) == IF wpc[g] = "add" THEN left[g] ELSE 0

\* The members of a group, those that requests have been allowed to insert, and those its
\* wizard is going to: beyond the limit by the checks that were passed in between.
LimitFor(g) ==
    Cardinality(ListGroupMembers(g)) + Cardinality(Inserting(g)) + ToAdd(g) <= MaxMembers + over[g]

\* Before its wizard creates it, a group is neither there nor found by a request.
FreshOK == \A g \in Wizards : wpc[g] \in {"idle", "create"} => g \notin groups /\ Inserting(g) = {}

LInv == FreshOK /\ \A g \in Wizards : LimitFor(g)

\* All these are numbers, before and after a step.
Sized(g) ==
    /\ IsFiniteSet(ListGroupMembers(g)) /\ IsFiniteSet(Inserting(g))
    /\ Cardinality(ListGroupMembers(g)) \in Nat /\ Cardinality(Inserting(g)) \in Nat
    /\ ToAdd(g) \in 0..MaxMembers /\ over[g] \in Nat

LEMMA Sizes == TInv => \A g \in Wizards : Sized(g)
<1> SUFFICES ASSUME TInv, NEW g \in Wizards PROVE Sized(g)
  BY Zenon
<1>1. ListGroupMembers(g) \subseteq MemberIds /\ Inserting(g) \subseteq Admins
  BY Zenon DEF ListGroupMembers, Inserting
<1>2. IsFiniteSet(ListGroupMembers(g)) /\ IsFiniteSet(Inserting(g))
  BY <1>1, FamilyAssumption, FS_Subset, Zenon
<1>3. Cardinality(ListGroupMembers(g)) \in Nat /\ Cardinality(Inserting(g)) \in Nat
  BY <1>2, FS_CardinalityType, Zenon
<1>4. left[g] \in 0..MaxMembers /\ over[g] \in Nat
  BY Zenon DEF TInv, TypeOK
<1>5. 0 \in 0..MaxMembers
  BY FamilyAssumption
<1> QED BY <1>2, <1>3, <1>4, <1>5, Zenon DEF ToAdd, Sized

LEMMA SizesNext == TInv' => (\A g \in Wizards : Sized(g))'
BY Sizes, PTL

\* A step that inserts nothing for g and allows nothing.
LEMMA Shrinks ==
    ASSUME TInv, TInv', NEW g \in Wizards, LimitFor(g),
           ListGroupMembers(g)' \subseteq ListGroupMembers(g), Inserting(g)' \subseteq Inserting(g),
           ToAdd(g)' <= ToAdd(g), over'[g] = over[g]
    PROVE  LimitFor(g)'
<1> DEFINE l == Cardinality(ListGroupMembers(g))
           i == Cardinality(Inserting(g))
           t == ToAdd(g)
           o == over[g]
           lp == Cardinality(ListGroupMembers(g)')
           ip == Cardinality(Inserting(g)')
           tp == ToAdd(g)'
<1>1. l \in Nat /\ i \in Nat /\ t \in 0..MaxMembers /\ o \in Nat /\ MaxMembers \in Nat
  BY Sizes, FamilyAssumption, Zenon DEF Sized
<1>2. lp \in Nat /\ ip \in Nat /\ tp \in 0..MaxMembers
  BY SizesNext, Zenon DEF Sized
<1>3. lp <= l /\ ip <= i
  BY Sizes, FS_Subset, Zenon DEF Sized
<1>4. l + i + t <= MaxMembers + o /\ tp <= t
  BY Zenon DEF LimitFor
<1>5. lp + ip + tp <= MaxMembers + o
  <2> HIDE DEF l, i, t, o, lp, ip, tp
  <2> QED BY ONLY <1>1, <1>2, <1>3, <1>4
<1> QED BY <1>5, Zenon DEF LimitFor

\* A new row is a member of its group only.
LEMMA NewRow ==
    ASSUME TInv, TInv', NEW m \in MemberIds, NEW g \in Wizards, Insert(m, g)
    PROVE  /\ Cardinality(ListGroupMembers(g))' <= Cardinality(ListGroupMembers(g)) + 1
           /\ \A h \in Wizards : h # g => ListGroupMembers(h)' \subseteq ListGroupMembers(h)
<1>1. \A n \in MemberIds : n # m => members'[n] = members[n]
  BY Zenon DEF Insert, TInv, TypeOK
<1>2. members'[m] = [group |-> g, grant |-> None]
  BY Zenon DEF Insert, TInv, TypeOK
<1>3. members'[m].group = g
  BY <1>2
<1>4. ListGroupMembers(g)' \subseteq ListGroupMembers(g) \cup {m}
  BY <1>1, Zenon DEF ListGroupMembers
<1>5. \A h \in Wizards : h # g => ListGroupMembers(h)' \subseteq ListGroupMembers(h)
  BY <1>1, <1>3, Zenon DEF ListGroupMembers
<1> DEFINE l == ListGroupMembers(g)
           k == l \cup {m}
<1>6. IsFiniteSet(l) /\ IsFiniteSet(k) /\ Cardinality(l) \in Nat
      /\ Cardinality(k) = IF m \in l THEN Cardinality(l) ELSE Cardinality(l) + 1
  BY Sizes, FS_AddElement, Zenon DEF Sized
<1>7. Cardinality(l') <= Cardinality(k) /\ Cardinality(l') \in Nat
  BY <1>4, <1>6, SizesNext, FS_Subset, Zenon DEF Sized
<1>8. Cardinality(l') <= Cardinality(l) + 1
  <2> DEFINE x == Cardinality(l)
             y == Cardinality(k)
             z == Cardinality(l')
  <2>1. x \in Nat /\ z \in Nat /\ z <= y /\ (y = x \/ y = x + 1)
    BY <1>6, <1>7, Zenon
  <2> HIDE DEF x, y, z
  <2>2. z <= x + 1
    BY ONLY <2>1
  <2> QED BY <2>2, Zenon DEF x, z
<1> QED BY <1>5, <1>8, Zenon

\* A wizard's request.
LEMMA WizardLimit == ASSUME TInv, TInv', SInv, LInv, NEW w \in Wizards, Wizard(w) PROVE LInv'
<1> USE DEF LInv
<1>t. /\ wpc \in [Wizards -> {"idle", "create", "add", "undo", "done"}]
      /\ left \in [Wizards -> 0..MaxMembers]
  BY Zenon DEF TInv, TypeOK
<1>s. "done" \notin {"idle", "create", "add"} /\ "undo" \notin {"idle", "create", "add"}
      /\ "create" # "add" /\ "idle" # "add" /\ "add" \notin {"idle", "create"}
  OBVIOUS
<1>a. over' = over /\ apc' = apc /\ agroup' = agroup
  BY Zenon DEF Wizard, CheckPlex, CreateFamilyGroup, CreateFault, AddPending, AddPendingFault, Undo,
              CreateSession, admin, history
<1>b. \A g \in Wizards : Inserting(g)' = Inserting(g)
  BY <1>a, Zenon DEF Inserting
<1>c. \A g \in Wizards : g # w => wpc'[g] = wpc[g] /\ left'[g] = left[g]
  BY <1>t, Zenon DEF Wizard, CheckPlex, CreateFamilyGroup, CreateFault, AddPending, AddPendingFault, Undo,
              CreateSession, End
<1>d. \A g \in Wizards : g # w => ToAdd(g)' <= ToAdd(g)
  <2>1. \A g \in Wizards : g # w => ToAdd(g)' = ToAdd(g)
    BY <1>c, Zenon DEF ToAdd
  <2>2. \A g \in Wizards : ToAdd(g) \in 0..MaxMembers
    BY Sizes, Zenon DEF Sized
  <2> QED BY <2>1, <2>2
<1>e. \A g \in Wizards : 0 <= ToAdd(g)
  <2>1. \A g \in Wizards : ToAdd(g) \in 0..MaxMembers
    BY Sizes, Zenon DEF Sized
  <2> QED BY <2>1
<1>f. FreshOK'
  <2>1. \A g \in Wizards : wpc'[g] \in {"idle", "create"} => wpc[g] \in {"idle", "create"} /\ g \notin groups'
    <3>1. ASSUME NEW g \in Wizards, wpc'[g] \in {"idle", "create"}
          PROVE  wpc[g] \in {"idle", "create"}
      <4>1. CASE CheckPlex(w)
        BY <1>c, <3>1, <4>1, Zenon DEF CheckPlex
      <4>2. CASE AddPending(w)
        BY <1>c, <1>s, <1>t, <3>1, <4>2, Zenon DEF AddPending
      <4>3. CASE CreateFamilyGroup(w) \/ CreateFault(w) \/ AddPendingFault(w) \/ Undo(w) \/ CreateSession(w)
        <5>1. wpc'[w] \in {"done", "undo", "add"}
          BY <1>t, <4>3, Zenon DEF CreateFamilyGroup, CreateFault, AddPendingFault, Undo, CreateSession, End
        <5> QED BY <1>c, <1>s, <3>1, <5>1, Zenon
      <4> QED BY <4>1, <4>2, <4>3, Zenon DEF Wizard
    <3>2. ASSUME NEW g \in Wizards, wpc'[g] \in {"idle", "create"}
          PROVE  g \notin groups'
      <4>1. g \notin groups
        BY <3>1, <3>2, Zenon DEF FreshOK
      <4>2. CASE CreateFamilyGroup(w)
        <5>1. groups' = groups \/ (groups' = groups \cup {w} /\ wpc'[w] = "add")
          BY <1>t, <4>2, Zenon DEF CreateFamilyGroup
        <5> QED BY <1>s, <3>2, <4>1, <5>1, Zenon
      <4>3. CASE ~CreateFamilyGroup(w)
        <5>1. groups' \subseteq groups
          BY <4>3, Zenon DEF Wizard, CheckPlex, CreateFault, AddPending, AddPendingFault, Undo, CreateSession
        <5> QED BY <4>1, <5>1, Zenon
      <4> QED BY <4>2, <4>3, Zenon
    <3> QED BY <3>1, <3>2, Zenon
  <2> QED BY <1>b, <2>1, Zenon DEF FreshOK
<1>1. CASE CreateFamilyGroup(w)
  <2>1. \A g \in Wizards : ListGroupMembers(g)' = ListGroupMembers(g)
    BY <1>1, Zenon DEF CreateFamilyGroup, ListGroupMembers
  <2>2. ASSUME NEW g \in Wizards, g # w PROVE LimitFor(g)'
    BY <1>a, <1>b, <1>d, <2>1, <2>2, Shrinks, Zenon
  <2>3. LimitFor(w)'
    <3>1. wpc[w] = "create" /\ w \notin groups /\ Inserting(w) = {}
      BY <1>1, Zenon DEF CreateFamilyGroup, FreshOK
    <3>2. ListGroupMembers(w) = {}
      BY <3>1, Zenon DEF ListGroupMembers, SInv, NoOrphans
    <3>3. Cardinality(ListGroupMembers(w)') = 0 /\ Cardinality(Inserting(w)') = 0
      BY <1>b, <2>1, <3>1, <3>2, FS_EmptySet, Zenon
    <3> DEFINE l == Cardinality(ListGroupMembers(w)')
               i == Cardinality(Inserting(w)')
               t == ToAdd(w)'
               o == over'[w]
    <3>4. l = 0 /\ i = 0 /\ t \in 0..MaxMembers /\ o \in Nat /\ MaxMembers \in Nat
      BY <3>3, SizesNext, FamilyAssumption, Zenon DEF Sized
    <3>5. l + i + t <= MaxMembers + o
      <4> HIDE DEF l, i, t, o
      <4> QED BY ONLY <3>4
    <3> QED BY <3>5, Zenon DEF LimitFor
  <2> QED BY <1>f, <2>2, <2>3, Zenon
<1>2. CASE AddPending(w) /\ w \in groups
  <2>1. PICK m \in MemberIds : Insert(m, w)
    BY <1>2, Zenon DEF AddPending
  <2>2. ASSUME NEW g \in Wizards, g # w PROVE LimitFor(g)'
    BY <1>a, <1>b, <1>d, <2>1, <2>2, NewRow, Shrinks, Zenon
  <2>3. LimitFor(w)'
    <3> DEFINE l == Cardinality(ListGroupMembers(w))
               i == Cardinality(Inserting(w))
               t == ToAdd(w)
               o == over[w]
               lp == Cardinality(ListGroupMembers(w)')
               tp == ToAdd(w)'
    <3>1. l \in Nat /\ i \in Nat /\ t \in 0..MaxMembers /\ o \in Nat /\ MaxMembers \in Nat
      BY Sizes, FamilyAssumption, Zenon DEF Sized
    <3>2. lp \in Nat /\ tp \in 0..MaxMembers
      BY SizesNext, Zenon DEF Sized
    <3>3. lp <= l + 1
      BY <2>1, NewRow, Zenon
    <3>4. tp = t - 1
      BY <1>2, <1>t, Zenon DEF AddPending, ToAdd
    <3>5. l + i + t <= MaxMembers + o
      BY Zenon DEF LimitFor
    <3>6. lp + i + tp <= MaxMembers + o
      <4> HIDE DEF l, i, t, o, lp, tp
      <4> QED BY ONLY <3>1, <3>2, <3>3, <3>4, <3>5
    <3> QED BY <1>a, <1>b, <3>6, Zenon DEF LimitFor
  <2> QED BY <1>f, <2>2, <2>3, Zenon
<1>3. CASE ~CreateFamilyGroup(w) /\ ~(AddPending(w) /\ w \in groups)
  <2>1. \A g \in Wizards : ListGroupMembers(g)' \subseteq ListGroupMembers(g)
    <3>1. members' = members \/ members' = Cascade(w)
      BY <1>3, Zenon DEF Wizard, CheckPlex, CreateFault, AddPending, AddPendingFault, Undo, CreateSession
    <3>2. CASE members' = Cascade(w)
      BY <3>2, Zenon DEF Cascade, ListGroupMembers
    <3>3. CASE members' = members
      BY <3>3, Zenon DEF ListGroupMembers
    <3> QED BY <3>1, <3>2, <3>3, Zenon
  <2>2. wpc'[w] # "add"
    BY <1>3, <1>s, <1>t, Zenon DEF Wizard, CheckPlex, CreateFault, AddPending, AddPendingFault, Undo, CreateSession, End
  <2>3. ToAdd(w)' <= ToAdd(w)
    BY <1>e, <2>2, Zenon DEF ToAdd
  <2>4. ASSUME NEW g \in Wizards PROVE LimitFor(g)'
    BY <1>a, <1>b, <1>d, <2>1, <2>3, Shrinks, Zenon
  <2> QED BY <1>f, <2>4, Zenon
<1> QED BY <1>1, <1>2, <1>3, Zenon

\* A step of anything but the wizards and the administration's insertions.
LEMMA QuietLimit ==
    ASSUME TInv, TInv', LInv, UNCHANGED <<wpc, left, over>>, groups' \subseteq groups,
           \A g \in Wizards : ListGroupMembers(g)' \subseteq ListGroupMembers(g),
           \A g \in Wizards : Inserting(g)' \subseteq Inserting(g)
    PROVE  LInv'
<1>1. \A g \in Wizards : ToAdd(g)' <= ToAdd(g)
  <2>1. \A g \in Wizards : ToAdd(g)' = ToAdd(g)
    BY Zenon DEF ToAdd
  <2>2. \A g \in Wizards : ToAdd(g) \in 0..MaxMembers
    BY Sizes, Zenon DEF Sized
  <2> QED BY <2>1, <2>2
<1>2. ASSUME NEW g \in Wizards PROVE LimitFor(g)'
  BY <1>1, Shrinks, Zenon DEF LInv
<1>3. FreshOK'
  BY Zenon DEF LInv, FreshOK
<1> QED BY <1>2, <1>3, Zenon DEF LInv

\* The callbacks, deletions and time.
LEMMA OthersLimit ==
    ASSUME TInv, TInv', LInv,
           \/ \E c \in Callbacks : Callback(c)
           \/ \E g \in Wizards : DeleteFamilyGroup(g)
           \/ \E m \in MemberIds : RemoveGroupMember(m)
           \/ Tick
           \/ UNCHANGED vars
    PROVE  LInv'
<1>1. UNCHANGED <<wpc, left, over, apc, agroup>> /\ groups' \subseteq groups
  BY Zenon DEF Callback, Exchange, CheckDuplicate, CheckFault, UpdateGroupMember, UpdateFault, Mark,
              DeleteFamilyGroup, RemoveGroupMember, Tick, vars, wizard, admin, history
<1>2. \A g \in Wizards : Inserting(g)' \subseteq Inserting(g)
  BY <1>1, Zenon DEF Inserting
<1>3. \A m \in MemberIds : \/ members'[m] = members[m] \/ members'[m] = None
                           \/ members[m] # None /\ members'[m].group = members[m].group
  <2>1. ASSUME NEW c \in Callbacks, UpdateGroupMember(c), NEW m \in MemberIds
        PROVE  \/ members'[m] = members[m]
               \/ members[m] # None /\ members'[m].group = members[m].group
    <3>1. members[m] # None => members[m] \in Row
      BY ZenonT(60) DEF TInv, TypeOK
    <3>2. \/ members' = members
          \/ members[target[c]] # None /\ members' = [members EXCEPT ![target[c]].grant = grant[c]]
      BY <2>1, Zenon DEF UpdateGroupMember
    <3>3. members \in [MemberIds -> Row \cup {None}]
      BY Zenon DEF TInv, TypeOK
    <3> QED BY <3>1, <3>2, <3>3 DEF Row
  <2>2. ASSUME NEW c \in Callbacks, Callback(c), ~UpdateGroupMember(c)
        PROVE  members' = members
    BY <2>2, Zenon DEF Callback, Exchange, CheckDuplicate, CheckFault, UpdateFault, Mark
  <2>3. ASSUME NEW g \in Wizards, DeleteFamilyGroup(g), NEW m \in MemberIds
        PROVE  members'[m] = members[m] \/ members'[m] = None
    BY <2>3, Zenon DEF DeleteFamilyGroup, Cascade
  <2>4. ASSUME NEW n \in MemberIds, RemoveGroupMember(n), NEW m \in MemberIds
        PROVE  members'[m] = members[m] \/ members'[m] = None
    BY <2>4, Zenon DEF RemoveGroupMember, TInv, TypeOK
  <2>5. CASE Tick \/ UNCHANGED vars
    BY <2>5, Zenon DEF Tick, vars
  <2> QED BY <2>1, <2>2, <2>3, <2>4, <2>5, Zenon
<1>4. \A g \in Wizards : ListGroupMembers(g)' \subseteq ListGroupMembers(g)
  BY <1>3, Zenon DEF ListGroupMembers
<1> QED BY <1>1, <1>2, <1>4, QuietLimit, Zenon

\* The administration: a check that is passed, and the insertion it allows.
LEMMA AdminLimit == ASSUME TInv, TInv', LInv, NEW a \in Admins, Admin(a) PROVE LInv'
<1>t. apc \in [Admins -> {"idle", "insert"}] /\ agroup \in [Admins -> Wizards \cup {None}]
  BY Zenon DEF TInv, TypeOK
<1>o. \A b \in Admins : b # a => apc'[b] = apc[b] /\ agroup'[b] = agroup[b]
  BY <1>t, Zenon DEF Admin, CountMembers, AddGroupMember, AdminFault, Leave
<1>w. UNCHANGED <<wpc, left, groups>>
  BY Zenon DEF Admin, CountMembers, AddGroupMember, AdminFault, wizard
<1>d. \A g \in Wizards : ToAdd(g)' = ToAdd(g)
  BY <1>w, Zenon DEF ToAdd
<1>e. \A g \in Wizards : ToAdd(g)' <= ToAdd(g)
  <2>1. \A g \in Wizards : ToAdd(g) \in 0..MaxMembers
    BY Sizes, Zenon DEF Sized
  <2> QED BY <1>d, <2>1
<1>s. "idle" # "insert"
  OBVIOUS
<1>1. ASSUME NEW h \in Wizards, CountMembers(a, h) PROVE LInv'
  <2>1. /\ apc[a] = "idle" /\ h \in groups /\ apc'[a] = "insert" /\ agroup'[a] = h
        /\ members' = members /\ over' = [over EXCEPT ![h] = IF Inserting(h) # {} \/ Adding(h) THEN @ + 1 ELSE @]
    BY <1>1, <1>t, Zenon DEF CountMembers
  <2>2. \A g \in Wizards : ListGroupMembers(g)' = ListGroupMembers(g)
    BY <2>1, Zenon DEF ListGroupMembers
  <2>3. \A g \in Wizards : g # h => Inserting(g)' \subseteq Inserting(g)
    BY <1>o, <2>1, Zenon DEF Inserting
  <2>4. Inserting(h)' = Inserting(h) \cup {a} /\ a \notin Inserting(h)
    BY <1>o, <1>s, <2>1, Zenon DEF Inserting
  <2>5. over \in [Wizards -> Nat]
    BY Zenon DEF TInv, TypeOK
  <2>6. \A g \in Wizards : g # h => over'[g] = over[g]
    BY <2>1, <2>5, Zenon
  <2>7. ASSUME NEW g \in Wizards, g # h PROVE LimitFor(g)'
    BY <1>e, <2>2, <2>3, <2>6, <2>7, Shrinks, Zenon DEF LInv
  <2>8. FreshOK'
    BY <1>w, <2>1, <2>3, Zenon DEF LInv, FreshOK
  <2> DEFINE l == Cardinality(ListGroupMembers(h))
             i == Cardinality(Inserting(h))
             t == ToAdd(h)
             o == over[h]
             ip == Cardinality(Inserting(h)')
             op == over'[h]
  <2>9. l \in Nat /\ i \in Nat /\ t \in 0..MaxMembers /\ o \in Nat /\ MaxMembers \in Nat
    BY Sizes, FamilyAssumption, Zenon DEF Sized
  <2>10. ip = i + 1
    BY <2>4, Sizes, FS_AddElement, Zenon DEF Sized
  <2>11. l + i + t <= MaxMembers + o
    BY Zenon DEF LInv, LimitFor
  <2>12. CASE Inserting(h) # {} \/ Adding(h)
    <3>1. op = o + 1
      BY <2>1, <2>5, <2>12, Zenon
    <3>2. l + ip + t <= MaxMembers + op
      <4> HIDE DEF l, i, t, o, ip, op
      <4> QED BY ONLY <2>9, <2>10, <2>11, <3>1
    <3>3. LimitFor(h)'
      BY <1>d, <2>2, <3>2, Zenon DEF LimitFor
    <3> QED BY <2>7, <2>8, <3>3, Zenon DEF LInv
  <2>13. CASE ~(Inserting(h) # {} \/ Adding(h))
    <3>1. op = o
      BY <2>1, <2>5, <2>13, Zenon
    <3>2. i = 0
      BY <2>13, FS_EmptySet, Zenon
    <3>3. t = 0
      <4>1. left[h] \in 0..MaxMembers
        BY Zenon DEF TInv, TypeOK
      <4>2. ~(left[h] > 0) => left[h] = 0
        BY <4>1, FamilyAssumption
      <4> QED BY <2>13, <4>2, Zenon DEF Adding, ToAdd
    <3>4. l < MaxMembers
      BY <1>1, Zenon DEF CountMembers
    <3>5. l + ip + t <= MaxMembers + op
      <4> HIDE DEF l, i, t, o, ip, op
      <4> QED BY ONLY <2>9, <2>10, <3>1, <3>2, <3>3, <3>4
    <3>6. LimitFor(h)'
      BY <1>d, <2>2, <3>5, Zenon DEF LimitFor
    <3> QED BY <2>7, <2>8, <3>6, Zenon DEF LInv
  <2> QED BY <2>12, <2>13, Zenon
<1>2. CASE AddGroupMember(a) /\ agroup[a] \in groups
  <2>h. PICK h \in Wizards : h = agroup[a]
    BY <1>2, Zenon DEF AddGroupMember, TInv, AdminOK
  <2>0. apc[a] = "insert" /\ apc'[a] = "idle" /\ over' = over
    BY <1>2, <1>t, Zenon DEF AddGroupMember, Leave, history
  <2>1. PICK m \in MemberIds : Insert(m, h)
    BY <1>2, <2>h, Zenon DEF AddGroupMember
  <2>2. \A g \in Wizards : Inserting(g)' \subseteq Inserting(g)
    BY <1>o, <1>s, <2>0, Zenon DEF Inserting
  <2>3. ASSUME NEW g \in Wizards, g # h PROVE LimitFor(g)'
    BY <1>e, <2>0, <2>1, <2>2, <2>3, NewRow, Shrinks, Zenon DEF LInv
  <2>4. Inserting(h)' = Inserting(h) \ {a} /\ a \in Inserting(h)
    BY <1>o, <1>s, <2>0, <2>h, Zenon DEF Inserting
  <2>5. LimitFor(h)'
    <3> DEFINE l == Cardinality(ListGroupMembers(h))
               i == Cardinality(Inserting(h))
               t == ToAdd(h)
               o == over[h]
               lp == Cardinality(ListGroupMembers(h)')
               ip == Cardinality(Inserting(h)')
    <3>1. l \in Nat /\ i \in Nat /\ t \in 0..MaxMembers /\ o \in Nat /\ MaxMembers \in Nat
      BY <2>0, Sizes, FamilyAssumption, Zenon DEF Sized
    <3>2. lp \in Nat
      BY <2>0, SizesNext, Zenon DEF Sized
    <3>3. lp <= l + 1
      BY <2>0, <2>1, NewRow, Zenon
    <3>4. ip = i - 1
      BY <2>0, <2>4, Sizes, FS_RemoveElement, ZenonT(60) DEF Sized
    <3>5. l + i + t <= MaxMembers + o
      BY <2>0, Zenon DEF LInv, LimitFor
    <3>6. lp + ip + t <= MaxMembers + o
      <4> HIDE DEF l, i, t, o, lp, ip
      <4> QED BY ONLY <3>1, <3>2, <3>3, <3>4, <3>5
    <3> QED BY <1>d, <2>0, <3>6, Zenon DEF LimitFor
  <2>6. FreshOK'
    BY <1>w, <2>2, Zenon DEF LInv, FreshOK
  <2> QED BY <2>3, <2>5, <2>6, Zenon DEF LInv
<1>3. CASE \/ AddGroupMember(a) /\ agroup[a] \notin groups
           \/ AdminFault(a)
  <2>1. members' = members /\ over' = over /\ apc'[a] = "idle"
    BY <1>3, <1>t, Zenon DEF AddGroupMember, AdminFault, Leave, history
  <2>2. \A g \in Wizards : Inserting(g)' \subseteq Inserting(g)
    BY <1>o, <1>s, <2>1, Zenon DEF Inserting
  <2>3. \A g \in Wizards : ListGroupMembers(g)' \subseteq ListGroupMembers(g)
    BY <2>1, Zenon DEF ListGroupMembers
  <2> QED BY <1>w, <2>1, <2>2, <2>3, QuietLimit, Zenon
<1> QED BY <1>1, <1>2, <1>3, Zenon DEF Admin

\* A group exceeds the limit only by what was let in while other insertions were to come:
\* addFamilyGroupMember counts the members, not those that are on their way.
THEOREM LimitHolds == Spec => []LimitOnlyOverrunByRaces
<1>1. Init => LInv
  <2> SUFFICES ASSUME Init PROVE LInv
    BY Zenon
  <2>s. "idle" # "insert" /\ "idle" # "add"
    OBVIOUS
  <2>1. ASSUME NEW g \in Wizards
        PROVE  ListGroupMembers(g) = {} /\ Inserting(g) = {} /\ ToAdd(g) = 0 /\ over[g] = 0
    BY <2>s, Zenon DEF Init, ListGroupMembers, Inserting, ToAdd
  <2>2. 0 + 0 + 0 <= MaxMembers + 0
    BY FamilyAssumption
  <2>3. \A g \in Wizards : LimitFor(g)
    BY <2>1, <2>2, FS_EmptySet, Zenon DEF LimitFor
  <2>4. FreshOK
    BY <2>1, Zenon DEF Init, FreshOK
  <2> QED BY <2>3, <2>4, Zenon DEF LInv
<1>2. TInv /\ TInv' /\ SInv /\ LInv /\ [Next]_vars => LInv'
  BY WizardLimit, OthersLimit, AdminLimit, Zenon DEF Next
<1>3. TInv /\ LInv => LimitOnlyOverrunByRaces
  <2> SUFFICES ASSUME TInv, LInv, NEW g \in Wizards
               PROVE  Cardinality(ListGroupMembers(g)) <= MaxMembers + over[g]
    BY Zenon DEF LimitOnlyOverrunByRaces
  <2> DEFINE l == Cardinality(ListGroupMembers(g))
             i == Cardinality(Inserting(g))
             t == ToAdd(g)
             o == over[g]
  <2>1. l \in Nat /\ i \in Nat /\ t \in 0..MaxMembers /\ o \in Nat /\ MaxMembers \in Nat
    BY Sizes, FamilyAssumption, Zenon DEF Sized
  <2>2. l + i + t <= MaxMembers + o
    BY Zenon DEF LInv, LimitFor
  <2> HIDE DEF l, i, t, o
  <2>3. l <= MaxMembers + o
    BY ONLY <2>1, <2>2
  <2> QED BY <2>3, Zenon DEF l, o
<1> QED BY <1>1, <1>2, <1>3, TInvInvariant, SInvInvariant, PTL DEF Spec
=============================================================================
