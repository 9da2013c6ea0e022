\* Two wizards for one Plex username, two callbacks, and the administration.
SPECIFICATION Spec
CONSTANTS
    Wizards = {g1, g2}
    Plex <- OnePlex
    Admins = {a1}
    Callbacks = {c1, c2}
    MemberIds = {m1, m2, m3}
    Label <- OwnLabel
    Accounts = {t1}
    MinMembers = 2
    MaxMembers = 2
    Lifetime = 0
    MaxFaults = 1
    None = none
SYMMETRY Symmetry
CHECK_DEADLOCK FALSE
INVARIANTS TypeOK OneGroupPerPlex NoOrphans SessionTellsTable LimitOnlyOverrunByRaces 
