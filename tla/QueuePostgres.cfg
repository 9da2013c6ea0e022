\* PostgreSQL: two handlers at a full queue, two drains, a crash, a deleted user.
SPECIFICATION Spec
CONSTANTS
    Backends = {"postgres"}
    Events = {1, 2, 3}
    Key <- SharedKey
    Enqueuers = {w1, w2}
    Drains = {d1, d2}
    None = none
    Cap = 1
    BatchSize = 2
    MaxAttempts = 2
    MaxClock = 1
    MaxSends = 3
    MaxSlips = 0
    MaxCrashes = 1
    MaxFaults = 0
SYMMETRY Symmetry
CHECK_DEADLOCK FALSE
INVARIANTS TypeOK NothingLost  BoundedOverrun
 
