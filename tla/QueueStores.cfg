\* Redis and disk: stale batches, torn files and a member taken out to be rewritten,
\* with a crash and a failing call.
SPECIFICATION Spec
CONSTANTS
    Backends = {"redis", "disk"}
    Events = {1, 2}
    Key <- SharedKey
    Enqueuers = {w1}
    Drains = {d1, d2}
    None = none
    Cap = 1
    BatchSize = 2
    MaxAttempts = 2
    MaxClock = 2
    MaxSends = 1
    MaxSlips = 1
    MaxCrashes = 1
    MaxFaults = 1
SYMMETRY Symmetry
CHECK_DEADLOCK FALSE
INVARIANTS NothingLost BoundedOverrun
