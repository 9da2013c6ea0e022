\* Two requests at a time about two users, on each of the stores: refreshes, authorizations,
\* edits and deletions, with a crash, a lost answer or a failing write.
SPECIFICATION Spec
CONSTANTS
    Backends = {"postgres", "redis", "disk"}
    Ids = {u1, u2}
    Names = {n1, n2}
    Handlers = {h1, h2}
    None = none
    DueAfter = 2
    RecordLife = 1
    MaxTokens = 2
    MaxClock = 2
    MaxTroubles = 1
SYMMETRY Symmetry
CONSTRAINT RedisBound
CHECK_DEADLOCK FALSE
INVARIANTS TypeOK TokenKept RefusalExplained
