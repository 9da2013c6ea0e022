\* Two concurrent requests about one item on Redis.
SPECIFICATION Spec
CONSTANTS
    Requests = {r1, r2}
    Hooks <- SomeHooks
    Users = {"a", "b"}
    Name <- Names
    DisplayName <- OneAccount
    Families = {"fam"}
    Members = {m1, m2}
    KeepsBodies = TRUE
    SpecificWindow = 2
    TraktWindow = 1
    Retention = 2
    ProgressThreshold = 90
    MaxQueue = 1
    None = none
INVARIANTS TypeOK   SuccessIsReal
PROPERTY NoRapidRepeat
SYMMETRY Symmetry
