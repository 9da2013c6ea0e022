\* Two goroutines with webhooks about one player and item.
SPECIFICATION Spec
CONSTANTS
    Procs = {"p1", "p2"}
    Keys = {"k1"}
    KeysOf <- AllKeys
    Modes = {"w"}
    Refs = {1, 2, 3}
    Mutexes = {1, 2, 3, 4}
    MaxCopies = 2
    None = none
INVARIANT MutualExclusion
