\* Two goroutines that share two keys, as writers and readers.
SPECIFICATION Spec
CONSTANTS
    Procs = {"p1", "p2"}
    Keys = {"k1", "k2"}
    KeysOf <- AllKeys
    Modes = {"w", "r"}
    Refs = {1, 2, 3}
    Mutexes = {1, 2, 3, 4}
    MaxCopies = 1
    None = none
INVARIANTS TypeOK KeysAreIndependent
PROPERTY ImplementsKeyLock
CONSTRAINT NotRaced
