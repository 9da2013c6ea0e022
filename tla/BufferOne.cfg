\* One handler, a ring of two slots, a store that fails and recovers.
SPECIFICATION Spec
CONSTANTS
    Events = {e1, e2, e3, e4}
    Handlers = {h1}
    Size = 2
    StackLimit = 8
    MaxChanges = 6
    None = none
CHECK_DEADLOCK FALSE
INVARIANTS TypeOK BufferKeepsNewest 
