\* One event is buffered, the store recovers, another event arrives.
SPECIFICATION Spec
CONSTANTS
    Events = {e1, e2}
    Handlers = {h1}
    Size = 2
    StackLimit = 20
    MaxChanges = 2
    None = none
CHECK_DEADLOCK FALSE
INVARIANT NonFatal
