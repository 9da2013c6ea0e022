\* Two workers and the metrics goroutine share the table: stale attempt counts,
\* double sends, a crash or a failing call, and an item that cannot be decoded.
SPECIFICATION FairSpec
CONSTANTS
    Items = {i1, i2}
    Members = {m1}
    Workers = {w1, w2}
    Metrics = metrics
    BadPayload = {i2}
    None = none
    MaxRetryAttempts = 2
    BatchSize = 2
    MaxTroubles = 1
INVARIANTS TypeOK CeilingAgrees GivingUpIsEarned NothingLost  CarriedStateIsSound
PROPERTIES PermanentIsFinal EventuallySettled
