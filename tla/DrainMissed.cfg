\* A scrobble that fails between two health checks.
SPECIFICATION FairSpec
CONSTANTS
    Short = 1
    Long = 12
    Threshold = 4
    ChanCap = 10
    MaxArrivals = 1
    MaxRestarts = 0
    MaxOutages = 2
PROPERTY QueueIsDrained
