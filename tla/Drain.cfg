\* The code's intervals, a channel of two, two failing scrobbles, outages and a
\* restart.
SPECIFICATION FairSpec
CONSTANTS
    Short = 1
    Long = 12
    Threshold = 4
    ChanCap = 2
    MaxArrivals = 2
    MaxRestarts = 1
    MaxOutages = 4
INVARIANTS TypeOK ChangesAreNoticed ChannelTellsMode
  
