\* The collector may shut down for good, hence no deadlock check.
SPECIFICATION FairSpec
CONSTANTS
    Keys = {k1, k2}
    NoKey = NoKey
    StartLedger = 1
    StreamCapacity = 1
    EventCapacity = 1
    MaxEvents = 2
    MaxFaults = 1
INVARIANT RowsCurrent
PROPERTY EventsArrive
CHECK_DEADLOCK FALSE
