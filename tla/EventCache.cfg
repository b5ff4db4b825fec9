\* The collector may shut down for good, hence no deadlock check.
SPECIFICATION Spec
CONSTANTS
    Keys = {k1}
    NoKey = NoKey
    StartLedger = 1
    StreamCapacity = 1
    EventCapacity = 1
    MaxEvents = 3
    MaxFaults = 2
INVARIANTS TypeOK CacheCurrent RowsCurrent SavedBehindSent
CHECK_DEADLOCK FALSE
