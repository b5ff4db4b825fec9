\* The collector may shut down for good, hence no deadlock check.
SPECIFICATION Spec
CONSTANTS
    Keys = {k1}
    NoKey = NoKey
    StartLedger = 1
    StreamCapacity = 2
    EventCapacity = 2
    MaxEvents = 2
    MaxFaults = 1
INVARIANT ExpiredCursorResets
CHECK_DEADLOCK FALSE
