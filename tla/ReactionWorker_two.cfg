\* Two workers, three deliveries, one of them without an executor.
CONSTANTS
    Deliveries = {d1, d2, d3}
    Unknown = {d3}
    Poisoned = {}
    Workers = {w1, w2}
    MaxAttempts = 3
    MaxFaults = 4
SPECIFICATION FairSpec
INVARIANTS EffectsAreRecorded
PROPERTIES SucceededIsFinal IndependentlySettled
CHECK_DEADLOCK FALSE
