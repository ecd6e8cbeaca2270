\* The statements of one delivery's executor always fail.
CONSTANTS
    Deliveries = {d1, d2}
    Unknown = {}
    Poisoned = {d1}
    Workers = {w1}
    MaxAttempts = 2
    MaxFaults = 0
SPECIFICATION FairSpec
PROPERTIES IndependentlySettled
CHECK_DEADLOCK FALSE
