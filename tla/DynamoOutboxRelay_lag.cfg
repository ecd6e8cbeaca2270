\* Two relays and two items, scans that lag; calls may fail anywhere.
CONSTANTS
    Messages = {m1, m2}
    Relays = {r1, r2}
    MaxAttempts = 2
    MaxFaults = 2
    ShiftsAnytime = FALSE
SPECIFICATION FairSpec
INVARIANTS RetriesAreUsable OneStrandedPerFault
PROPERTIES RefinesPromise SettledForGood
CHECK_DEADLOCK FALSE
