\* Two dispatchers, three events, batches of two; anything may fail anywhere.
CONSTANTS
    Events = {1, 2, 3}
    Dispatchers = {d1, d2}
    BatchSize = 2
    MaxFaults = 2
SPECIFICATION FairSpec
INVARIANTS NothingStranded DispatchedWasBroadcast DuplicatesAreBounded
PROPERTIES DispatchedIsFinal EventuallyDispatched
CHECK_DEADLOCK FALSE
