\* One activation, one relay that may fail at any call, two consumers and a
\* probe: at most 2 copies of the message, received twice each.
CONSTANTS
    Messages = {m1}
    Relays = {r1}
    MaxAttempts = 2
    BatchSize = 10
    CanCrash = TRUE
    DbCanFail = TRUE
    Consumers = {c1, c2}
    Probes = {p1}
    PollSize = 5
    MaxReceives = 2
    MaxFaults = 2
SPECIFICATION FairSpec
INVARIANTS GrantedWithMarker DeletedAfterGrant DeadLettersWereTried
PROPERTIES RefinesDelivery EventuallyGranted
CHECK_DEADLOCK FALSE
