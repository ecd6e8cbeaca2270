\* Two relays, three messages; anything may fail anywhere.
CONSTANTS
    Messages = {m1, m2, m3}
    Relays = {r1, r2}
    MaxAttempts = 3
    BatchSize = 2
    CanCrash = TRUE
    DbCanFail = TRUE
SPECIFICATION FairSpec
INVARIANTS ExclusiveClaim SendsAreCounted RetriesAreUsable
PROPERTIES RefinesPromise DeadIsFinal EventuallySettled
CHECK_DEADLOCK FALSE
