\* Two handlers race on a request, three consumers on its messages.
CONSTANTS
    Requests = {q1}
    Units = {u1}
    Handlers = {h1, h2}
    Consumers = {c1, c2, c3}
    MaxVersion = 2
    None = None
SPECIFICATION Spec
SYMMETRY Symmetry
INVARIANTS DeletedAfterCommit NoVersionSkipped OutboxTellsAll VerdictHasSource
PROPERTIES NeverBelow ClosedIsFinal
