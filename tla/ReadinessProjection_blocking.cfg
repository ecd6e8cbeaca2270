\* One consumer, everything processed.
CONSTANTS
    Requests = {q1, q2}
    Units = {u1}
    Handlers = {h1}
    Consumers = {c1}
    MaxVersion = 1
    None = None
SPECIFICATION Spec
INVARIANTS BlockingRequestBlocks
