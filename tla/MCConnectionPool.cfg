\* Two submit-alls and two other queries share three connections.
CONSTANTS
    b1 = b1
    b2 = b2
    o1 = o1
    o2 = o2
    Batches = {b1, b2}
    Queries = {o1, o2}
    PoolMax = 3
SPECIFICATION Spec
INVARIANTS
    NeverExhausted
    NothingLeaks
PROPERTIES
    EveryRequestIsAnswered
