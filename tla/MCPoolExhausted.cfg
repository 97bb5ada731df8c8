\* As many submit-alls as connections.
CONSTANTS
    b1 = b1
    b2 = b2
    o1 = o1
    o2 = o2
    Batches = {b1, b2}
    Queries = {o1}
    PoolMax = 2
SPECIFICATION Spec
PROPERTIES
    CommittedIsAnswered
CHECK_DEADLOCK FALSE
