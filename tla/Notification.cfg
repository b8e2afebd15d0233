\* Every fault.
SPECIFICATION FairSpec
CONSTANTS
    Users = {u1}
    Galleries = {g1}
    Conns = {c1}
    Replicas = {i1, i2}
    Prefetch = 2
    MaxEvents = 2
    Faults = {"crash", "drop", "redis"}
    MaxFailures = 1
    MaxRetries = 1
    NoOne = NoOne
INVARIANTS
    RegisteredHasHandler
    OnlyResolved
    OnceAndInOrder
PROPERTY
    DueDelivered
