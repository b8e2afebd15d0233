\* Two requests, every fault. No symmetry: a liveness property is checked.
SPECIFICATION FairSpec
CONSTANTS
    Uploads = {u1, u2}
    MaxFailures = 1
    Faults = {"gallery", "storage", "sql", "broker", "crash"}
INVARIANTS
    StoredWasAllowed
    AnnouncedIsStored
    ErrorMeansUnseen
PROPERTY
    EndsOrPublishes
