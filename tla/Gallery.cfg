\* Three requests race on one gallery, with every fault.
SPECIFICATION Spec
CONSTANTS
    Users = {u1, u2}
    Moderators = {u1}
    Galleries = {g1}
    Requests = {r1, r2, r3}
    Faults = {"crash", "drop", "sql"}
    NoRow = NoRow
SYMMETRY RequestSymmetry
INVARIANTS
    MembersHaveGallery
    AnnouncedNeverOpen
PROPERTIES
    ClosedNeverReopens
    UndeletedIsClosed
