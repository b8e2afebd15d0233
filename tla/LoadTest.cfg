\* One moderator and two members, three requests among them; one permit for the set-up.
SPECIFICATION Spec
CONSTANTS
    Moderators = {m1}
    Members = {u1, u2}
    Permits = 1
    GalleryOps = {"joinGallery"}
    UploadOps = {"listMyGalleries", "uploadPhoto"}
    Latencies = {1, 2}
    MaxRequests = 3
\* The program ends.
CHECK_DEADLOCK FALSE
INVARIANTS
    ReportComplete
    PercentilesHold
    PicksExist
    ServiceRestored
PROPERTY
    EndsUnlessSshHangs
