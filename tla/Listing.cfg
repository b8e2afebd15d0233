\* Up to five photos in pages of two: none to three pages.
SPECIFICATION Spec
CONSTANTS
    MaxPhotos = 5
    PageSize = 2
CHECK_DEADLOCK FALSE
INVARIANTS
    PagesTile
    NoneSkipped
