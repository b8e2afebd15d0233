\* Three galleries, the user's in pages of one and all in pages of two; two
\* actions of the client overlap.
SPECIFICATION Spec
CONSTANTS
    MaxGalleries = 3
    Owned <- MCOwned
    Changing <- MCChanging
    MyPageSize = 1
    AvailablePageSize = 2
    Calls = {c1, c2}
    Unread = Unread
SYMMETRY CallSymmetry
INVARIANTS
    CardsDisjoint
    SpinnersHaveCalls
    PagedToTheEnd
