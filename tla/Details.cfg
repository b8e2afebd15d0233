\* Two galleries; two requests for details and two for photos at a time; a page of
\* one photo among two, files of one chunk, none, or one too many.
SPECIFICATION Spec
CONSTANTS
    Galleries = {g1, g2}
    None = None
    PageSize = 1
    MaxChunks = 1
    MaxAsking = 2
    MaxLoads = 2
    MaxStored = 2
SYMMETRY GallerySymmetry
INVARIANTS
    SuccessMeansStored
    DetailsAreOfPage
    GridIsCurrent
    SpinnersHaveRequests
