CONSTANTS
    Names = {a, b}
    Starts <- MCStarts
    Increments <- MCIncrements
    SequenceMax = 1
    CatalogMax = 1
    IntHalf = 4
    MaxDepth = 2
    MaxIssued = 3
SPECIFICATION Spec
INVARIANTS TypeOK CatalogIsDurable CacheCoherent StorageResumes AloneIsProgression
SYMMETRY NameSymmetry
