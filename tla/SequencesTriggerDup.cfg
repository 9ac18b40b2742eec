CONSTANTS
    Names = {a, b}
    Starts <- MCStarts
    Increments = {1}
    SequenceMax = 1
    CatalogMax = 1
    IntHalf = 4
    MaxDepth = 2
    MaxIssued = 2
SPECIFICATION Spec
INVARIANT NextvalIsProgression
SYMMETRY NameSymmetry
