CONSTANTS
    BitmapBits = 5
    d1 = d1
    d2 = d2
    Zeros = zeros
    Data = {zeros, d1, d2}
SPECIFICATION Spec
INVARIANTS TypeOK OwnedArePinned ReadsLatestWrite
SYMMETRY DataSymmetry
