CONSTANTS
    IH = {ih1, ih2}
    NoIH = NoIH
    MaxRev = 14
    SavedRevs = {1, 2, 12}
    NoFile = NoFile
    TornFile = TornFile
SPECIFICATION Spec
INVARIANT TypeOK
PROPERTY ImplementsRegister
SYMMETRY MCSymmetry
