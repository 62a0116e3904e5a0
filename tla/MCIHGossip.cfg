CONSTANTS
    Peer = {p1, p2}
    IH = {ih1, ih2}
    NoIH = NoIH
    MaxSet = 2
    MaxHandshakes = 2
SPECIFICATION Spec
INVARIANT TypeOK CurrentDelivered
SYMMETRY MCSymmetry
CHECK_DEADLOCK FALSE
