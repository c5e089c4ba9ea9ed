SPECIFICATION Spec
CONSTANTS
    a = a  b = b  c = c
    Ids = {a, b, c}
    Texts = {t1, t2}
    Links <- TwoLinks
    Caps = {1, 2}
    None = None
    Garbage = Garbage
    MayCompact = FALSE
    MayFlush = FALSE
    MaxFaults = 0
    MaxCheckpoints = 0
SYMMETRY SymmetricTexts
INVARIANTS TypeOK LosslessRoundTrip NoLeakedBlobs NeighboursExact
PROPERTIES ResidentLinksSurvive
CHECK_DEADLOCK FALSE
