SPECIFICATION Spec
CONSTANTS
    a = a  b = b  c = c
    Ids = {a, b}
    Texts = {t1}
    Links = {}
    Caps = {1}
    None = None
    Garbage = Garbage
    MayCompact = TRUE
    MayFlush = TRUE
    MaxFaults = 1
    MaxCheckpoints = 1
SYMMETRY SymmetricTexts
INVARIANTS Recoverable
CHECK_DEADLOCK FALSE
