SPECIFICATION Spec
CONSTANTS
    c1 = c1  c2 = c2  c3 = c3  p1 = p1  p2 = p2
    Calls = {c1, c2, c3}
    Pids = {p1, p2}
    PidOf <- Three
    Contents = {d1, d2}
    NoFile = NoFile
    MaxRenames = 2
SYMMETRY Symmetric
INVARIANTS TypeOK AckedSurvives
PROPERTIES ImplementsAtomicFile
CHECK_DEADLOCK FALSE
