SPECIFICATION Spec
CONSTANTS
    fa = fa  fb = fb  v1 = v1  v2 = v2  x = x  y = y  d = d
    Files = {fa, fb}
    Versions = {v1, v2}
    Absent = Absent
    Symbols <- OneSymbolEach
    Imports <- OneImport
    Caps = {3, 9}
    MaxEdits = 2
    MaxPageIns = 1
INVARIANTS TypeOK GraphFollowsFiles IndexMirrors
CHECK_DEADLOCK FALSE
