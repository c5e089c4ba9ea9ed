SPECIFICATION Spec
CONSTANTS
    i1 = i1  i2 = i2  i3 = i3
    Ids = {i1, i2, i3}
    Objectives <- FourPairs
    Population = 3
    Survivors = 2
    Generations = 3
    Invalid = Invalid
    NoState = NoState
    MaxCrashes = 2
SYMMETRY Symmetric
INVARIANTS TypeOK ElitesAreReevaluated ArchiveRanked CurveIsPerGeneration
 
CHECK_DEADLOCK FALSE
