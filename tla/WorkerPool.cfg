SPECIFICATION Spec
CONSTANTS
    s1 = s1  s2 = s2  s3 = s3  i1 = i1  i2 = i2
    Seats = {s1, s2, s3}
    Ids = {i1, i2}
    NoScore = NoScore
    Invalid = Invalid
    MaxGen = 1
    NumWorkers = 2
    Threads = 2
    UsizeMax = 5
CONSTRAINT OneContentUncached
INVARIANTS TypeOK LoadsTellLeases
PROPERTIES LineageStable ImplementsEvaluation
CHECK_DEADLOCK FALSE
