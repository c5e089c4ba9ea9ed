SPECIFICATION Spec
CONSTANTS
    fa = fa  fb = fb  fc = fc
    caller = caller  definer = definer  plain = plain
    NoSource = NoSource
    Files = {fa, fb, fc}
    Versions = {caller, definer}
    Callers = {caller}
    Definers = {definer}
    OplogMax = 1
    OplogKeep = 1
    FaultLists <- OneFault
    MaxLen = 4
    MaxOpens = 2
    MaxOutside = 1
    MayPredate = TRUE
    MayCorrupt = TRUE
SYMMETRY Symmetric
CONSTRAINT OneOrTwoSessions
INVARIANTS TypeOK ChainsVerify HeadCommitsToHistory ReplayIsLiveInOneProcess
PROPERTIES CheckpointKeepsHead DurableHistoryOnlyGrows
CHECK_DEADLOCK FALSE
