SPECIFICATION Spec
CONSTANTS
    fa = fa  fb = fb  fc = fc
    caller = caller  definer = definer  plain = plain
    NoSource = NoSource
    Files = {fa, fb}
    Versions = {caller, definer}
    Callers = {caller}
    Definers = {definer}
    OplogMax = 4
    OplogKeep = 1
    FaultLists = {}
    MaxLen = 4
    MaxOpens = 2
    MaxOutside = 0
    MayPredate = FALSE
    MayCorrupt = FALSE
PROPERTIES RecordKeepsReplayLive
CHECK_DEADLOCK FALSE
