SPECIFICATION Spec
CONSTANTS
    wa = wa  wb = wb  alice = alice  bob = bob
    Workspaces = {wa, wb}
    Ids = {alice, bob}
    IdOf <- Pair
    NoAgent = NoAgent
    Local = Local
    Ops = {o1}
    CryptoFree = {}
    OplogMax = 1
    OplogKeep = 1
    Concurrent = FALSE
    MaxKeys = 2
    MayMangle = TRUE
    MayGoStale = TRUE
    Served = {wa}
    MaxLen = 2
    MaxWire = 2
SYMMETRY Symmetric
INVARIANTS TypeOK ForeignLogsAuthentic OnlyRestartsDiverge ViewsConverge
PROPERTIES KnowledgeOnlyGrows
CHECK_DEADLOCK FALSE
