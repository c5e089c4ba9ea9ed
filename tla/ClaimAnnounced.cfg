SPECIFICATION CCSpec
CONSTANTS
    c1 = c1  c2 = c2  m1 = m1  m2 = m2
    Codes = {c1, c2}
    Machines = {m1, m2}
    Days <- OneOfEach
    Perpetual = Perpetual
    NoMachine = NoMachine
    NoRequest = NoRequest
    MaxNow = 2
    MaxRearms = 1
    MaxFaults = 0
SYMMETRY Symmetric
PROPERTIES AnnouncedIsRefused
CHECK_DEADLOCK FALSE
