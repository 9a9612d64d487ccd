SPECIFICATION JobsSpec
CONSTANTS
    c1 = c1
    a1 = a1
    a2 = a2
    a3 = a3
    k1 = k1
    k2 = k2
    i1 = i1
    i2 = i2
    Clients = {c1}
    Approvals = {a1, a2}
    Keys = {k1, k2}
    Instruments = {i1, i2}
    InstrumentOf <- MCTwoInstruments
    Quantities = {1, 2}
    Prices = {1}
    Spread = 0
    InitialCash = 3
    CapDivisor = 1
    Lifetime = 0
    MaxTime = 1
    KillSettings = {}
    AveragingSettings = {}
    NoRow = NoRow
    EodForced = TRUE
SYMMETRY MCSymmetry
INVARIANTS
    JobsTypeOK
    HoldingsKeptByLockedJobs
    FilledNeverReopened
