SPECIFICATION FairSpec
CONSTANTS
    c1 = c1
    c2 = c2
    a1 = a1
    a2 = a2
    a3 = a3
    k1 = k1
    k2 = k2
    i1 = i1
    i2 = i2
    Clients = {c1, c2}
    Approvals = {a1, a2, a3}
    Keys = {k1, k2}
    Instruments = {i1, i2}
    InstrumentOf <- MCInstrumentOf
    Quantities = {1}
    Prices = {1}
    Spread = 0
    InitialCash = 4
    CapDivisor = 2
    Lifetime = 0
    MaxTime = 0
    KillSettings = {TRUE, FALSE}
    AveragingSettings = {TRUE}
    NoRow = NoRow
PROPERTIES
    CallsReturn
\* With every approval decided and no time left, the desk may rest.
CHECK_DEADLOCK FALSE
