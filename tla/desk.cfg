SPECIFICATION Spec
CONSTANTS
    c1 = c1
    c2 = c2
    a1 = a1
    a2 = a2
    a3 = a3
    k1 = k1
    k2 = k2
    i1 = i1
    i2 = i2
    Clients = {c1, c2}
    Approvals = {a1, a2, a3}
    Keys = {k1, k2}
    Instruments = {i1, i2}
    InstrumentOf <- MCInstrumentOf
    Quantities = {1, 2, 3}
    Prices = {2}
    Spread = 1
    InitialCash = 8
    CapDivisor = 1
    Lifetime = 0
    MaxTime = 1
    KillSettings = {}
    AveragingSettings = {TRUE}
    NoRow = NoRow
SYMMETRY MCSymmetryDesk
INVARIANTS
    TypeOK
    ApprovedIffFilled
    HoldingsConserved
    AnswersNameTheFill
    ExitKeysFresh
    OverdraftBounded
PROPERTIES
    FillsMeetThePositionTheySaw
    DecidedOnce
    ImplementsBrokerage
\* With every approval decided, nothing to sell and no time left, it may rest.
CHECK_DEADLOCK FALSE
