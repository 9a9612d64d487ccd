SPECIFICATION FairSpec
CONSTANTS
    c1 = c1
    c2 = c2
    p1 = p1
    p2 = p2
    v1 = v1
    Clients = {c1, c2}
    Predictions = {p1, p2}
    Versions = {v1}
    ModelOf <- MCModelOf
    PayloadOf <- MCPayloadOf
    Requests <- MCRequests
    Corrections <- MCCorrections
    PolicyEnabled = TRUE
    StatisticsEnabled = TRUE
    NoTarget = NoTarget
INVARIANTS
    TypeOK
    StatusTellsTheOutcome
    OneVerdictPerPrediction
PROPERTIES
    ImplementsVerdicts
    ExecutionsReturn
CHECK_DEADLOCK FALSE
