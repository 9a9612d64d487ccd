SPECIFICATION FiguresSpec
CONSTANTS
    i1 = i1
    i2 = i2
    Instruments = {i1, i2}
    Entries <- MCEntries
    Quotes <- MCQuotes
    Quantities = {1, 2}
    InitialCash = 1000000
    Averaging = TRUE
    r1 = r1
    Readers = {r1}
    MaxTrades = 4
    Missing = Missing
    NotFinite = NotFinite
    Policy <- MCPolicy
    Evidence <- MCEvidence
    LastDay = 3
    Features <- MCFeatures
    NoFeature = NoFeature
    Reading <- MCReading
    CalledStale <- MCCalledStale
    Events <- MCEvents
    Standings <- MCStandings
    Never = Never
    LastMinute = 1
    p1 = p1
    p2 = p2
    Predictions = {p1, p2}
    a1 = a1
    Admins = {a1}
    InputOf <- MCInputOf
    RuleBodies <- MCRuleBodies
    OutcomeBodies <- MCOutcomeBodies
    SafetyEnabled = TRUE
    GovernanceEnabled = TRUE
    MaxResults = 1
    MaxDecisions = 1
SYMMETRY MCSymmetry
INVARIANTS
    LedgerFollowsTrades
    BooksBalance
    FewTradesReconcile
    PagesAddUp
    ValidatedIsEarned
    JudgementsAgree
    RanksAreEarned
    CopiedDecisionsFollowTheEvidence
PROPERTIES
    FailureStands
\* Each of the four stops at the bound of its model.
CHECK_DEADLOCK FALSE
