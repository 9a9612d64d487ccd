SPECIFICATION StoresSpec
CONSTANTS
    i1 = i1
    i2 = i2
    Ingesters = {i1, i2}
    Payloads <- MCPayloads
    NoPayload = NoPayload
    MaxRevisions = 4
    w1 = w1
    w2 = w2
    A = A
    B = B
    p = p
    q = q
    deal = deal
    denies = denies
    wins = wins
    Workers = {w1, w2}
    Providers = {A, B}
    Ids = {1, 2}
    NoId = NoId
    Pages <- MCPages
    NoPage = NoPage
    Trackers = {"none", "utm"}
    Words = {deal, denies, wins}
    Denials = {denies}
    Awards = {wins}
    Deliveries <- MCDeliveries
    NoDelivery = NoDelivery
    MaxLinks = 1
INVARIANTS
    CandleTypeOK
    NewestIsAuthoritative
    DuplicatesCollapse
    ItemsTraceToRaw
    ClassificationsAgree
    LinksAgree
PROPERTIES
    ImplementsHistory
    IngestionsReturn
    DeliveriesReturn
\* A store rests when nothing more may be sent.
CHECK_DEADLOCK FALSE
