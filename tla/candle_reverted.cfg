SPECIFICATION Spec
CONSTANTS
    i1 = i1
    i2 = i2
    Ingesters = {i1, i2}
    Payloads <- MCPayloads
    NoPayload = NoPayload
    MaxRevisions = 4
PROPERTIES
    AnswersAreAuthoritative
CHECK_DEADLOCK FALSE
