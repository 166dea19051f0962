CONSTANTS
    NIds = 2
    Kinds = {"SUBSCRIBE", "UNSUBSCRIBE", "PUBLISH1", "PUBLISH2"}
    Faults = {"lose", "drop"}
    MaxRequests = 3
SPECIFICATION FairSpec
CHECK_DEADLOCK FALSE
INVARIANTS TypeOK AnswerFindsRequest AnswerCompletes FreesOwn NoneLeaks
PROPERTIES EveryRequestCompletes
