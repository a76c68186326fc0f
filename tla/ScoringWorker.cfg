CONSTANTS
    Jobs = {j1, j2}
    Workers = {w1, w2}
    MaxRetries = 1
    MaxScores = 1
    MaxKills = 1
    MaxFaults = 1
    MaxStops = 1
    NoMsg = NoMsg
SPECIFICATION FairSpec
INVARIANTS
    TypeOK
    OnePlace
    AttemptsCounted
    RowsBounded
    ScoresBacked
    LossBounded
PROPERTIES
    DeliverySpec
    ShutdownCompletes
