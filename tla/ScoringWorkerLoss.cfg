CONSTANTS
    Jobs = {j1}
    Workers = {w1}
    MaxRetries = 3
    MaxScores = 1
    MaxKills = 0
    MaxFaults = 1
    MaxStops = 0
    NoMsg = NoMsg
SPECIFICATION Spec
INVARIANT FailedJobsKept
