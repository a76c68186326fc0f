SPECIFICATION FairSpec
CONSTANTS
    Names = {e1, e2}
    MaxCheckRetries <- MCMaxCheckRetries
    PollInterval = 2
    MaxFaults <- MCMaxFaults
    MaxKills = 1
    MaxStops = 1
    None = None
INVARIANTS RoundComplete FailuresHaveCause NothingOverlooked
PROPERTIES KeptChecked StopsOnRequest
