SPECIFICATION FairAllSpec
CONSTANTS
    s1 = s1
    s2 = s2
    s3 = s3
    Requests = {r1, r2}
    Services <- MCServices
    Plain <- MCPlain
    Unknown = Unknown
    MaxChunks = 2
INVARIANTS TypeOK EveryAnswerRecorded OnlyWorkRecorded SummaryWithin
PROPERTIES TracesEnd
CHECK_DEADLOCK FALSE
