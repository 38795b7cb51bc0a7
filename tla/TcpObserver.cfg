CONSTANTS
    MaxTime = 2
    MaxTs = 2
    MaxPkts = 5
    Cells = {1, 2, 3, 4, 5}
    STATUS_VALID = 3
    STATUS_INVALID = 0
    StatusValues = {0, 3}
    SPIN_NOT_KNOWN = SPIN_NOT_KNOWN
    Cleans = TRUE
    Layouts = {"nop_nop_ts", "mss_ts", "bad_len"}
SPECIFICATION Spec
CHECK_DEADLOCK FALSE
INVARIANTS
    NoDanglingCell
    InitMapHoldsUnechoed
    AcceptedTimestampsAreSent
    TypeOK
PROPERTIES
    TsAllSampleIsRoundTrip
    NoSampleLost
