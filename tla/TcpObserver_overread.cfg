\* Packets whose data offset announces more option bytes than the segment
\* holds, or less than the fixed header.
CONSTANTS
    MaxTime = 2
    MaxTs = 2
    MaxPkts = 5
    Cells = {1, 2, 3, 4, 5}
    STATUS_VALID = 3
    STATUS_INVALID = 0
    StatusValues = {0, 3}
    SPIN_NOT_KNOWN = SPIN_NOT_KNOWN
    Cleans = TRUE
    Layouts = {"nop_nop_ts", "long_doff", "short_doff"}
SPECIFICATION Spec
CHECK_DEADLOCK FALSE
INVARIANT
    OptionsReadWithinPacket
