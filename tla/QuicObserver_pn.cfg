CONSTANTS
    CREATED = 1
    MaxTime = 1
    MaxPn = 3
    DYNA_HEUR_HISTORY_SIZE = 2
    DYNA_HEUR_MAX_REJECT = 1
    THRESHOLD_NUM = 2
    THRESHOLD_DEN = 1
    STATUS_VALID = 3
    STATUS_INVALID = 0
    SPIN_NOT_KNOWN = SPIN_NOT_KNOWN
    PN_BITS = 2
    SPIN_INIT = {SPIN_NOT_KNOWN}
    StatusValues = {0, 3}
    Senders = {"client", "server"}
SPECIFICATION Spec
PROPERTY
    PnAcceptsFreshEdges
