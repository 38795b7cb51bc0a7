\* Two TCP clients with the same source port share a reverse key.
CONSTANTS
    IP_BITS = 3
    PORT_BITS = 2
    MB_IP = 7
    NAT <- MC_NAT
    QUIC_PORTS = {3}
    Ifaces = {if_c, if_s}
    HwIfaces = {if_c, if_s}
    IfClient = if_c
    IfServer = if_s
    Configured = TRUE
    AdminIps = {}
    MaxAdmin = 0
    Conns <- MC_SamePortConns
    Strays <- MC_Strays
    Slots = {0, 1}
    TIMEOUT = 2
    MaxTime = 5
    NONE = NONE
SPECIFICATION Spec
INVARIANT
    NoMisdelivery
