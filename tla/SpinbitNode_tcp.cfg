\* Two TCP flows on a one-slot pool, a colliding transit packet, duplicate
\* timer expiries, from spinbit_init's unconfigured state: up to six
\* configuration commands (mb_ip, nat, interface on/off, including a wrong
\* middlebox address 6) interleave with the traffic.  The process ends when
\* a second live flow finds the pool full, so deadlock is not checked.
CONSTANTS
    IP_BITS = 3
    PORT_BITS = 2
    MB_IP = 7
    NAT <- MC_NAT
    QUIC_PORTS = {3}
    Ifaces = {if_c, if_s, if_sub}
    HwIfaces = {if_c, if_s}
    IfClient = if_c
    IfServer = if_s
    Configured = FALSE
    AdminIps = {7, 6}
    MaxAdmin = 6
    Conns <- MC_TwoTcpConns
    Strays <- MC_Strays
    Slots = {0}
    TIMEOUT = 2
    MaxTime = 5
    NONE = NONE
SPECIFICATION FairSpec
INVARIANTS
    ActiveFlowsMatchPool
    TypeOK
    TableMatchesSessions
    ExpiryOnlyWhenIdle
    NoMisdelivery
PROPERTIES
    ExpiredSessionsFreed
    FlowMonitorSpec
CHECK_DEADLOCK FALSE
