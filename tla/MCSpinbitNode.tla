--------------------------- MODULE MCSpinbitNode ---------------------------
(* Instances of SpinbitNode for TLC.  Addresses are 3-bit and ports 2-bit *)
(* so that make_key's XOR is computed on real bit patterns: middlebox 7,  *)
(* clients 1 and 2, server 4 behind service port 3.                       *)
EXTENDS SpinbitNode

MC_NAT == [p \in 0 .. 3 |-> IF p = 3 THEN 4 ELSE 0]

TcpConn(client, cport) ==
    [client |-> client, cport |-> cport, sport |-> 3, proto |-> TCP_PROTOCOL]
QuicConn(client, cport) ==
    [client |-> client, cport |-> cport, sport |-> 3, proto |-> UDP_PROTOCOL]

\* Three TCP flows from distinct source ports (client 1 twice): no two keys
\* coincide, and with two pool slots the third live flow finds the pool full.
MC_TcpConns == {TcpConn(1, 1), TcpConn(2, 2), TcpConn(1, 0)}

\* One QUIC flow to the QUIC/NAT port 3.
MC_QuicConns == {QuicConn(1, 1)}

\* Two TCP clients that picked the same source port: their reverse keys
\* (middlebox ^ server, cport ^ 3) are equal.
MC_SamePortConns == {TcpConn(1, 1), TcpConn(2, 1)}

\* A transit packet 2 -> 4 whose XORed addresses and ports equal the
\* forward key of client 1's flow (1 ^ 7 = 2 ^ 4, 1 ^ 3 = 0 ^ 2), to a
\* port with no NAT entry.
MC_Strays == {[src |-> 2, dst |-> 4, sport |-> 0, dport |-> 2,
               proto |-> TCP_PROTOCOL]}
\* Two TCP flows from different clients and source ports: with one pool
\* slot the second live flow finds the pool full.
MC_TwoTcpConns == {TcpConn(1, 1), TcpConn(2, 2)}
=============================================================================
