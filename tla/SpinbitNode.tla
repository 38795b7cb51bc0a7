---------------------------- MODULE SpinbitNode ----------------------------
(***************************************************************************)
(* The per-packet loop of the spinbit VPP node (node.c, spinbit_node_fn)  *)
(* together with the state it drives in spinbit.c: the flow-key bihash    *)
(* (make_key, update_state, get_session_from_key), the session pool       *)
(* (create_session, clean_session), the 100 ms timer wheel                 *)
(* (start_timer, update_timer, expire_timers, timer_expired_callback) and  *)
(* the NAT-like address rewrite (ip_nat_translation).                      *)
(*                                                                         *)
(* One loop iteration is one atomic step: expire_timers(now) is drained    *)
(* first, then the packet is looked up, a session is created on a miss,   *)
(* the addresses are rewritten and (TCP only) the timer is rearmed.        *)
(* The RTT estimators the loop calls are modelled in QuicObserver and    *)
(* TcpObserver; here their per-session state is abstracted away.        *)
(*                                                                         *)
(* The main thread runs the CLI and binary-API handlers of spinbit.c      *)
(* between two frames of the node: "spinbit mb_ip", "spinbit nat",        *)
(* "spinbit quic_port" and "spinbit interface" (the feature on or off per *)
(* interface).  Each command is one step; packets reaching an interface   *)
(* without the feature bypass the node.                                    *)
(***************************************************************************)
EXTENDS Integers, FiniteSets, Sequences, SequencesExt, Functions, Bitwise

CONSTANTS
    IP_BITS,     \* width of the modelled IPv4 address space (u32 in the code)
    PORT_BITS,   \* width of the modelled port space (u16 in the code)
    MB_IP,       \* the middlebox's own address: clients send to it
    NAT,         \* the services of the box: dst port -> server ip, 0 if none
    QUIC_PORTS,  \* the ports the operator declares QUIC
    Ifaces,      \* sw interfaces of the box
    HwIfaces,    \* those of type VNET_SW_INTERFACE_TYPE_HARDWARE
    IfClient,    \* the interface the clients' packets (and transit) arrive on
    IfServer,    \* the interface the servers' packets arrive on
    Configured,  \* start after the startup configuration, or at spinbit_init
    AdminIps,    \* addresses "spinbit mb_ip" may be given
    MaxAdmin,    \* bound on the configuration commands of a behaviour
    Conns,       \* connections the environment runs through the middlebox
    Strays,      \* unrelated packets that also cross the node
    Slots,       \* indices of the fixed session pool
    TIMEOUT,     \* idle budget in timer ticks (300 x 100 ms in node.c)
    MaxTime,     \* bound on the modelled clock
    NONE         \* model value: free pool slot / no timer / no packet

UDP_PROTOCOL == 17
TCP_PROTOCOL == 6

IPs   == 0 .. (2^IP_BITS - 1)
Ports == 0 .. (2^PORT_BITS - 1)
Keys  == IPs \X Ports \X {UDP_PROTOCOL, TCP_PROTOCOL}
Packet == [src: IPs, dst: IPs, sport: Ports, dport: Ports,
           proto: {UDP_PROTOCOL, TCP_PROTOCOL}]

ASSUME /\ MB_IP \in IPs \ {0}
       /\ NAT \in [Ports -> IPs]
       /\ QUIC_PORTS \subseteq Ports
       /\ HwIfaces \subseteq Ifaces /\ {IfClient, IfServer} \subseteq Ifaces
       /\ Configured \in BOOLEAN /\ AdminIps \subseteq IPs /\ MaxAdmin \in Nat
       /\ Conns \subseteq [client: IPs \ {0}, cport: Ports, sport: Ports,
                           proto: {UDP_PROTOCOL, TCP_PROTOCOL}]
       /\ Strays \subseteq Packet
       /\ TIMEOUT \in Nat \ {0} /\ MaxTime \in Nat

VARIABLES
    now,          \* timer-wheel time in ticks (vlib_time_now / 100 ms)
    sess,         \* pm->session_pool: slot -> session record, NONE if free
    table,        \* pm->spinbit_table: flow key -> pool index
    timer,        \* the wheel: slot -> tick at which its timer expires, NONE
    active_flows, \* pm->active_flows
    \* auxiliary (history) variables, not in the code:
    lastUse,      \* slot -> tick of the last packet rewritten for it
    fwd,          \* what the last loop iteration forwarded
    expired,      \* sessions cleaned by the last iteration, with lastUse
    opened,       \* connection -> source address its server last saw
    aborted,      \* the process ended in pool_get on the full fixed pool
    mb_ip,        \* pm->mb_ip
    nat,          \* pm->hash_server_ports_to_ips: dst port -> ip, 0 if unset
    quic_ports,   \* pm->hash_quic_ports
    enabled,      \* interfaces whose ip4-unicast arc runs the spinbit node
    admin         \* configuration commands issued so far (bounded by MaxAdmin)

cfg == <<mb_ip, nat, quic_ports, enabled, admin>>
vars == <<now, sess, table, timer, active_flows, lastUse, fwd, expired, opened,
          aborted, cfg>>

Session == [is_tcp: BOOLEAN, key: Keys, key_reverse: Keys,
            init_src_ip: IPs, init_src_port: Ports, new_dst_ip: IPs]

Fwd == [conn: Conns \cup {NONE}, dir: {"c2s", "s2c"}, rewritten: BOOLEAN,
        dst: IPs]

(* The packets of connection c in each direction: the client talks to    *)
(* the middlebox, which forwards to the server NAT[c.sport]; the server  *)
(* answers the middlebox.                                                *)
PacketOf(c, dir) ==
    IF dir = "c2s"
    THEN [src |-> c.client, dst |-> MB_IP, sport |-> c.cport,
          dport |-> c.sport, proto |-> c.proto]
    ELSE [src |-> NAT[c.sport], dst |-> MB_IP, sport |-> c.sport,
          dport |-> c.cport, proto |-> c.proto]

(* Where the packet of connection c in direction dir has to go.          *)
PeerOf(c, dir) == IF dir = "c2s" THEN NAT[c.sport] ELSE c.client

-----------------------------------------------------------------------------
(* Mutant: the fingerprint adds the fields instead of XORing them, and  *)
(* leaves the u32/u16 range of the key fields.                          *)
make_key_sum(src_ip, dst_ip, src_p, dst_p, protocol) ==
    LET s == IF src_ip = 0 THEN mb_ip ELSE src_ip
    IN  <<s + dst_ip, src_p + dst_p, protocol>>

(* The XOR of two modelled addresses (ports are narrower), tabulated once. *)
XorTab == [x, y \in IPs |-> x ^^ y]

(* make_key: the direction-invariant fingerprint; an unset (0) source is *)
(* replaced by the middlebox address.                                    *)
make_key(src_ip, dst_ip, src_p, dst_p, protocol) ==
    LET s == IF src_ip = 0 THEN mb_ip ELSE src_ip
    IN  <<XorTab[s, dst_ip], XorTab[src_p, dst_p], protocol>>

(* get_session_from_key: the pool index the bihash holds for kv, or NONE *)
get_session_from_key(tbl, kv) ==
    IF kv \in DOMAIN tbl THEN tbl[kv] ELSE NONE

(* update_state: clib_bihash_add_del with is_add = 1 inserts kv, or     *)
(* overwrites the index an existing entry for kv holds.                 *)
update_state(tbl, kv, new_state) == (kv :> new_state) @@ tbl

(* is_quic: either endpoint is on a configured QUIC port.                *)
is_quic(src_port, dst_port) ==
    src_port \in quic_ports \/ dst_port \in quic_ports

(* Mutant: the return leg is sent on to the server as well.             *)
ip_nat_translation_return_to_server(src, init_src_ip, new_dst_ip) ==
    IF src = init_src_ip \/ src = new_dst_ip THEN new_dst_ip ELSE NONE

(* ip_nat_translation: the new destination, or NONE when the source is   *)
(* neither recorded endpoint (the packet is then passed on unchanged).   *)
ip_nat_translation(src, init_src_ip, new_dst_ip) ==
    IF src = init_src_ip THEN new_dst_ip
    ELSE IF src = new_dst_ip THEN init_src_ip
    ELSE NONE

(* Mutant: no check for a slot that is already free.                    *)
clean_session_unguarded(st, index) ==
    IF st.sess[index] = NONE THEN [st EXCEPT !.active = @ - 1]
    ELSE [st EXCEPT
            !.active = @ - 1,
            !.table = Restrict(@, DOMAIN @ \ {st.sess[index].key_reverse,
                                               st.sess[index].key}),
            !.sess[index] = NONE,
            !.cleaned = @ \cup {[slot |-> index, last |-> lastUse[index]]}]

(* Mutant: the reverse-direction key is left in the bihash.              *)
clean_session_keep_reverse(st, index) ==
    IF st.sess[index] = NONE THEN st
    ELSE [st EXCEPT
            !.active = @ - 1,
            !.table = Restrict(@, DOMAIN @ \ {st.sess[index].key}),
            !.sess[index] = NONE,
            !.cleaned = @ \cup {[slot |-> index, last |-> lastUse[index]]}]

(* clean_session(index) on the record st of pool, table and counter:     *)
(* a slot already freed is left alone; otherwise the counter drops, both *)
(* keys are removed from the bihash and the slot returns to the pool.    *)
clean_session(st, index) ==
    IF st.sess[index] = NONE THEN st
    ELSE LET ses == st.sess[index]
         IN [st EXCEPT
               !.active = @ - 1,
               !.table = Restrict(@, DOMAIN @ \ {ses.key_reverse, ses.key}),
               !.sess[index] = NONE,
               !.cleaned = @ \cup {[slot |-> index, last |-> lastUse[index]]}]

(* Timers due at the current tick.                                       *)
DueTimers == {s \in Slots : timer[s] # NONE /\ timer[s] <= now}

(* Mutant: the loop over the expired vector stops one element short.    *)
timer_expired_callback_short(st, dup) ==
    LET v == SetToSeq(DueTimers) \o SetToSeq(dup)
    IN  FoldLeft(clean_session, st, SubSeq(v, 1, Len(v) - 1))

(* timer_expired_callback over the vector the wheel hands it: each due   *)
(* timer once, and those in dup a second time (a sparse loop can see the *)
(* same session expire more than once, see clean_session).               *)
timer_expired_callback(st, dup) ==
    FoldLeft(clean_session, st, SetToSeq(DueTimers) \o SetToSeq(dup))

(* create_session plus the initialisation the node does after it: both   *)
(* keys are inserted (update_state overwrites an existing entry).        *)
create_session(st, s, p, kv, new_dst_ip) ==
    LET rk == make_key(0, new_dst_ip, p.sport, p.dport, p.proto)
    IN  [st EXCEPT
           !.active = @ + 1,
           !.sess[s] = [is_tcp |-> p.proto = TCP_PROTOCOL, key |-> kv,
                        key_reverse |-> rk, init_src_ip |-> p.src,
                        init_src_port |-> p.sport, new_dst_ip |-> new_dst_ip],
           !.table = update_state(update_state(@, kv, s), rk, s)]

(* Mutant: the timer is not rearmed by traffic.                         *)
RefreshTimer_never(p, t, s) == t

(* Mutant: the timer is rearmed one tick short of TIMEOUT.              *)
RefreshTimer_short(p, t, s) ==
    IF p.proto = TCP_PROTOCOL THEN [t EXCEPT ![s] = now + TIMEOUT - 1] ELSE t

(* The timer refresh at the end of the TCP branch: only a TCP packet     *)
(* whose addresses were rewritten rearms the session's timer.            *)
RefreshTimer(p, t, s) ==
    IF p.proto = TCP_PROTOCOL THEN [t EXCEPT ![s] = now + TIMEOUT] ELSE t

-----------------------------------------------------------------------------
(* The end of one loop iteration: commit the drained pool/table/counter  *)
(* and the timers, and record what was forwarded.                        *)
Commit(st, t, c, dir, rewritten, dst) ==
    /\ sess' = st.sess
    /\ table' = st.table
    /\ active_flows' = st.active
    /\ timer' = t
    /\ expired' = st.cleaned
    /\ fwd' = [conn |-> c, dir |-> dir, rewritten |-> rewritten, dst |-> dst]
    /\ opened' = IF c # NONE /\ rewritten /\ dir = "c2s" /\ dst = NAT[c.sport]
                 THEN (c :> mb_ip) @@ opened ELSE opened
    /\ UNCHANGED <<now, aborted, cfg>>

(* The packet is passed on unmodified: truncated or malformed header,    *)
(* IPv6, UDP not on a QUIC port, or a new flow to an unconfigured port.  *)
PassThrough(st, t, p, c, dir) ==
    /\ Commit(st, t, c, dir, FALSE, p.dst)
    /\ UNCHANGED lastUse

(* Session s handles the packet: rewrite the addresses; on success the   *)
(* TCP branch rearms the timer (the QUIC branch never does).             *)
Translate(st, t, s, p, c, dir) ==
    LET ses == st.sess[s]
        dst == ip_nat_translation(p.src, ses.init_src_ip, ses.new_dst_ip)
    IN  IF dst = NONE
        THEN PassThrough(st, t, p, c, dir)
        ELSE /\ Commit(st, RefreshTimer(p, t, s), c, dir, TRUE, dst)
             /\ lastUse' = [lastUse EXCEPT ![s] = now]

(* A miss to a NAT port while every pool slot is taken: create_session   *)
(* counts the flow (active_flows++, total_flows++) and then calls         *)
(* pool_get on the pool spinbit_init made fixed-size; vppinfra cannot     *)
(* expand a fixed pool and ends the process (os_out_of_memory).  Nothing  *)
(* is forwarded and the node takes no further step.                       *)
PoolExhausted(st, t) ==
    /\ aborted' = TRUE
    /\ sess' = st.sess
    /\ table' = st.table
    /\ active_flows' = st.active + 1
    /\ timer' = t
    /\ expired' = st.cleaned
    /\ UNCHANGED <<now, lastUse, fwd, opened, cfg>>

(* One iteration of the while loop of spinbit_node_fn for packet p.      *)
Receive(p, c, dir) ==
  /\ ~aborted
  /\ \E dup \in SUBSET DueTimers :
    LET st0 == [sess |-> sess, table |-> table, active |-> active_flows,
                cleaned |-> {}]
        st == timer_expired_callback(st0, dup)
        t  == [s \in Slots |-> IF s \in DueTimers THEN NONE ELSE timer[s]]
        kv == make_key(p.src, p.dst, p.sport, p.dport, p.proto)
        found == get_session_from_key(st.table, kv)
        monitored == p.proto = TCP_PROTOCOL \/ is_quic(p.sport, p.dport)
        free == {i \in Slots : st.sess[i] = NONE}
    IN  \/ PassThrough(st, t, p, c, dir)
        \/ /\ monitored
           /\ found # NONE
           /\ Translate(st, t, found, p, c, dir)
        \/ /\ monitored
           /\ found = NONE
           /\ nat[p.dport] # 0
           /\ \/ \E s \in free :
                   LET st2 == create_session(st, s, p, kv, nat[p.dport])
                   IN  Translate(st2, [t EXCEPT ![s] = now + TIMEOUT], s, p, c, dir)
              \/ /\ free = {}
                 /\ PoolExhausted(st, t)

(* A packet on an interface where the feature is off never reaches the   *)
(* node: ip4-lookup takes it as it is, and the wheel is not advanced.      *)
Bypass(p, c, dir) ==
    /\ ~aborted
    /\ fwd' = [conn |-> c, dir |-> dir, rewritten |-> FALSE, dst |-> p.dst]
    /\ expired' = {}
    /\ UNCHANGED <<now, sess, table, timer, active_flows, lastUse, opened,
                   aborted, cfg>>

IfOf(dir) == IF dir = "c2s" THEN IfClient ELSE IfServer

(* A client may always send; a server answers a connection it has heard  *)
(* from, at the source address it saw, and may keep answering after the  *)
(* middlebox forgot it.  Only an answer to the middlebox's own address   *)
(* comes back to the box.                                                 *)
Arrives(c, dir) == dir = "s2c" => c \in DOMAIN opened /\ opened[c] = MB_IP

(* A packet that reaches the node (the feature is on at its interface).   *)
NodePacket ==
    \/ \E c \in Conns, dir \in {"c2s", "s2c"} :
           /\ Arrives(c, dir) /\ IfOf(dir) \in enabled
           /\ Receive(PacketOf(c, dir), c, dir)
    \/ \E p \in Strays : IfClient \in enabled /\ Receive(p, NONE, "c2s")

(* A packet that arrives where the feature is off.                       *)
BypassPacket ==
    \/ \E c \in Conns, dir \in {"c2s", "s2c"} :
           /\ Arrives(c, dir) /\ IfOf(dir) \notin enabled
           /\ Bypass(PacketOf(c, dir), c, dir)
    \/ \E p \in Strays : IfClient \notin enabled /\ Bypass(p, NONE, "c2s")

(* Wall-clock time advances by one wheel tick.                           *)
Tick ==
    /\ ~aborted
    /\ now < MaxTime
    /\ now' = now + 1
    /\ expired' = {}
    /\ UNCHANGED <<sess, table, timer, active_flows, lastUse, fwd, opened,
                   aborted, cfg>>

-----------------------------------------------------------------------------
(* The configuration commands.  Each runs on the main thread between two  *)
(* frames; a command that fails to parse, or names a port or octet out of *)
(* range, returns an error and changes nothing.                           *)
AdminStep ==
    /\ ~aborted /\ admin < MaxAdmin
    /\ admin' = admin + 1
    /\ UNCHANGED <<now, sess, table, timer, active_flows, lastUse, fwd,
                   expired, opened, aborted>>

(* "spinbit mb_ip A.B.C.D": the address later rewrites and reverse keys use. *)
spinbit_add_ip_fn(ip) ==
    /\ AdminStep /\ mb_ip' = ip
    /\ UNCHANGED <<nat, quic_ports, enabled>>

(* "spinbit nat A.B.C.D port": hash_set overwrites the port's entry; an   *)
(* address 0.0.0.0 makes get_new_dst report no service on that port.     *)
spinbit_add_nat_fn(port, ip) ==
    /\ AdminStep /\ nat' = [nat EXCEPT ![port] = ip]
    /\ UNCHANGED <<mb_ip, quic_ports, enabled>>

(* "spinbit quic_port port".                                              *)
spinbit_add_port_fn(port) ==
    /\ AdminStep /\ quic_ports' = quic_ports \cup {port}
    /\ UNCHANGED <<mb_ip, nat, enabled>>

(* spinbit_enable_disable: an interface that is not a physical port is   *)
(* refused (VNET_API_ERROR_INVALID_SW_IF_INDEX); otherwise the feature is *)
(* put on or taken off its ip4-unicast arc.  Sessions, table and wheel    *)
(* are left as they are.                                                  *)
spinbit_enable_disable(sw_if_index, enable_disable) ==
    /\ sw_if_index \in HwIfaces
    /\ enabled' = IF enable_disable THEN enabled \cup {sw_if_index}
                  ELSE enabled \ {sw_if_index}

(* "spinbit interface <if> [disable]".                                     *)
spinbit_enable_disable_command_fn ==
    \E i \in Ifaces, e \in BOOLEAN :
        /\ AdminStep /\ spinbit_enable_disable(i, e)
        /\ UNCHANGED <<mb_ip, nat, quic_ports>>

(* The binary API message SPINBIT_ENABLE_DISABLE: its handler calls the  *)
(* same function with the message's interface index and flag, whatever    *)
(* the index names, and replies with the return value.                    *)
vl_api_spinbit_enable_disable_t_handler ==
    \E i \in Ifaces, e \in BOOLEAN :
        /\ AdminStep /\ spinbit_enable_disable(i, e)
        /\ UNCHANGED <<mb_ip, nat, quic_ports>>

Admin ==
    \/ \E ip \in AdminIps : spinbit_add_ip_fn(ip)
    \/ \E port \in {q \in Ports : NAT[q] # 0} :
           \E ip \in {NAT[port], 0} : spinbit_add_nat_fn(port, ip)
    \/ \E port \in QUIC_PORTS : spinbit_add_port_fn(port)
    \/ spinbit_enable_disable_command_fn
    \/ vl_api_spinbit_enable_disable_t_handler

(* spinbit_init: empty pool and table, counters zero, no NAT entry, only   *)
(* the default QUIC port 4433 (outside the modelled ports), mb_ip 0 and   *)
(* the feature on no interface; or (Configured) the state after the       *)
(* startup commands configured the box.                                   *)
Init ==
    /\ now = 0
    /\ sess = [s \in Slots |-> NONE]
    /\ table = <<>>
    /\ timer = [s \in Slots |-> NONE]
    /\ active_flows = 0
    /\ lastUse = [s \in Slots |-> 0]
    /\ fwd = [conn |-> NONE, dir |-> "c2s", rewritten |-> FALSE, dst |-> 0]
    /\ expired = {}
    /\ opened = <<>>
    /\ aborted = FALSE
    /\ mb_ip = IF Configured THEN MB_IP ELSE 0
    /\ nat = IF Configured THEN NAT ELSE [p \in Ports |-> 0]
    /\ quic_ports = IF Configured THEN QUIC_PORTS ELSE {}
    /\ enabled = IF Configured THEN HwIfaces ELSE {}
    /\ admin = 0

Next == NodePacket \/ BypassPacket \/ Tick \/ Admin

Spec == Init /\ [][Next]_vars

(* spinbit_node is an internal node: VPP calls it only with a frame of    *)
(* packets, and expire_timers runs only inside its packet loop.  Under    *)
(* the assumption that traffic keeps reaching the node, every enabled     *)
(* step of the node is eventually taken.                                  *)
FairSpec == Spec /\ WF_vars(NodePacket)

-----------------------------------------------------------------------------
TypeOK ==
    /\ now \in 0 .. MaxTime
    /\ sess \in [Slots -> Session \cup {NONE}]
    /\ DOMAIN table \subseteq Keys /\ \A k \in DOMAIN table : table[k] \in Slots
    /\ timer \in [Slots -> Nat \cup {NONE}]
    /\ active_flows \in Nat
    /\ fwd \in Fwd
    /\ expired \subseteq [slot: Slots, last: Nat]
    /\ DOMAIN opened \subseteq Conns /\ \A c \in DOMAIN opened : opened[c] \in IPs
    /\ aborted \in BOOLEAN
    /\ mb_ip \in IPs /\ nat \in [Ports -> IPs] /\ quic_ports \subseteq Ports
    /\ enabled \subseteq HwIfaces /\ admin \in 0 .. MaxAdmin

(* While the node runs, pm->active_flows counts the live sessions of the  *)
(* pool, also when the wheel hands clean_session the same expired session *)
(* more than once.                                                        *)
ActiveFlowsMatchPool ==
    ~aborted => active_flows = Cardinality({s \in Slots : sess[s] # NONE})

(* The bihash holds exactly the forward and reverse keys of the live     *)
(* sessions, each resolving to its own session (spec: "forward and       *)
(* reverse keys for one flow both resolve to the same Session"), and no  *)
(* entry outlives its session or points at a reused pool slot.           *)
TableMatchesSessions ==
    /\ \A s \in Slots : sess[s] # NONE =>
           /\ {sess[s].key, sess[s].key_reverse} \subseteq DOMAIN table
           /\ table[sess[s].key] = s /\ table[sess[s].key_reverse] = s
    /\ \A k \in DOMAIN table :
           sess[table[k]] # NONE /\ k \in {sess[table[k]].key, sess[table[k]].key_reverse}

(* The timer wheel frees a session only after TIMEOUT ticks in which no  *)
(* packet of it was forwarded: a flow in use is never torn down.         *)
ExpiryOnlyWhenIdle ==
    \A e \in expired : now - e.last >= TIMEOUT

(* A packet of a monitored connection whose addresses the node rewrites  *)
(* is sent to the other endpoint of that same connection.                *)
NoMisdelivery ==
    fwd.conn # NONE /\ fwd.rewritten => fwd.dst = PeerOf(fwd.conn, fwd.dir)

(* Spec, failure taxonomy: pool exhaustion leaves the new flow unmonitored *)
(* and passes the packet through; it is "not fatal".  Here: a new flow     *)
(* arriving when every slot of the fixed pool is taken never ends the      *)
(* node (create_session's pool_get).                                       *)
PoolExhaustionNotFatal == ~aborted

(* A session whose timer is due is eventually freed by clean_session: the *)
(* next packet loop iteration advances the wheel and its callback cleans  *)
(* every expired index (node.c expire_timers, timer_expired_callback).    *)
(* This needs the clients' packets to reach the node: while the feature   *)
(* is off on their interface ("spinbit interface ... disable") nothing    *)
(* advances the wheel, and the pool keeps the session.                    *)
ExpiredSessionsFreed ==
    \A s \in Slots :
        (sess[s] # NONE /\ timer[s] # NONE /\ timer[s] <= now)
            ~> (sess[s] = NONE \/ (timer[s] # NONE /\ timer[s] > now) \/ aborted
                \/ IfClient \notin enabled)

-----------------------------------------------------------------------------
(* Refinement of FlowMonitor: a flow is monitored while the bihash        *)
(* resolves its client's forward key, and was last seen when its session's *)
(* slot last rewrote a packet; what the node forwards is FlowMonitor's out.*)
FwdKey == [c \in Conns |->
              LET p == PacketOf(c, "c2s")
              IN  make_key(p.src, p.dst, p.sport, p.dport, p.proto)]

MonitoredSeen ==
    [c \in {x \in Conns : FwdKey[x] \in DOMAIN table} |-> lastUse[table[FwdKey[c]]]]

FM == INSTANCE FlowMonitor
        WITH seen <- MonitoredSeen, out <- fwd, Peer <- PeerOf,
             Capacity <- Cardinality(Slots)

(* spinbit_node_fn, with its table, pool and wheel, implements the flow   *)
(* promise of FlowMonitor: monitoring starts only at a client's packet    *)
(* with room in the pool, a monitored flow's packets go to its peer, and  *)
(* monitoring ends only after TIMEOUT idle ticks, each loop iteration     *)
(* being one step of the abstract flow monitor.                           *)
FlowMonitorSpec == FM!Spec

=============================================================================
