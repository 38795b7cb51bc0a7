# TLA+ models of the spinbit VPP plugin

The plugin (`src/vpp/spinbit-plugin/spinbit/`) is a VPP graph node that watches
QUIC and TCP flows crossing a middlebox, estimates their round-trip time from
the spin bit, the two VEC/status bits and TCP timestamps, and rewrites addresses
so that both directions of a flow pass through the middlebox. This directory
holds TLA+ models of it, TLC configurations that check them, and
`PROJECT.json`, which lists the components, runs, mutants, the map from every
definition to the code it translates, findings and hazards.

## 1. Inventory

### Components and their state

| Component | Code | State |
|---|---|---|
| Header parser | `node.c` 170-290, 365-390; `tcp_options_parse_mod` (`spinbit.c` 997-1052) | none; it advances the buffer (`total_advance`) and undoes it at `skip_packet` |
| Flow key and session table | `make_key`, `get_session_from_key`, `update_state` (`spinbit.c` 356-382, 875-884) | `pm->spinbit_table`: bihash key -> pool index |
| Session store | `create_session`, `clean_session` (`spinbit.c` 889-972) | `pm->session_pool` (fixed, 2048 slots), `active_flows`, `total_flows`; per session keys, initial source ip/port, NAT destination, `pkt_count`, observer bundle |
| Expiry timer | `start_timer`/`update_timer`/`expire_timers` (in `spinbit.h`, not in `src/`), `timer_expired_callback` (`spinbit.c` 977-992), node.c 147 and 465-479 | 2048-slot wheel with 100 ms ticks, one timer per session |
| Address rewriter | `ip_nat_translation` (`spinbit.c` 387-399) | none; reads `mb_ip` |
| QUIC estimators | `basic_spinbit_estimate`, `pn_spinbit_estimate`, `status_estimate`, `heuristic_estimate`, `update_quic_rtt_estimate` (`spinbit.c` 402-683) | per side: last spin, last edge time, RTT, new-sample flag; last packet number; heuristic history ring, index, rejection counter |
| TCP estimators | `status_estimate`, `vec_ne_zero_estimate`, `ts_single_estimate`, `ts_all_estimate`, `update_tcp_rtt_estimate` (`spinbit.c` 540-870) | as above, plus per-side initiated/acked timestamp values and four timestamp -> time hash maps holding heap cells |
| Configuration CLI | `spinbit_add_port_fn`, `spinbit_add_nat_fn`, `spinbit_add_ip_fn` (`spinbit.c` 192-258) | `hash_quic_ports`, `hash_server_ports_to_ips`, `mb_ip` |
| Interface enable/disable | `spinbit_enable_disable` and its CLI and API callers (`spinbit.c` 71-131, 309-319) | the feature on the `ip4-unicast` arc of each interface |
| Output | `spinbit_printf`, `tcp_printf`, `format_sessions` | CSV files, CLI text |

### How they interact

The models assume that everything runs in one VPP thread, in
`spinbit_node_fn`. The spec (section 5) requires one execution context per
shard of flows. The code keeps all of its state in the global `spinbit_main`,
without locks or sharding. If VPP is started with worker threads, the node
runs on each of them, and the two legs of a flow may run concurrently. That
case is listed as a hazard and is not modelled (section 4). Each iteration of its
packet loop first advances the timer wheel (`expire_timers(now)`, whose callback
calls `clean_session` for every expired session, possibly more than once for
one session), then parses the packet, computes the XOR key, looks it up, and on
a miss creates a session if the destination port has a NAT entry, inserting the
forward key and a synthetic reverse key `make_key(mb_ip, nat_ip, sport, dport)`.
It then runs the estimators of the session, rewrites the addresses
(`ip_nat_translation`) and, for TCP only, rearms the session timer. Sessions
share nothing but the bihash, the pool and the wheel; estimators of one session
share nothing but the per-side "new sample" flags cleared by the printing code.
The configuration commands run on the main thread between two frames of the
node and change what the loop reads on its next packet: `mb_ip`, the NAT
table, the QUIC ports, and whether the node sees an interface's packets at
all. At `spinbit_init` none is set (`mb_ip` is 0, the NAT table empty, the
feature on no interface).

### What is hard

There is no concurrency inside the plugin; what is hard is the interleaving of
*flows* and *time* in one table: two flows whose XOR keys coincide, a reverse
key overwritten by a later session and deleted by an earlier one's expiry, a
timer delivered twice, a session expiring between two packets of a busy flow,
a pool slot reused by a new session. In the estimators: sentinel initial
values, truncated packet numbers that wrap, a comparison that decides which
RTT candidates are outliers, reporting that clears the wrong side's flags,
and timestamp maps that grow and leak.

### Properties that make each component correct

* Session table: the forward and reverse keys of every live session resolve to
  it, and no entry outlives its session (`TableMatchesSessions`); a rewritten
  packet goes to the other endpoint of its own flow (`NoMisdelivery`).
* Session store and timer: `active_flows` equals the number of live sessions
  even under duplicate expiry (`ActiveFlowsMatchPool`); only a session idle for
  `TIMEOUT` is freed (`ExpiryOnlyWhenIdle`).
* QUIC estimators: VEC and heuristic samples fall only on spin edges
  (`SamplesOnlyAtEdges`); the packet-number observer takes every fresh edge
  (`PnAcceptsFreshEdges`), comparing with its own side's number; every
  sample is reported before it is overwritten (`NoSampleLost`); no sample spans
  more than the session's lifetime (`SamplesWithinSession`).
* Session store on a full pool: a new flow finding every slot taken is left
  unmonitored, not fatal (`PoolExhaustionNotFatal`); a due session is freed
  once traffic reaches the node again (`ExpiredSessionsFreed`).
* TCP estimators: every timestamp map entry names a live heap cell
  (`NoDanglingCell`) and every live cell is named by one (`NoLeak`); a
  ts_all or ts_single sample spans a real round trip
  (`TsAllSampleIsRoundTrip`, `TsSingleSampleIsRoundTrip`); every sample is
  reported before it is overwritten (`NoSampleLost`). Each init map of
  ts_all holds exactly the TSvals of its side that no measured packet of the
  other side has echoed yet (`InitMapHoldsUnechoed`). The map therefore grows
  with every echo that is lost or not measured, and nothing else bounds it
  (the code's TODO at spinbit.c 816).
* TCP option parser: an accepted packet hands the estimators the timestamps
  its sender sent (`AcceptedTimestampsAreSent`); the option walk reads only
  bytes of the packet (`OptionsReadWithinPacket`).

## 2. Plan

1. `SpinbitNode` (done): the packet loop with table, pool, wheel and rewrite;
   flows are environment connections, observers abstracted.
2. `QuicObserver` (done): one QUIC session's four spin observers and the
   reporting of `update_quic_rtt_estimate`, driven by arbitrary packets per
   side, with packet numbers read in the short header's truncated width.
3. `TcpObserver` (done): status, vec_ne_zero, single-RTT and all-timestamps
   observers with the four hash maps of `ts_all_estimate` and their heap
   cells, `update_tcp_rtt_estimate`, and the TCP part of `clean_session`.
4. Runtime configuration (done): the CLI commands and
   `spinbit_enable_disable` as actions of `SpinbitNode`, interleaved with the
   packet loop from `spinbit_init`'s unconfigured state.
5. `TcpOptions` (done): `tcp_options_parse_mod` as a recursive operator
   over the option bytes, composed into `TcpObserver`. `QuicHeader` (open):
   the short-header decoding of node.c byte by byte.
6. `FlowMonitor` (done): the abstract flow promise (flow -> last use), which
   `SpinbitNode` refines through the bihash and the pool where keys do not
   collide (`node_tcp`).
7. Open: a `node_tcp` variant with two pool slots, colliding XOR keys and a
   NAT remap, safety only (with the liveness checks it exceeds the time
   bound).

## 3. Modules and runs

### SpinbitNode (`SpinbitNode.tla`, `MCSpinbitNode.tla`)

State: `now` (wheel ticks), `sess` (pool slot -> session record or `NONE`),
`table` (bihash as a function from key triples to slots), `timer` (slot ->
expiry tick), `active_flows`. History variables for the properties: `lastUse`
(tick of the last rewritten packet of a slot), `fwd` (what the last iteration
forwarded), `expired` (sessions the last iteration freed), `opened`
(connection -> the source address its server last saw; a server answers
only a connection it has heard from, at that address). Configuration:
`mb_ip`, `nat`, `quic_ports`, `enabled` (interfaces with the feature) and
`admin`, the number of commands issued.

Actions: `Receive` is one whole loop iteration: drain the due timers through
`timer_expired_callback` (each due session once, any subset of them twice),
then one of: pass the packet through (malformed, IPv6, not QUIC, unmonitored,
or a miss to a port without NAT entry); a hit, rewritten by `Translate`; a miss
creating a session (`create_session`, `update_state` twice, `start_timer`) and
then `Translate`. `Translate` rewrites or, when the source is neither endpoint,
passes through; `RefreshTimer` rearms only for TCP. `Tick` advances the clock.
The environment sends the packets of `Conns` in both directions and the
`Strays` transit packets; client and transit packets arrive on `IfClient`,
server packets on `IfServer`. `NodePacket` is a `Receive` of a packet whose
interface has the feature; `BypassPacket` is one arriving where it is off,
which ip4-lookup takes unchanged (`Bypass`) without advancing the wheel. An
answer reaches the box only if the server saw the box's own address
(`MB_IP`) as source.

Configuration actions, each one command, at most `MaxAdmin` of them:
`spinbit_add_ip_fn` sets `mb_ip`; `spinbit_add_nat_fn` sets or (with
0.0.0.0) removes the entry of a service port; `spinbit_add_port_fn` adds a
QUIC port; `spinbit_enable_disable_command_fn` (the CLI) and
`vl_api_spinbit_enable_disable_t_handler` (the binary API) turn the feature
on or off an interface, refusing one that is not a physical port. The commands'
parse errors change nothing and are not steps. `Configured` chooses the
initial state: `spinbit_init`'s (`node_tcp`), or the state after the startup
commands (the violation runs, with no further commands).

`PoolExhausted` is the creation branch when no slot is free: `create_session`
increments `active_flows` and calls `pool_get` on the pool `spinbit_init`
made fixed-size (`pool_init_fixed`, 2048 slots); vppinfra cannot expand a
fixed pool and ends the process, so the model sets `aborted` and takes no
further step.

Bounds: 3-bit addresses and 2-bit ports so that the XOR of the code is computed
on real bit patterns (middlebox 7, clients 1 and 2, server 4 behind port 3).
`node_tcp` runs two TCP flows (source ports 1 and 2, so no keys coincide) on
one pool slot, so that a second live flow finds the pool full, from the
unconfigured state with up to six commands: the four that configure the box
(`nat`, `mb_ip`, the two interfaces) plus two more, which may be a wrong
middlebox address (6), a removed service, a disabled interface, a QUIC port
or a command on a sub-interface (refused). `TIMEOUT` 2 ticks and 5 ticks of
time, enough for a session to be created, refreshed, expired, and its slot
reused by another flow. With three flows on two slots and the commands the
state space passes a million states, beyond the liveness check; the three
violation runs keep three flows and two slots with the configuration fixed.
`node_tcp` does not check deadlock: the node really stops after
`PoolExhausted`.

Refinement: `FlowMonitor.tla` states what the node promises for flows,
without keys, pool or wheel: `seen` maps each monitored flow to the tick of
its last rewritten packet, and `out` is what was last handed on. A packet
step first forgets any subset of the flows idle for `TIMEOUT`, then passes
the packet on unchanged, or rewrites it to its flow's peer, which starts
monitoring a flow only at its client's packet and only while fewer than
`Capacity` flows are monitored; timers may also fire with no packet. In
`SpinbitNode`, `FM == INSTANCE FlowMonitor WITH ...` maps `seen` to the
flows whose client-side forward key the bihash resolves, each with the
`lastUse` of its slot, `out` to `fwd` and `Capacity` to the pool size;
`FlowMonitorSpec` (= `FM!Spec`) is checked as a property of `node_tcp`. The
abort in `pool_get` maps to a step that only forgets idle flows: safety
refinement does not see that the node stops, which `node_pool_full` shows.

| Run | Expect | Shows |
|---|---|---|
| `node_tcp` | pass | with distinct keys, duplicate timer delivery and configuration commands at any point, counter, bihash and rewrite stay consistent while the node runs, only idle TCP sessions expire, every due session is eventually freed while clients' packets reach the node, and the node refines `FlowMonitor` (200442 states, about 2.5 minutes) |
| `node_quic_refresh` | violation | a busy QUIC session expires `TIMEOUT` after its first packet (no refresh in the UDP branch) |
| `node_same_port` | violation | two clients with the same source port share a reverse key; the server's answer to one is rewritten to the other |
| `node_pool_full` | violation | a third flow on a full two-slot pool ends the process in `pool_get`; the spec says it is passed through unmonitored |

`node_tcp` has one pool slot and flows whose keys do not collide, so it
cannot show a key taken over by another flow; `node_same_port` shows one
such case, a shared reverse key. The XOR of ports also lets two flows of one
client share a forward key (for instance ports 1 -> 2 and 0 -> 3, both
XOR 3); no run has such a pair, and it is listed as a hazard.

Fairness: `FairSpec` adds weak fairness of the packet steps. The code has no
scheduling of its own: `spinbit_node` is an internal node, called only with
a frame of packets, and `expire_timers` runs only inside its packet loop
(node.c 147). Weak fairness is therefore the assumption that traffic keeps
reaching the node; under it `ExpiredSessionsFreed` says a due session is
freed. Without it (no traffic) a due session stays in the pool forever,
which the code does nothing to prevent; the same holds while the feature is
off on the clients' interface, the case `ExpiredSessionsFreed` names. The
fairness is on `NodePacket` only: bypassed packets do not advance the wheel,
and configuration commands are not fair. Time is not made fair: the clock is
bounded, and the property concerns timers already due.

Configuration while flows live: `node_tcp` checks its invariants across
every order of commands and packets. A session keeps the server it was
created with (`new_dst_ip`), so removing a NAT entry does not move live
flows (`NoMisdelivery`). The model's `spinbit nat` command only sets a
port's entry to its server or to 0; pointing a port at another server is
not generated, so that case is not checked. `mb_ip` is different: a session keeps the
reverse key built with the address of its creation (0 before
`spinbit mb_ip` ran), while the rewrite uses the current one, so after the
command the server answers at an address whose key matches no session. The
model cannot state that an answer must reach its client, since any packet
may be passed through as malformed; this is listed as a hazard.

### QuicObserver (`QuicObserver.tla`)

State: the four observers of `quic_observer_t`, each a function from side to
the fields the code keeps per side (`spin`, `time_last_spin`, `rtt` (a ring of
`DYNA_HEUR_HISTORY_SIZE` for the heuristic), `new`, plus `pn` for the
packet-number observer and `index`, `rejected` for the heuristic); `now` in
ticks from VPP start, the session created at `CREATED`. Environment: `pnext`,
each side's next packet number; history: `last`, the side, spin and per-
estimator result of the last packet.

Actions: `Packet(s)` is one call of `update_quic_rtt_estimate` for a packet of
side `s` with any spin and status bits, carrying either the sender's next
number (fresh) or an earlier one (delayed or duplicated), read through
`WirePn` as node.c reads the short header. Each estimator is an operator
returning the new observer and whether it produced a sample; the report step
(`ReportedSide`, `Cleared`) clears the flags of the side the code prints.
`Tick` advances time. `Init` is `create_session` for QUIC: zeroed observers
with the spin at `SPIN_NOT_KNOWN`, or at TRUE where `SPIN_INIT` says the
field's type turns the sentinel into a bool.

Bounds: 2 or 3 ticks, packet numbers 1 and 2 per side, a 2-entry history,
forced acceptance after 1 rejection, threshold x2 (the spec's example),
status values INVALID (0), VALID (3) and one other. `quic_observer` has one
sender, because with both the product of the two sides' observer states
with time does not fit 5 minutes. `quic_pn` has both senders and no ticks
(`MaxTime = CREATED`), because the packet-number comparison does not depend
on time. It needs both: with one sender a fresh number is above the stored
one by construction, whichever side's number the code compared with.
`PN_BITS` 2 keeps the numbers below the wrap. The wrap and packet number 0,
which the code leaves open (TODOs at spinbit.c 411 and 508), are outside
the bounds and listed as hazards.
`STATUS_VALID`, `STATUS_INVALID`, `DYNA_HEUR_*` and `SPIN_NOT_KNOWN` are
defined in `spinbit.h`, which is not in the repository; the values are
constants of the configurations.

| Run | Expect | Shows |
|---|---|---|
| `quic_observer` | pass | one sender, delays and duplicates: fields stay in range (the heuristic ring wraps), VEC and heuristic samples only at spin edges (58091 states) |
| `quic_pn` | pass | both endpoints sending, earlier packets delivered late: every in-order spin edge of either side is sampled by the packet-number observer (524293 states, about 1.5 minutes) |
| `quic_report` | violation | the report clears the other side's flags; the next sample of the sender overwrites an unreported one |
| `quic_first_sample` | violation | the first packet is an edge against `SPIN_NOT_KNOWN`, measured from time 0 |

`heuristic_estimate` compares the other way round from the spec (4.4): it
accepts a candidate above THRESHOLD x the history minimum and rejects one at
or below it. The model keeps the code's comparison. The history ring is
zeroed by `create_session`, so until it is full its minimum is 0 and every
candidate is accepted. The code makes no promise about this start-up that a
property could check, so both are recorded as hazards, not runs.

### TcpObserver (`TcpObserver.tla`)

State: the four observers of `tcp_observer_t`, per side: `status_spin_observer`
and `vec_ne_zero` (spin, time of the last spin change, RTT, new flag),
`ts_one_RTT_observer` (`ts_init`, `ts_ack`, `time_init`, RTT, new flag) and
`ts_all_RTT_observer` (the four maps `hash_init`/`hash_ack` per side, from
TSval to a heap cell, plus RTT and new flag); `heap`, the cells `vec_alloc`
handed out and the time each holds; `closed`, set by `clean_session`.
History: `pkts`, the session's packets, `last`, the side and per-
estimator result of the last update, and `parsed`, the timestamps the last
packet was sent with and what the parser returned.

Actions: `Packet(s)` is one TCP packet of side `s` with any spin and status
bits, a TSval not below the side's previous one and a TSecr that echoes a
TSval the other side sent (not below its previous TSecr), or 0. The client
sends first (the SYN). The packet's header is one of the `Layouts` of
`TcpOptions` (`Header` renders the data offset and the option bytes, the
TSval and TSecr in network byte order); `tcp_options_parse_mod` parses it,
and a parse error skips the packet as node.c does. A parse that runs past
the packet reads stale bytes, so its result is any result
(`ParseOutcomes`). The node measures an accepted packet only when
`make_measurement` holds: the server's first packet (the SYN+ACK) is not
measured. A measured packet runs `update_tcp_rtt_estimate`, the four
estimators then the report (`ReportedSide`, `ClearNew`) that clears the new
flags of the side the code prints. `ts_all_estimate` keeps the code's order
of lookups and `hash_set`/`hash_unset` calls, and allocates with `NewCell`.
`clean_session` empties the maps as the code does (the cells stay on the
heap) and ends the session. `Tick` advances time. Deadlock is not checked:
a session ends.

Bounds: 2 ticks, TSvals 1..2, 5 packets (6 for the leak run), 5 cells,
status values INVALID (0) and VALID (3); they allow a SYN, the unmeasured
SYN+ACK and three more packets, two rounds of timestamps, a repeated TSval
and a TSval echoed twice.

| Run | Expect | Shows |
|---|---|---|
| `tcp_observer` | pass | with NOP-NOP-timestamp, MSS-timestamp and broken option lists: accepted packets carry the sent timestamps, no map entry names a freed cell, the init maps hold exactly the unechoed TSvals, ts_all samples span a round trip, no sample is lost before its report (2617827 states, about 1.5 minutes) |
| `tcp_single_round` | violation | the unmeasured SYN+ACK leaves `ts_init` at 0, the client's ACK arms `ts_ack` early, and the server's first sample spans no round trip |
| `tcp_leak_overwrite` | violation | two server packets with the same TSval echoing different client TSvals overwrite an ack-map entry; its cell is never freed |
| `tcp_options_overread` | violation | a data offset of 15 words on a segment with 12 option bytes, or of 4 words (the u8 option length wraps to 252), makes the option walk read past the packet |

`clean_session` releases the maps with `hash_free` but not the cells they
name (the code's TODO says so); that leak needs no overwrite and is the
hazard at spinbit.c 949 (`NoLeak` fails after any clean with a live entry).

`ts_single_estimate` compares TSvals as plain u32 numbers. Once an
endpoint's TSval clock wraps below the stored `ts_init` or `ts_ack`, no
round of that side completes until the clock passes the stored value again,
a stall of up to one TSval period (spinbit.c 785). With a clock of a few
bits that stall lasts a few ticks, and a liveness property fails only if
the clock stops, so no run checks it; it is listed as a hazard.

### TcpOptions (`TcpOptions.tla`)

No state: `ParseFrom` is the `for` loop of `tcp_options_parse_mod` as a
recursive operator over the bytes after the fixed header, from the current
byte with `opts_len` left. `OptsLen` keeps the u8 of the code; `NetU32` is
`clib_net_to_host_u32`. The operator stops at the first byte it would read
past the packet and sets `overread`. `Header` renders the layouts the
environment of `TcpObserver` uses; the parser is checked there, on the
timestamps the sender put in.

## 4. Not modelled, and why

* Several VPP worker threads running `spinbit_node_fn` at once on the
  shared pool, bihash and wheel. The plugin has no locking and no sharding,
  so this is a deployment the spec rules out (section 5), not a protocol
  the code implements. It is listed as a hazard (node.c 147).
* Buffer handling and checksums (`vlib_buffer_advance`, `ip4_*_checksum`):
  I/O mechanics; a parse failure is the pass-through disjunct.
* `total_flows`, `pkt_count`: counters that only feed output; the CSV rows
  of the reports (only their clearing of flags is modelled).
* Output files, packet trace, `show` command: pure I/O.
* The binary-API plumbing (`spinbit_plugin_api_hookup`,
  `setup_message_id_table`, the reply message): registration at plugin
  init, with no state the node reads. The API handler itself is an
  action. The
  feature arc's own bookkeeping (vnet) is taken as a set of interfaces.
* Byte order and dotted-quad parsing of the configuration commands:
  addresses and ports are members of the modelled sets.
* The timer-wheel internals and the pool allocator (vppinfra): the model
  assumes a timer fires at the first loop iteration at or after its deadline,
  that a fixed pool hands out any free slot, and that `pool_get` on a full
  fixed pool ends the process.
* Byte-level IPv4 and QUIC header decoding (node.c): packets enter
  SpinbitNode as decoded fields. Two hazards there are listed without a
  run. First, the IPv4 header is taken as 20 bytes, so a packet with IP
  options has its ports read from the wrong offset. Second, the QUIC
  long-header branch advances 17 bytes after checking only the 3-byte
  minimum. The u16 `current_length` then wraps, and the node reads past
  a short payload, the same class of over-read as `tcp_options_overread`.
