---------------------------- MODULE QuicObserver ----------------------------
(***************************************************************************)
(* The observer bundle of one QUIC session (quic_observer_t) and the      *)
(* update the node runs on it for every packet, update_quic_rtt_estimate: *)
(* the basic, packet-number, status (VEC) and dynamic-heuristic spin       *)
(* observers, then the report that clears the "new sample" flags.         *)
(*                                                                         *)
(* Each side ("client": the sender of the session's first packet, whose   *)
(* source port is init_src_port; "server": the other) sends packets with  *)
(* any spin bit and status bits; packet numbers come from a per-side      *)
(* counter, carried on the wire in PN_BITS bits (the short header's 1, 2  *)
(* or 4 bytes), and a packet may be one held back from earlier.           *)
(* Time is in ticks; 0 is the start of VPP, the session starts at CREATED.*)
(***************************************************************************)
EXTENDS Integers, FiniteSets

CONSTANTS
    CREATED,               \* tick at which the session was created
    MaxTime,               \* bound on the clock
    PN_BITS,               \* width of the packet number on the wire
    MaxPn,                 \* bound on the senders' packet counters
    DYNA_HEUR_HISTORY_SIZE,
    DYNA_HEUR_MAX_REJECT,
    THRESHOLD_NUM,         \* DYNA_HEUR_THRESHOLD = THRESHOLD_NUM / THRESHOLD_DEN
    THRESHOLD_DEN,
    STATUS_VALID,          \* values of the 2-bit status field
    STATUS_INVALID,
    SPIN_NOT_KNOWN,        \* model value: the initial spin sentinel
    SPIN_INIT,             \* what the spin fields hold after create_session
    StatusValues,          \* the status fields the environment sends
    Senders                \* the sides that send packets

ASSUME /\ CREATED \in Nat /\ MaxTime >= CREATED
       /\ PN_BITS \in Nat \ {0} /\ MaxPn \in Nat \ {0}
       /\ DYNA_HEUR_HISTORY_SIZE \in Nat \ {0}
       /\ DYNA_HEUR_MAX_REJECT \in Nat
       /\ THRESHOLD_NUM \in Nat /\ THRESHOLD_DEN \in Nat \ {0}
       /\ {STATUS_VALID, STATUS_INVALID} \subseteq StatusValues
       /\ StatusValues \subseteq 0 .. 3
       /\ Senders \subseteq {"client", "server"}
       \* A bool field turns the sentinel into TRUE.
       /\ SPIN_INIT \subseteq {SPIN_NOT_KNOWN, TRUE} /\ SPIN_INIT # {}

Sides == {"client", "server"}
Other(s) == IF s = "client" THEN "server" ELSE "client"
Estimators == {"basic", "pn", "status", "heur"}
Hist == 0 .. (DYNA_HEUR_HISTORY_SIZE - 1)

VARIABLES
    now,
    basic_spin_observer,      \* side -> [spin, time_last_spin, rtt, new]
    pn_spin_observer,         \* side -> the same plus pn, the last accepted number
    status_spin_observer,     \* side -> [spin, time_last_spin, rtt, new]
    dyna_heur_spin_observer,  \* side -> [spin, time_last_spin, rtt (ring), index, rejected, new]
    \* environment and history, not in the code:
    pnext,                    \* side -> the sender's next packet number
    last                      \* the last step's packet: side, spin, each estimator's result

vars == <<now, basic_spin_observer, pn_spin_observer, status_spin_observer,
          dyna_heur_spin_observer, pnext, last>>

Spin == BOOLEAN \cup {SPIN_NOT_KNOWN}

-----------------------------------------------------------------------------
(* Each estimator maps the observer of the packet's side to              *)
(* [o |-> new observer, upd |-> whether a sample was produced].          *)

(* basic_spinbit_estimate: every spin change is an edge.                 *)
basic_spinbit_estimate(o, spin) ==
    IF o.spin # spin
    THEN [o |-> [o EXCEPT !.spin = spin, !.rtt = now - o.time_last_spin,
                          !.new = TRUE, !.time_last_spin = now],
          upd |-> TRUE]
    ELSE [o |-> o, upd |-> FALSE]

(* Mutant: the packet number is compared with the other side's.       *)
pn_spinbit_estimate_other(obs, s, spin, packet_number) ==
    LET o == obs[s] IN
    IF packet_number > obs[Other(s)].pn /\ o.spin # spin
    THEN [o |-> [o EXCEPT !.spin = spin, !.pn = packet_number,
                          !.rtt = now - o.time_last_spin, !.new = TRUE,
                          !.time_last_spin = now],
          upd |-> TRUE]
    ELSE [o |-> o, upd |-> FALSE]

(* pn_spinbit_estimate: a spin change counts only if the packet number   *)
(* is above the last accepted one (no wrap-around handling).             *)
pn_spinbit_estimate(obs, s, spin, packet_number) ==
    LET o == obs[s] IN
    IF packet_number > o.pn /\ o.spin # spin
    THEN [o |-> [o EXCEPT !.spin = spin, !.pn = packet_number,
                          !.rtt = now - o.time_last_spin, !.new = TRUE,
                          !.time_last_spin = now],
          upd |-> TRUE]
    ELSE [o |-> o, upd |-> FALSE]

(* status_estimate: on a spin change the RTT is stored only with a VALID *)
(* status; the edge time is refreshed by every packet not INVALID.       *)
status_estimate(o, spin, status) ==
    LET flip == o.spin # spin
        valid == flip /\ status = STATUS_VALID
    IN  [o |-> [o EXCEPT !.spin = spin,
                         !.rtt = IF valid THEN now - o.time_last_spin ELSE @,
                         !.new = @ \/ valid,
                         !.time_last_spin = IF status # STATUS_INVALID THEN now ELSE @],
         upd |-> valid]

(* The minimum of the heuristic's RTT ring.                              *)
HistMin(ring) == CHOOSE m \in {ring[i] : i \in Hist} : \A i \in Hist : m <= ring[i]

(* Mutant: the ring index is advanced without the modulo.                *)
heuristic_estimate_no_wrap(o, spin) ==
    IF o.spin = spin THEN [o |-> o, upd |-> FALSE]
    ELSE LET cand == now - o.time_last_spin IN
         IF cand * THRESHOLD_DEN > HistMin(o.rtt) * THRESHOLD_NUM
            \/ o.rejected >= DYNA_HEUR_MAX_REJECT
         THEN [o |-> [o EXCEPT !.spin = spin, !.rejected = 0,
                        !.index = o.index + 1,
                        !.rtt = [@ EXCEPT ![(o.index + 1) % DYNA_HEUR_HISTORY_SIZE] = cand],
                        !.new = TRUE, !.time_last_spin = now],
               upd |-> TRUE]
         ELSE [o |-> [o EXCEPT !.spin = spin, !.rejected = @ + 1], upd |-> FALSE]

(* Mutant: a rejected edge leaves the recorded spin unchanged.           *)
heuristic_estimate_keep_spin(o, spin) ==
    IF o.spin = spin THEN [o |-> o, upd |-> FALSE]
    ELSE LET cand == now - o.time_last_spin
             i == (o.index + 1) % DYNA_HEUR_HISTORY_SIZE IN
         IF cand * THRESHOLD_DEN > HistMin(o.rtt) * THRESHOLD_NUM
            \/ o.rejected >= DYNA_HEUR_MAX_REJECT
         THEN [o |-> [o EXCEPT !.spin = spin, !.rejected = 0, !.index = i,
                        !.rtt = [@ EXCEPT ![i] = cand], !.new = TRUE,
                        !.time_last_spin = now],
               upd |-> TRUE]
         ELSE [o |-> [o EXCEPT !.rejected = @ + 1], upd |-> FALSE]

(* heuristic_estimate: a candidate above THRESHOLD x the smallest RTT of *)
(* the ring, or any candidate after DYNA_HEUR_MAX_REJECT rejections, is  *)
(* stored at the next ring slot; otherwise it is counted and dropped,    *)
(* and the edge time is not moved.                                       *)
heuristic_estimate(o, spin) ==
    IF o.spin = spin THEN [o |-> o, upd |-> FALSE]
    ELSE LET cand == now - o.time_last_spin
             i == (o.index + 1) % DYNA_HEUR_HISTORY_SIZE IN
         IF cand * THRESHOLD_DEN > HistMin(o.rtt) * THRESHOLD_NUM
            \/ o.rejected >= DYNA_HEUR_MAX_REJECT
         THEN [o |-> [o EXCEPT !.spin = spin, !.rejected = 0, !.index = i,
                        !.rtt = [@ EXCEPT ![i] = cand], !.new = TRUE,
                        !.time_last_spin = now],
               upd |-> TRUE]
         ELSE [o |-> [o EXCEPT !.spin = spin, !.rejected = @ + 1], upd |-> FALSE]

(* The side whose row update_quic_rtt_estimate prints and whose new      *)
(* flags it clears: the "server" row when src_port == init_src_port.     *)
ReportedSide(s) == IF s = "client" THEN "server" ELSE "client"

Cleared(obs, r) == [obs EXCEPT ![r].new = FALSE]

-----------------------------------------------------------------------------
(* update_quic_rtt_estimate for a packet of side s; packet_number is the *)
(* number as read from the header (0 skips the packet-number observer).  *)
update_quic_rtt_estimate(s, spin, status_bits, packet_number) ==
    LET b  == basic_spinbit_estimate(basic_spin_observer[s], spin)
        p  == IF packet_number # 0
              THEN pn_spinbit_estimate(pn_spin_observer, s, spin, packet_number)
              ELSE [o |-> pn_spin_observer[s], upd |-> FALSE]
        st == status_estimate(status_spin_observer[s], spin, status_bits)
        h  == heuristic_estimate(dyna_heur_spin_observer[s], spin)
        any == b.upd \/ p.upd \/ st.upd \/ h.upd
        r  == ReportedSide(s)
        Out(obs, res) == LET o2 == [obs EXCEPT ![s] = res.o]
                         IN  IF any THEN Cleared(o2, r) ELSE o2
    IN  /\ basic_spin_observer' = Out(basic_spin_observer, b)
        /\ pn_spin_observer' = Out(pn_spin_observer, p)
        /\ status_spin_observer' = Out(status_spin_observer, st)
        /\ dyna_heur_spin_observer' = Out(dyna_heur_spin_observer, h)
        /\ last' = [side |-> s, spin |-> spin,
                    upd |-> [basic |-> b.upd, pn |-> p.upd, status |-> st.upd,
                             heur |-> h.upd]]

(* Mutant: every short header read as P_NUMBER_8, one width too narrow. *)
WirePn_narrow(full) == full % (2^(PN_BITS - 1))

(* The packet number as node.c reads it from a short header: the low    *)
(* PN_BITS bits of the sender's number, in the width the type announces.*)
WirePn(full) == full % (2^PN_BITS)

(* A packet of side s: fresh carries the sender's next number, otherwise *)
(* it is an earlier packet delivered late.                               *)
Packet(s) ==
    \E spin \in BOOLEAN, status_bits \in StatusValues, full \in 1 .. pnext[s] :
        LET fresh == full = pnext[s] IN
        /\ fresh => pnext[s] < MaxPn
        /\ pnext' = IF fresh THEN [pnext EXCEPT ![s] = @ + 1] ELSE pnext
        /\ update_quic_rtt_estimate(s, spin, status_bits, WirePn(full))
        /\ UNCHANGED now

NoPacket == [side |-> "none", spin |-> FALSE, upd |-> [e \in Estimators |-> FALSE]]

Tick ==
    /\ now < MaxTime
    /\ now' = now + 1
    /\ last' = NoPacket
    /\ UNCHANGED <<basic_spin_observer, pn_spin_observer, status_spin_observer,
                   dyna_heur_spin_observer, pnext>>

(* create_session for QUIC: the bundle is zeroed, the spin fields set to *)
(* SPIN_NOT_KNOWN.                                                       *)
Init ==
    /\ now = CREATED
    /\ \E s0 \in SPIN_INIT :
         /\ basic_spin_observer = [s \in Sides |->
               [spin |-> s0, time_last_spin |-> 0, rtt |-> 0, new |-> FALSE]]
         /\ pn_spin_observer = [s \in Sides |->
               [spin |-> s0, time_last_spin |-> 0, rtt |-> 0, new |-> FALSE, pn |-> 0]]
         /\ status_spin_observer = [s \in Sides |->
               [spin |-> s0, time_last_spin |-> 0, rtt |-> 0, new |-> FALSE]]
         /\ dyna_heur_spin_observer = [s \in Sides |->
               [spin |-> s0, time_last_spin |-> 0, rtt |-> [i \in Hist |-> 0],
                index |-> 0, rejected |-> 0, new |-> FALSE]]
    /\ pnext = [s \in Sides |-> 1]
    /\ last = NoPacket

Next == Tick \/ \E s \in Senders : Packet(s)

Spec == Init /\ [][Next]_vars

-----------------------------------------------------------------------------
(* Properties                                                            *)

Obs(e) == CASE e = "basic"  -> basic_spin_observer
            [] e = "pn"     -> pn_spin_observer
            [] e = "status" -> status_spin_observer
            [] e = "heur"   -> dyna_heur_spin_observer

Time == 0 .. MaxTime
SideObs == [spin : Spin, time_last_spin : Time, rtt : Time, new : BOOLEAN]

TypeOK ==
    /\ now \in CREATED .. MaxTime
    /\ basic_spin_observer \in [Sides -> SideObs]
    /\ status_spin_observer \in [Sides -> SideObs]
    /\ pn_spin_observer \in [Sides -> [spin : Spin, time_last_spin : Time, rtt : Time,
                                        new : BOOLEAN, pn : 0 .. (2^PN_BITS - 1)]]
    /\ dyna_heur_spin_observer \in
         [Sides -> [spin : Spin, time_last_spin : Time, rtt : [Hist -> Time],
                    index : Hist, rejected : Nat, new : BOOLEAN]]
    /\ pnext \in [Sides -> 1 .. MaxPn]

(* The spec's promise for the packet-number observer: a packet sent     *)
(* after every packet seen so far (the sender's next number) whose spin  *)
(* differs from the last accepted edge yields a sample. Breaks when the  *)
(* comparison of pn_spinbit_estimate uses the other side's number, or   *)
(* when the number is cut to fewer bits than the sender's counter uses. *)
(* Both sides send, so the two sides' stored numbers differ. Numbers 0  *)
(* and the wrap of the truncated field stay outside the bounds: the     *)
(* code leaves both open (TODOs at spinbit.c 411 and 508).              *)
PnAcceptsFreshEdges ==
    [][ \A s \in Sides :
          (/\ last'.side = s
           /\ pnext'[s] # pnext[s]
           /\ pn_spin_observer[s].spin # last'.spin)
          => last'.upd.pn ]_vars

(* The VEC and heuristic observers see the same spin edges as the basic *)
(* one: neither produces a sample at a packet where the spin of that    *)
(* side did not change, whatever was rejected or held invalid before.   *)
SamplesOnlyAtEdges ==
    [][ (last'.upd.status \/ last'.upd.heur) => last'.upd.basic ]_vars

(* Every sample is reported by update_quic_rtt_estimate before the next *)
(* sample of the same side and estimator overwrites it: an update never *)
(* finds that side's "new" flag still set.                              *)
NoSampleLost ==
    [][ \A s \in Sides, e \in Estimators :
          (last'.side = s /\ last'.upd[e]) => ~Obs(e)[s].new ]_vars

(* No RTT sample spans more time than the session has existed: the      *)
(* first edge is measured from the session's start, not from time 0.   *)
SamplesWithinSession ==
    \A s \in Sides, e \in {"basic", "pn", "status"} : Obs(e)[s].rtt <= now - CREATED

=============================================================================
