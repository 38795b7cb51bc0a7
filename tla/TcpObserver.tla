---------------------------- MODULE TcpObserver ----------------------------
(***************************************************************************)
(* The observer bundle of one TCP session (tcp_observer_t) and the update *)
(* the node runs on it for every measured packet, update_tcp_rtt_estimate:*)
(* the status (VEC) and vec_ne_zero spin observers, the one-RTT-per-round *)
(* timestamp observer (ts_single_estimate), the all-timestamps observer   *)
(* (ts_all_estimate) with its four hash maps of heap cells, then the      *)
(* report that clears the new-sample flags; and the release of the maps   *)
(* when the session is cleaned (clean_session).                           *)
(*                                                                         *)
(* The client sends the session's first packet (its SYN); the server's    *)
(* first packet is the SYN+ACK, which the node does not measure. Each     *)
(* endpoint's TSval never decreases, and its TSecr is a TSval the other   *)
(* endpoint sent, never below its previous TSecr (RFC 7323's TS.Recent).  *)
(***************************************************************************)
EXTENDS Integers, Sequences, FiniteSets, Functions, TLC, TcpOptions

CONSTANTS
    MaxTime,        \* bound on the clock (ticks)
    MaxTs,          \* largest TSval an endpoint sends
    MaxPkts,        \* bound on the packets of the session
    Cells,          \* heap cells vec_alloc may hand out
    STATUS_VALID, STATUS_INVALID, StatusValues,
    SPIN_NOT_KNOWN, \* model value: the initial spin sentinel
    Cleans,         \* whether the session may be cleaned
    Layouts         \* option layouts packets may carry (see TcpOptions)

ASSUME /\ MaxTime \in Nat /\ MaxTs \in Nat \ {0} /\ MaxPkts \in Nat
       /\ {STATUS_VALID, STATUS_INVALID} \subseteq StatusValues
       /\ StatusValues \subseteq 0 .. 3 /\ Cleans \in BOOLEAN
       /\ Layouts \subseteq {"nop_nop_ts", "mss_ts", "bad_len", "long_doff",
                            "short_doff"}

Sides == {"client", "server"}
Other(s) == IF s = "client" THEN "server" ELSE "client"
Estimators == {"status", "vec", "single", "all"}
Time == 0 .. MaxTime
TS == 0 .. MaxTs

VARIABLES
    now,
    status_spin_observer,   \* side -> [spin, time_last_spin, rtt, new]
    vec_ne_zero,            \* side -> [spin, time_last_spin, rtt, new]
    ts_one_RTT_observer,    \* side -> [ts_init, ts_ack, time_init, rtt, new]
    ts_all_RTT_observer,    \* [hash_init, hash_ack : side -> (TSval -> cell),
                            \*  rtt, new : side -> ...]
    heap,                   \* allocated cell -> the time it holds
    closed,                 \* clean_session has run
    \* history, not in the code:
    pkts,                   \* the packets of the session, in order
    last,                   \* the last packet's side and estimator results
    parsed                  \* the last packet's sent timestamps and parse

vars == <<now, status_spin_observer, vec_ne_zero, ts_one_RTT_observer,
          ts_all_RTT_observer, heap, closed, pkts, last, parsed>>

-----------------------------------------------------------------------------
(* Mutant: the spin observers subtract the wrong way round.             *)
SpinGated_reversed(o, spin, status, gate) ==
    LET valid == o.spin # spin /\ gate IN
    [o |-> [o EXCEPT !.spin = spin,
                     !.rtt = IF valid THEN o.time_last_spin - now ELSE @,
                     !.new = @ \/ valid,
                     !.time_last_spin = IF status # STATUS_INVALID THEN now ELSE @],
     upd |-> valid]

(* The spin observers: status_estimate gates on VALID, vec_ne_zero on    *)
(* anything but INVALID; both refresh the edge time on every packet that *)
(* is not INVALID.                                                       *)
SpinGated(o, spin, status, gate) ==
    LET valid == o.spin # spin /\ gate IN
    [o |-> [o EXCEPT !.spin = spin,
                     !.rtt = IF valid THEN now - o.time_last_spin ELSE @,
                     !.new = @ \/ valid,
                     !.time_last_spin = IF status # STATUS_INVALID THEN now ELSE @],
     upd |-> valid]

status_estimate(o, spin, status) == SpinGated(o, spin, status, status = STATUS_VALID)

vec_ne_zero_estimate(o, spin, status) ==
    SpinGated(o, spin, status, status # STATUS_INVALID)

(* ts_single_estimate: the first TSval of a round and its time are kept; *)
(* the other side's first packet echoing at least it records its TSval  *)
(* as ts_ack; a packet echoing at least ts_ack gives the sample and      *)
(* starts the next round.                                                *)
ts_single_estimate(o, s, tsval, tsecr) ==
    LET me == o[s]  oth == o[Other(s)]
        upd == me.ts_init # 0 /\ tsecr # 0 /\ me.ts_ack # 0 /\ tsecr >= me.ts_ack
        me2 == CASE me.ts_init = 0 -> [me EXCEPT !.ts_init = tsval, !.time_init = now]
                 [] upd -> [me EXCEPT !.rtt = now - me.time_init, !.ts_init = tsval,
                                      !.ts_ack = 0, !.time_init = now, !.new = TRUE]
                 [] OTHER -> me
        ackOther == tsecr # 0 /\ oth.ts_ack = 0 /\ tsecr >= oth.ts_init
    IN  [o |-> [o EXCEPT ![s] = me2,
                         ![Other(s)].ts_ack = IF ackOther THEN tsval ELSE @],
         upd |-> upd]

(* The vppinfra hash of TSval -> cell pointer: hash_set, hash_unset.     *)
hash_set(m, k, v) == (k :> v) @@ m
hash_unset(m, k) == Restrict(m, DOMAIN m \ {k})

(* The cell vec_alloc hands out: any free one (the lowest, to keep the   *)
(* state space small; cells are interchangeable).                        *)
FreeCells == Cells \ DOMAIN heap
NewCell == CHOOSE c \in FreeCells : \A d \in FreeCells : c <= d

(* Mutant: the acknowledged entry is freed but left in hash_ack.         *)
ts_all_estimate_no_unset(o, s, tsval, tsecr) ==
    LET oth == Other(s)
        init_t == tsval \in DOMAIN o.hash_init[s]
        ack_t == tsecr \in DOMAIN o.hash_ack[s]
        init_t_other == tsecr \in DOMAIN o.hash_init[oth]
        c == NewCell
        h1 == IF init_t THEN heap ELSE heap @@ (c :> now)
        i1 == IF init_t THEN o.hash_init[s] ELSE hash_set(o.hash_init[s], tsval, c)
        hit == tsecr # 0 /\ ack_t
        move == tsecr # 0 /\ init_t_other
    IN  [o |-> [o EXCEPT
                 !.hash_init = [@ EXCEPT ![s] = i1,
                     ![oth] = IF move THEN hash_unset(@, tsecr) ELSE @],
                 !.hash_ack = [@ EXCEPT
                     ![oth] = IF move THEN hash_set(@, tsval, o.hash_init[oth][tsecr]) ELSE @],
                 !.rtt = [@ EXCEPT ![s] = IF hit THEN now - heap[o.hash_ack[s][tsecr]] ELSE @],
                 !.new = [@ EXCEPT ![s] = @ \/ hit]],
         heap |-> IF hit THEN hash_unset(h1, o.hash_ack[s][tsecr]) ELSE h1,
         upd |-> hit]

(* Mutant: the ack map is searched for the packet's own TSval.         *)
ts_all_estimate_ack_by_tsval(o, s, tsval, tsecr) ==
    LET oth == Other(s)
        init_t == tsval \in DOMAIN o.hash_init[s]
        ack_t == tsval \in DOMAIN o.hash_ack[s]
        init_t_other == tsecr \in DOMAIN o.hash_init[oth]
        c == NewCell
        h1 == IF init_t THEN heap ELSE heap @@ (c :> now)
        i1 == IF init_t THEN o.hash_init[s] ELSE hash_set(o.hash_init[s], tsval, c)
        hit == ack_t
        move == tsecr # 0 /\ init_t_other
    IN  [o |-> [o EXCEPT
                 !.hash_init = [@ EXCEPT ![s] = i1,
                     ![oth] = IF move THEN hash_unset(@, tsecr) ELSE @],
                 !.hash_ack = [@ EXCEPT
                     ![s] = IF hit THEN hash_unset(@, tsval) ELSE @,
                     ![oth] = IF move THEN hash_set(@, tsval, o.hash_init[oth][tsecr]) ELSE @],
                 !.rtt = [@ EXCEPT ![s] = IF hit THEN now - heap[o.hash_ack[s][tsval]] ELSE @],
                 !.new = [@ EXCEPT ![s] = @ \/ hit]],
         heap |-> IF hit THEN hash_unset(h1, o.hash_ack[s][tsval]) ELSE h1,
         upd |-> hit]

(* Mutant: the echoed entry is copied to the ack map but left in the     *)
(* other side's init map.                                                *)
ts_all_estimate_keep_init(o, s, tsval, tsecr) ==
    LET oth == Other(s)
        init_t == tsval \in DOMAIN o.hash_init[s]
        ack_t == tsecr \in DOMAIN o.hash_ack[s]
        init_t_other == tsecr \in DOMAIN o.hash_init[oth]
        c == NewCell
        h1 == IF init_t THEN heap ELSE heap @@ (c :> now)
        i1 == IF init_t THEN o.hash_init[s] ELSE hash_set(o.hash_init[s], tsval, c)
        hit == tsecr # 0 /\ ack_t
        move == tsecr # 0 /\ init_t_other
    IN  [o |-> [o EXCEPT
                 !.hash_init = [@ EXCEPT ![s] = i1],
                 !.hash_ack = [@ EXCEPT
                     ![s] = IF hit THEN hash_unset(@, tsecr) ELSE @,
                     ![oth] = IF move THEN hash_set(@, tsval, o.hash_init[oth][tsecr]) ELSE @],
                 !.rtt = [@ EXCEPT ![s] = IF hit THEN now - heap[o.hash_ack[s][tsecr]] ELSE @],
                 !.new = [@ EXCEPT ![s] = @ \/ hit]],
         heap |-> IF hit THEN hash_unset(h1, o.hash_ack[s][tsecr]) ELSE h1,
         upd |-> hit]

(* ts_all_estimate: a TSval not yet in this side's init map gets a new   *)
(* cell holding now; an echo found in this side's ack map gives the      *)
(* sample and frees the cell; an echo found in the other side's init map *)
(* moves that cell to the other side's ack map under this TSval. All     *)
(* three lookups are made before any change.                             *)
ts_all_estimate(o, s, tsval, tsecr) ==
    LET oth == Other(s)
        init_t == tsval \in DOMAIN o.hash_init[s]
        ack_t == tsecr \in DOMAIN o.hash_ack[s]
        init_t_other == tsecr \in DOMAIN o.hash_init[oth]
        c == NewCell
        h1 == IF init_t THEN heap ELSE heap @@ (c :> now)
        i1 == IF init_t THEN o.hash_init[s] ELSE hash_set(o.hash_init[s], tsval, c)
        hit == tsecr # 0 /\ ack_t
        move == tsecr # 0 /\ init_t_other
    IN  [o |-> [o EXCEPT
                 !.hash_init = [@ EXCEPT ![s] = i1,
                     ![oth] = IF move THEN hash_unset(@, tsecr) ELSE @],
                 !.hash_ack = [@ EXCEPT
                     ![s] = IF hit THEN hash_unset(@, tsecr) ELSE @,
                     ![oth] = IF move THEN hash_set(@, tsval, o.hash_init[oth][tsecr]) ELSE @],
                 !.rtt = [@ EXCEPT ![s] = IF hit THEN now - heap[o.hash_ack[s][tsecr]] ELSE @],
                 !.new = [@ EXCEPT ![s] = @ \/ hit]],
         heap |-> IF hit THEN hash_unset(h1, o.hash_ack[s][tsecr]) ELSE h1,
         upd |-> hit]

(* Mutant: the report clears the other side's flags (the QUIC branch).   *)
ReportedSide_swapped(s) == Other(s)

(* update_tcp_rtt_estimate prints the "server" row and clears the        *)
(* server's flags when src_port != init_src_port: the sender's own.      *)
ReportedSide(s) == s

ClearNew(f, r) == [f EXCEPT ![r].new = FALSE]

(* update_tcp_rtt_estimate for a measured packet of side s.              *)
update_tcp_rtt_estimate(s, spin, status_bits, tsval, tsecr) ==
    LET st == status_estimate(status_spin_observer[s], spin, status_bits)
        ve == vec_ne_zero_estimate(vec_ne_zero[s], spin, status_bits)
        si == ts_single_estimate(ts_one_RTT_observer, s, tsval, tsecr)
        al == ts_all_estimate(ts_all_RTT_observer, s, tsval, tsecr)
        any == st.upd \/ ve.upd \/ si.upd \/ al.upd
        r == ReportedSide(s)
        Out(f) == IF any THEN ClearNew(f, r) ELSE f
    IN  /\ status_spin_observer' = Out([status_spin_observer EXCEPT ![s] = st.o])
        /\ vec_ne_zero' = Out([vec_ne_zero EXCEPT ![s] = ve.o])
        /\ ts_one_RTT_observer' = Out(si.o)
        /\ ts_all_RTT_observer' =
             IF any THEN [al.o EXCEPT !.new[r] = FALSE] ELSE al.o
        /\ heap' = al.heap
        /\ last' = [side |-> s,
                    upd |-> [status |-> st.upd, vec |-> ve.upd,
                             single |-> si.upd, all |-> al.upd]]

-----------------------------------------------------------------------------
(* The environment: the endpoints' timestamps.                           *)
SentBy(s) == {pkts[i].tsval : i \in {k \in DOMAIN pkts : pkts[k].side = s}}
OwnPkts(s) == {i \in DOMAIN pkts : pkts[i].side = s}
TsvalsFor(s) == {v \in 1 .. MaxTs : \A i \in OwnPkts(s) : v >= pkts[i].tsval}
EchoesFor(s) ==
    IF SentBy(Other(s)) = {} THEN {0}
    ELSE {v \in SentBy(Other(s)) : \A i \in OwnPkts(s) : v >= pkts[i].tsecr}

NoPacket == [side |-> "none", upd |-> [e \in Estimators |-> FALSE]]

(* make_measurement: false for a SYN+ACK, the server's first packet.    *)
make_measurement(s) == ~(s = "server" /\ OwnPkts("server") = {})

NoParse == [sent |-> <<0, 0>>, res |-> [ret |-> 0, tsval |-> 0, tsecr |-> 0,
                                          overread |-> FALSE]]

(* A parse that read past the packet saw stale buffer bytes: it may end *)
(* in any result.                                                        *)
ParseOutcomes(r) ==
    IF r.overread
    THEN {[ret |-> x, tsval |-> v, tsecr |-> e, overread |-> TRUE] :
            x \in {0, -1}, v \in TS, e \in TS}
    ELSE {r}

(* A TCP packet of side s through the TCP branch of spinbit_node_fn: its *)
(* options are parsed first and a parse error skips the packet; else it  *)
(* is measured unless it is the SYN+ACK.                                  *)
Packet(s) ==
    /\ ~closed
    /\ Len(pkts) < MaxPkts
    /\ pkts = <<>> => s = "client"
    /\ \E spin \in BOOLEAN, status_bits \in StatusValues, layout \in Layouts,
          tsval \in TsvalsFor(s), tsecr \in EchoesFor(s) :
       \E res \in ParseOutcomes(tcp_options_parse_mod(Header(layout, tsval, tsecr))) :
         LET measured == res.ret = 0 /\ make_measurement(s) IN
         /\ pkts' = Append(pkts, [side |-> s, tsval |-> tsval, tsecr |-> tsecr,
                                  t |-> now, measured |-> measured])
         /\ parsed' = [sent |-> <<tsval, tsecr>>, res |-> res]
         /\ IF measured
            THEN update_tcp_rtt_estimate(s, spin, status_bits, res.tsval, res.tsecr)
            ELSE /\ last' = NoPacket
                 /\ UNCHANGED <<status_spin_observer, vec_ne_zero,
                                ts_one_RTT_observer, ts_all_RTT_observer, heap>>
    /\ UNCHANGED <<now, closed>>

(* clean_session for a TCP session: hash_free releases the four maps but *)
(* not the cells they point to, then the observer is freed.              *)
clean_session ==
    /\ Cleans /\ ~closed /\ pkts # <<>>
    /\ closed' = TRUE
    /\ ts_all_RTT_observer' = [ts_all_RTT_observer EXCEPT
                                 !.hash_init = [s \in Sides |-> <<>>],
                                 !.hash_ack = [s \in Sides |-> <<>>]]
    /\ last' = NoPacket
    /\ parsed' = NoParse
    /\ UNCHANGED <<now, status_spin_observer, vec_ne_zero, ts_one_RTT_observer,
                   heap, pkts>>

Tick ==
    /\ now < MaxTime
    /\ now' = now + 1
    /\ last' = NoPacket
    /\ parsed' = NoParse
    /\ UNCHANGED <<status_spin_observer, vec_ne_zero, ts_one_RTT_observer,
                   ts_all_RTT_observer, heap, closed, pkts>>

(* create_session for TCP: the bundle zeroed, the spins SPIN_NOT_KNOWN,  *)
(* four empty hash maps.                                                 *)
Init ==
    /\ now = 0
    /\ status_spin_observer = [s \in Sides |->
          [spin |-> SPIN_NOT_KNOWN, time_last_spin |-> 0, rtt |-> 0, new |-> FALSE]]
    /\ vec_ne_zero = status_spin_observer
    /\ ts_one_RTT_observer = [s \in Sides |->
          [ts_init |-> 0, ts_ack |-> 0, time_init |-> 0, rtt |-> 0, new |-> FALSE]]
    /\ ts_all_RTT_observer = [hash_init |-> [s \in Sides |-> <<>>],
                              hash_ack |-> [s \in Sides |-> <<>>],
                              rtt |-> [s \in Sides |-> 0],
                              new |-> [s \in Sides |-> FALSE]]
    /\ heap = <<>>
    /\ closed = FALSE
    /\ pkts = <<>>
    /\ last = NoPacket
    /\ parsed = NoParse

Next == Tick \/ clean_session \/ \E s \in Sides : Packet(s)

Spec == Init /\ [][Next]_vars

-----------------------------------------------------------------------------
(* Properties                                                            *)

Referenced == UNION {Range(ts_all_RTT_observer.hash_init[s])
                       \cup Range(ts_all_RTT_observer.hash_ack[s]) : s \in Sides}

SideSpin == [spin : BOOLEAN \cup {SPIN_NOT_KNOWN}, time_last_spin : Time,
             rtt : Time, new : BOOLEAN]

TypeOK ==
    /\ now \in Time /\ closed \in BOOLEAN
    /\ status_spin_observer \in [Sides -> SideSpin]
    /\ vec_ne_zero \in [Sides -> SideSpin]
    /\ ts_one_RTT_observer \in [Sides -> [ts_init : TS, ts_ack : TS, time_init : Time,
                                          rtt : Time, new : BOOLEAN]]
    /\ ts_all_RTT_observer.rtt \in [Sides -> Time]
    /\ ts_all_RTT_observer.new \in [Sides -> BOOLEAN]
    /\ DOMAIN heap \subseteq Cells /\ Range(heap) \subseteq Time
    /\ Referenced \subseteq Cells
    /\ parsed.res \in ParseResult

(* No use after free: every cell the four maps of ts_all_estimate point *)
(* to is still allocated, so the time read on an echo (vec_free'd cells *)
(* included) is never from freed memory.                                *)
NoDanglingCell == Referenced \subseteq DOMAIN heap

(* No leak: every allocated cell is reachable from one of the maps, so  *)
(* it is freed when its timestamp is echoed; the spec asks destroy to   *)
(* release the per-flow maps.                                           *)
NoLeak == DOMAIN heap \subseteq Referenced

(* The TSvals side s sent in a measured packet that no later measured    *)
(* packet of the other side echoed.                                      *)
Unechoed(s) ==
    {pkts[i].tsval : i \in {k \in OwnPkts(s) :
        pkts[k].measured /\
        ~\E j \in OwnPkts(Other(s)) :
            j > k /\ pkts[j].measured /\ pkts[j].tsecr = pkts[k].tsval}}

(* ts_all_estimate's init map of a side holds exactly the TSvals of that  *)
(* side still waiting for their echo: an entry leaves it when the other  *)
(* side echoes it, through the cell's move to the ack map, and nothing   *)
(* else removes it, so the map grows with every TSval whose echo is lost *)
(* or not measured (the code's "state will explode" TODO).               *)
InitMapHoldsUnechoed ==
    ~closed => \A s \in Sides : DOMAIN ts_all_RTT_observer.hash_init[s] = Unechoed(s)


(* A timestamp round trip, seen from side s at the packet n: a packet i  *)
(* of s, a measured packet j of the other side echoing (at least, with   *)
(* Atleast) i's TSval, and n echoing j's TSval; the sample is n's time   *)
(* minus i's.                                                           *)
RoundTrip(p, s, rtt, Atleast(_, _)) ==
    LET n == Len(p) IN
    \E i, j \in 1 .. (n - 1) :
        /\ i < j /\ p[i].side = s /\ p[j].side = Other(s) /\ p[j].measured
        /\ Atleast(p[j].tsecr, p[i].tsval) /\ Atleast(p[n].tsecr, p[j].tsval)
        /\ rtt = p[n].t - p[i].t

Exactly(a, b) == a = b
NotBelow(a, b) == a >= b

(* Every sample of ts_all_estimate is a true round trip: the cell it    *)
(* reads was stored for exactly the TSval the other side echoed, even   *)
(* though cells move between the two sides' maps.                       *)
TsAllSampleIsRoundTrip ==
    [][ last'.upd.all =>
          RoundTrip(pkts', last'.side, ts_all_RTT_observer'.rtt[last'.side], Exactly) ]_vars

(* Every sample of ts_single_estimate spans a round: the round's first  *)
(* packet, a reply acknowledging it, and a packet acknowledging that.   *)
TsSingleSampleIsRoundTrip ==
    [][ last'.upd.single =>
          RoundTrip(pkts', last'.side, ts_one_RTT_observer'[last'.side].rtt, NotBelow) ]_vars

NewFlag(e, s) == CASE e = "status" -> status_spin_observer[s].new
                   [] e = "vec"    -> vec_ne_zero[s].new
                   [] e = "single" -> ts_one_RTT_observer[s].new
                   [] e = "all"    -> ts_all_RTT_observer.new[s]

(* Every sample is reported by update_tcp_rtt_estimate before the next  *)
(* sample of the same side and estimator overwrites it.                 *)
NoSampleLost ==
    [][ \A s \in Sides, e \in Estimators :
          (last'.side = s /\ last'.upd[e]) => ~NewFlag(e, s) ]_vars

(* Every packet the option parser accepts hands the estimators the TSval *)
(* and TSecr its sender put in the timestamp option, whatever options    *)
(* precede it (tcp_options_parse_mod, the TCP branch of spinbit_node_fn). *)
AcceptedTimestampsAreSent ==
    parsed.res.ret = 0 => <<parsed.res.tsval, parsed.res.tsecr>> = parsed.sent

(* tcp_options_parse_mod reads only bytes of the packet: the option walk *)
(* never passes the end of the segment, whatever the data offset says.    *)
OptionsReadWithinPacket == ~parsed.res.overread

=============================================================================
