---------------------------- MODULE FlowMonitor ----------------------------
(***************************************************************************)
(* What the spinbit node promises for the flows that cross it, with no    *)
(* keys, pool or wheel: a flow becomes monitored at a packet from its     *)
(* client while fewer than Capacity flows are monitored; a packet of a    *)
(* monitored flow is rewritten to the other endpoint of that flow; a flow *)
(* stops being monitored only after TIMEOUT ticks without a rewritten     *)
(* packet; any packet may be passed on unchanged (a malformed header, or  *)
(* no room for a new flow).  SpinbitNode implements it through the        *)
(* bihash and the pool (see FlowMonitorSpec there).                       *)
(***************************************************************************)
EXTENDS Integers, FiniteSets, Functions, TLC

CONSTANTS
    Conns,       \* the flows
    Peer(_, _),  \* Peer(c, dir): where a packet of c in direction dir must go
    Capacity,    \* how many flows can be monitored at once
    TIMEOUT,     \* idle budget in ticks
    MaxTime,     \* bound on the clock
    NONE         \* no flow (a transit packet)

VARIABLES
    now,         \* clock in ticks
    seen,        \* monitored flow -> tick of its last rewritten packet
    out          \* the last packet handed on: [conn, dir, rewritten, dst]

vars == <<now, seen, out>>

monitored == DOMAIN seen

(* Flows idle for at least TIMEOUT ticks.                                  *)
Idle == {c \in monitored : now - seen[c] >= TIMEOUT}

(* Flows in E stop being monitored.                                       *)
Forget(E) == Restrict(seen, monitored \ E)

(* Timers that fire with no packet handed on.                             *)
Expire ==
    \E E \in SUBSET Idle :
        /\ E # {}
        /\ seen' = Forget(E)
        /\ UNCHANGED <<now, out>>

(* A packet of flow c (NONE for a transit packet), after the flows in E   *)
(* were forgotten: passed on unchanged, or rewritten to its peer, which   *)
(* starts monitoring a new flow at its client's packet if there is room.  *)
Handle(c, dir) ==
    \E E \in SUBSET Idle :
        LET s == Forget(E) IN
        \/ /\ seen' = s
           /\ out'.conn = c /\ out'.dir = dir /\ ~out'.rewritten
           /\ UNCHANGED now
        \/ /\ c # NONE
           /\ \/ c \in DOMAIN s
              \/ dir = "c2s" /\ Cardinality(DOMAIN s) < Capacity
           /\ seen' = (c :> now) @@ s
           /\ out' = [conn |-> c, dir |-> dir, rewritten |-> TRUE, dst |-> Peer(c, dir)]
           /\ UNCHANGED now

Tick ==
    /\ now < MaxTime
    /\ now' = now + 1
    /\ UNCHANGED <<seen, out>>

Init ==
    /\ now = 0
    /\ seen = <<>>
    /\ out.conn = NONE /\ ~out.rewritten

Next ==
    \/ Expire
    \/ \E c \in Conns \cup {NONE}, dir \in {"c2s", "s2c"} : Handle(c, dir)
    \/ Tick

Spec == Init /\ [][Next]_vars

=============================================================================
