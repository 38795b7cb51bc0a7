----------------------------- MODULE TcpOptions -----------------------------
(***************************************************************************)
(* tcp_options_parse_mod (spinbit.c): the walk over the options of a TCP  *)
(* header that extracts the TSval and TSecr of the timestamp option.      *)
(*                                                                         *)
(* A header is [doff, bytes]: doff is the 4-bit data-offset field and      *)
(* bytes are the bytes of the packet that follow the 20-byte fixed header *)
(* (options, then payload).  The code reads through a pointer from th + 1 *)
(* and never compares with the packet's length; the operator stops at the *)
(* first byte it would read past the packet and reports it, since what    *)
(* the code reads there is whatever the buffer held before.               *)
(***************************************************************************)
EXTENDS Integers, Sequences

\* Option kinds and lengths of VPP's tcp_packet.h, used by the parser.
TCP_OPTION_EOL            == 0
TCP_OPTION_NOOP           == 1
TCP_OPTION_MSS            == 2
TCP_OPTION_TIMESTAMP      == 8
TCP_OPTION_LEN_MSS        == 4
TCP_OPTION_LEN_TIMESTAMP  == 10
SIZE_TCP_HEADER           == 20   \* sizeof (tcp_header_t)

(* A u32 in network byte order, as clib_net_to_host_u32 reads it at b[i]. *)
NetU32(b, i) == ((b[i] * 256 + b[i + 1]) * 256 + b[i + 2]) * 256 + b[i + 3]

(* Its four bytes, most significant first.                               *)
U32Bytes(v) == << (v \div 2^24) % 256, (v \div 2^16) % 256,
                  (v \div 2^8) % 256, v % 256 >>

(* opts_len = (tcp_doff (th) << 2) - sizeof (tcp_header_t), kept in a u8: *)
(* a data offset below 5 wraps to 236 .. 252.                             *)
OptsLen(doff) == (doff * 4 - SIZE_TCP_HEADER) % 256

ParseResult == [ret: {0, -1}, tsval: Nat, tsecr: Nat, overread: BOOLEAN]

(* Mutant: the TSval and TSecr are read one byte early.                  *)
RECURSIVE ParseFrom_shifted(_, _, _, _)
ParseFrom_shifted(b, i, n, r) ==
    IF n = 0 \/ i > Len(b) THEN [r EXCEPT !.overread = n # 0]
    ELSE LET kind == b[i] IN
    CASE kind = TCP_OPTION_EOL  -> r
      [] kind = TCP_OPTION_NOOP -> ParseFrom_shifted(b, i + 1, n - 1, r)
      [] n < 2                  -> [r EXCEPT !.ret = -1]
      [] i + 1 > Len(b)         -> [r EXCEPT !.overread = TRUE]
      [] b[i + 1] < 2 \/ b[i + 1] > n -> [r EXCEPT !.ret = -1]
      [] kind = TCP_OPTION_TIMESTAMP /\ b[i + 1] = TCP_OPTION_LEN_TIMESTAMP ->
            IF i + 9 > Len(b) THEN [r EXCEPT !.overread = TRUE]
            ELSE ParseFrom_shifted(b, i + b[i + 1], n - b[i + 1],
                     [r EXCEPT !.tsval = NetU32(b, i + 1),
                               !.tsecr = NetU32(b, i + 5)])
      [] OTHER -> ParseFrom_shifted(b, i + b[i + 1], n - b[i + 1], r)

(* The for loop of tcp_options_parse_mod from data = b[i] with opts_len  *)
(* = n left: EOL ends the walk, NOOP is one byte, any other option needs  *)
(* a length byte with 2 <= opt_len <= opts_len (else -1, "broken" or     *)
(* "weird" options); a timestamp option of exactly 10 bytes sets TSval   *)
(* and TSecr (a later one overwrites them), every other kind is skipped. *)
RECURSIVE ParseFrom(_, _, _, _)
ParseFrom(b, i, n, r) ==
    IF n = 0 \/ i > Len(b) THEN [r EXCEPT !.overread = n # 0]
    ELSE LET kind == b[i] IN
    CASE kind = TCP_OPTION_EOL  -> r
      [] kind = TCP_OPTION_NOOP -> ParseFrom(b, i + 1, n - 1, r)
      [] n < 2                  -> [r EXCEPT !.ret = -1]
      [] i + 1 > Len(b)         -> [r EXCEPT !.overread = TRUE]
      [] b[i + 1] < 2 \/ b[i + 1] > n -> [r EXCEPT !.ret = -1]
      [] kind = TCP_OPTION_TIMESTAMP /\ b[i + 1] = TCP_OPTION_LEN_TIMESTAMP ->
            IF i + 9 > Len(b) THEN [r EXCEPT !.overread = TRUE]
            ELSE ParseFrom(b, i + b[i + 1], n - b[i + 1],
                     [r EXCEPT !.tsval = NetU32(b, i + 2),
                               !.tsecr = NetU32(b, i + 6)])
      [] OTHER -> ParseFrom(b, i + b[i + 1], n - b[i + 1], r)

(* tcp_options_parse_mod on a header, with node.c's tsval = tsecr = 0.   *)
tcp_options_parse_mod(h) ==
    ParseFrom(h.bytes, 1, OptsLen(h.doff),
              [ret |-> 0, tsval |-> 0, tsecr |-> 0, overread |-> FALSE])

-----------------------------------------------------------------------------
(* Headers an endpoint or the path may put on a packet carrying TSval v  *)
(* and TSecr e, with no payload:                                          *)
(*   "nop_nop_ts"  NOP, NOP, timestamp: the layout of common stacks;      *)
(*   "mss_ts"      MSS then timestamp, no padding (a SYN's options);      *)
(*   "bad_len"     NOP, NOP and a timestamp whose length byte exceeds the *)
(*                 option space: a broken option list;                    *)
(*   "long_doff"   NOP, NOP, timestamp, but a data offset of 15 words: a  *)
(*                 truncated or forged segment;                           *)
(*   "short_doff"  NOP, NOP, timestamp with a data offset of 4 words,     *)
(*                 below the fixed header.                                *)
TsOption(v, e) == << TCP_OPTION_TIMESTAMP, TCP_OPTION_LEN_TIMESTAMP >>
                      \o U32Bytes(v) \o U32Bytes(e)

Header(layout, v, e) ==
    CASE layout = "nop_nop_ts" ->
            [doff |-> 8, bytes |-> << TCP_OPTION_NOOP, TCP_OPTION_NOOP >> \o TsOption(v, e)]
      [] layout = "mss_ts" ->
            [doff |-> 9, bytes |-> << TCP_OPTION_MSS, TCP_OPTION_LEN_MSS, 5, 180 >>
                                   \o TsOption(v, e) \o << TCP_OPTION_EOL, TCP_OPTION_EOL >>]
      [] layout = "bad_len" ->
            [doff |-> 8, bytes |-> << TCP_OPTION_NOOP, TCP_OPTION_NOOP >>
                                   \o [TsOption(v, e) EXCEPT ![2] = 13]]
      [] layout = "long_doff" ->
            [doff |-> 15, bytes |-> << TCP_OPTION_NOOP, TCP_OPTION_NOOP >> \o TsOption(v, e)]
      [] layout = "short_doff" ->
            [doff |-> 4, bytes |-> << TCP_OPTION_NOOP, TCP_OPTION_NOOP >> \o TsOption(v, e)]

=============================================================================
