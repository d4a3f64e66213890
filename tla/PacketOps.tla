------------------------------ MODULE PacketOps ------------------------------
(***************************************************************************)
(* What the receive firmware does to a packet before it goes to the host    *)
(* (firmware/rxops.c): the filter and the header rewrite.                    *)
(***************************************************************************)
EXTENDS Integers

CONSTANT MAC_PREPEND_BYTES  \* bytes the MAC puts in front of a frame

ASSUME PrependAssumption == MAC_PREPEND_BYTES \in Nat

\* The header fields the firmware looks at or changes, and the length the
\* NBI reports, which counts two MAC prepends.
Headers(Addr, Len) ==
    [eth_type : {"IPV4", "OTHER"}, proto : {"UDP", "ICMP", "OTHER"},
     eth_src : Addr, eth_dst : Addr, ip_src : Addr, ip_dst : Addr,
     icmp_type : {"ECHO_REPLY", "ECHO_REQUEST"}, len : Len]

\* The subtraction is unsigned: a length below 2 * MAC_PREPEND_BYTES wraps to
\* a value far above any packet_size, which the last conjunct covers too.
filter_packets(hdr, packet_size) ==
    IF /\ hdr.eth_type = "IPV4"
       /\ hdr.proto \in {"UDP", "ICMP"}
       /\ hdr.len = packet_size + 2 * MAC_PREPEND_BYTES
    THEN "ALLOW"
    ELSE "DROP"

modify_packet_header(hdr) ==
    [hdr EXCEPT !.eth_dst = hdr.eth_src, !.eth_src = hdr.eth_dst,
                !.ip_dst = hdr.ip_src, !.ip_src = hdr.ip_dst,
                !.icmp_type = IF hdr.proto = "ICMP" THEN "ECHO_REPLY" ELSE @]
==============================================================================
