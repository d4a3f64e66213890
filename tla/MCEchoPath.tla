----------------------------- MODULE MCEchoPath ------------------------------
(***************************************************************************)
(* Small instances of EchoPath for TLC.                                     *)
(***************************************************************************)
EXTENDS EchoPath

CONSTANTS client, server  \* the two addresses

Hdr(eth_type, proto, icmp_type, len) ==
    [eth_type |-> eth_type, proto |-> proto, icmp_type |-> icmp_type,
     eth_src |-> client, eth_dst |-> server,
     ip_src |-> client, ip_dst |-> server, len |-> len]

GoodLen == UDP_PACKET_SIZE + 2 * MAC_PREPEND_BYTES

\* An ICMP echo request that passes, and a frame for each clause of the filter.
MCFrames == {Hdr("IPV4", "ICMP", "ECHO_REQUEST", GoodLen),
             Hdr("IPV4", "UDP", "ECHO_REQUEST", GoodLen - 1),
             Hdr("IPV4", "OTHER", "ECHO_REQUEST", GoodLen),
             Hdr("OTHER", "UDP", "ECHO_REQUEST", GoodLen)}
==============================================================================
