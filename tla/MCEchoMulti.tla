----------------------------- MODULE MCEchoMulti -----------------------------
(***************************************************************************)
(* Small instances of EchoMulti for TLC.                                    *)
(***************************************************************************)
EXTENDS EchoMulti

CONSTANTS client, server  \* the two addresses

Hdr(len) ==
    [eth_type |-> "IPV4", proto |-> "UDP", icmp_type |-> "ECHO_REQUEST",
     eth_src |-> client, eth_dst |-> server,
     ip_src |-> client, ip_dst |-> server, len |-> len]

GoodLen == UDP_PACKET_SIZE + 2 * MAC_PREPEND_BYTES

\* Only frames that pass: the filter is the subject of MCEchoPath.
MCFrames == {Hdr(GoodLen)}

\* One frame that passes and one that does not.
MCMixedFrames == {Hdr(GoodLen), Hdr(GoodLen + 1)}
==============================================================================
