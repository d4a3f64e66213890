----------------------------- MODULE DeviceMeta ------------------------------
(***************************************************************************)
(* What the host process and the two microengines share:                    *)
(*   cfg     struct device_meta_t, in the cluster local scratch (CLS) of    *)
(*           the NIC, which the host maps through a PCIe BAR;               *)
(*   rx_mem  the host memory the receive engine writes by DMA;              *)
(*   tx_mem  the host memory the transmit engine reads by DMA.              *)
(* The two I/O addresses in device_meta_t are constant after configuration, *)
(* so memory is addressed by the offset from them.                          *)
(***************************************************************************)
EXTENDS Integers, Sequences, RingOps

CONSTANTS UDP_PACKET_SIZE,  \* bytes of a packet and of a ring entry
          RING_BUFFER_SIZE, \* bytes of each of the two rings
          Zero              \* a byte cleared by memset

ASSUME SizesAssumption ==
    /\ UDP_PACKET_SIZE \in Nat \ {0}
    /\ RING_BUFFER_SIZE \in Nat \ {0}
    /\ UDP_PACKET_SIZE <= RING_BUFFER_SIZE

VARIABLES cfg, rx_mem, tx_mem

\* How many entries the rings hold when the sizes divide evenly.
NumSlots == RING_BUFFER_SIZE \div UDP_PACKET_SIZE

\* The configurations in which the last entry ends where the ring ends.
WholeSlots == /\ RING_BUFFER_SIZE = NumSlots * UDP_PACKET_SIZE
              /\ NumSlots >= 2

PacketOffsets == 0 .. (UDP_PACKET_SIZE - 1)

\* The rings live in huge pages, so an entry that starts inside the ring and
\* ends after it still hits mapped memory.
HostBytes == 0 .. (RING_BUFFER_SIZE + UDP_PACKET_SIZE - 1)

Offsets == 0 .. (RING_BUFFER_SIZE - 1)

device_meta_t ==
    [packet_size : Nat, buffer_size : Nat, start_signal : {0, 1},
     rx_head : Offsets, rx_tail : Offsets, tx_head : Offsets, tx_tail : Offsets]

\* The offset of packet number n, counted from 0.
OffsetOf(n) == (n % NumSlots) * UDP_PACKET_SIZE

Count(b) == IF b THEN 1 ELSE 0

\* The loader clears cfg; main clears both rings.
MetaInit ==
    /\ cfg = [packet_size |-> 0, buffer_size |-> 0, start_signal |-> 0,
              rx_head |-> 0, rx_tail |-> 0, tx_head |-> 0, tx_tail |-> 0]
    /\ rx_mem = [a \in HostBytes |-> Zero]
    /\ tx_mem = [a \in HostBytes |-> Zero]

-----------------------------------------------------------------------------
\* The bytes of packet p: byte b is the pair <<p, b>>, so that bytes of
\* different packets, and different bytes of one packet, are told apart.
PacketBytes(p) == [b \in PacketOffsets |-> <<p, b>>]

\* `mem' with the bytes `part' of `data' stored at offset `at'.
Store(mem, at, part, data) ==
    [a \in DOMAIN mem |-> IF a - at \in part THEN data[a - at] ELSE mem[a]]

\* `data' with its bytes `part' replaced by what `mem' holds at offset `at'.
Fetch(mem, at, part, data) ==
    [b \in DOMAIN data |-> IF b \in part THEN mem[at + b] ELSE data[b]]

(***************************************************************************)
(* A packet lies in two places on the NIC: its first bytes in the CTM, as   *)
(* many as the CTM window holds, the others in a memory-unit buffer.  A      *)
(* transfer is one DMA per place that holds any of the packet.               *)
(***************************************************************************)
DmaParts(len, window) ==
    LET ctm_transfer_len == IF window < len THEN window ELSE len
    IN  {0 .. (ctm_transfer_len - 1), ctm_transfer_len .. (len - 1)} \ {{}}
==============================================================================
