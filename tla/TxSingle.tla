------------------------------ MODULE TxSingle -------------------------------
(***************************************************************************)
(* The single-context transmit firmware (firmware/tx.c on i32.me1): wait    *)
(* for the start signal, then for ever allocate a packet, wait for an entry *)
(* of the transmit ring, DMA it into the packet, publish the new head and   *)
(* hand the packet to the NBI.                                              *)
(***************************************************************************)
EXTENDS DeviceMeta, PacketOps

CONSTANTS TxCtmWindow,  \* payload bytes of an outgoing packet kept in the CTM
          TxBuffers     \* packets the allocator can have out at a time

ASSUME TxAssumption == TxCtmWindow \in Nat \ {0} /\ TxBuffers \in Nat \ {0}

VARIABLES tx,    \* the engine's context 0, its local memory and its packet
          pool,  \* free CTM and MU buffers (external: ctm_credits and BLM)
          nbi,   \* packets handed to the NBI and not on the wire yet
          sent   \* history: what was handed to the NBI, in order

txVars == <<tx, pool, nbi, sent>>

TxPc == {"start", "allocate", "head", "data", "dma", "send"}

\* A packet as send_packet gets it: its length and its bytes.
TxPackets(Byte) == [len : Nat, data : [PacketOffsets -> Byte]]

TxEngine(Byte) ==
    [pc : TxPc, buffer_capacity : Nat, packet_size : Nat,
     head : Offsets, updated_head : Offsets,
     pending : SUBSET SUBSET PacketOffsets, pkt : TxPackets(Byte)]

TxTypeOK(Byte) ==
    /\ tx \in TxEngine(Byte)
    /\ pool \in 0 .. TxBuffers
    /\ nbi \in 0 .. TxBuffers
    /\ sent \in Seq(TxPackets(Byte))

TxInit ==
    /\ tx = [pc |-> "start", buffer_capacity |-> 0, packet_size |-> 0,
             head |-> 0, updated_head |-> 0, pending |-> {},
             pkt |-> [len |-> 0, data |-> [b \in PacketOffsets |-> Zero]]]
    /\ pool = 0
    /\ nbi = 0
    /\ sent = <<>>

\* main: the start signal is seen, sizes are loaded, credits initialised.
TxMain ==
    /\ tx.pc = "start"
    /\ cfg.start_signal # 0
    /\ tx' = [tx EXCEPT !.pc = "allocate",
                        !.buffer_capacity = cfg.buffer_size,
                        !.packet_size = cfg.packet_size]
    /\ pool' = TxBuffers
    /\ UNCHANGED <<cfg, tx_mem, nbi, sent>>

\* allocate_packet: a reused buffer keeps the bytes it last held.
TxAllocate ==
    /\ tx.pc = "allocate"
    /\ pool > 0
    /\ pool' = pool - 1
    /\ tx' = [tx EXCEPT !.pc = "head", !.pkt.len = 0]
    /\ UNCHANGED <<cfg, tx_mem, nbi, sent>>

TxReadHead ==
    /\ tx.pc = "head"
    /\ tx' = [tx EXCEPT !.pc = "data",
                        !.head = cfg.tx_head,
                        !.updated_head = Advance(cfg.tx_head, tx.packet_size,
                                                 tx.buffer_capacity)]
    /\ UNCHANGED <<cfg, tx_mem, pool, nbi, sent>>

\* The polling loop ends: an entry is there, dma_packet_recv starts the DMAs.
TxAwaitData ==
    /\ tx.pc = "data"
    /\ tx.head # cfg.tx_tail
    /\ tx' = [tx EXCEPT !.pc = "dma",
                        !.pending = DmaParts(tx.packet_size, TxCtmWindow)]
    /\ UNCHANGED <<cfg, tx_mem, pool, nbi, sent>>

TxDmaRead(part) ==
    /\ tx.pc = "dma"
    /\ part \in tx.pending
    /\ tx' = [tx EXCEPT !.pending = @ \ {part},
                        !.pkt.data = Fetch(tx_mem, tx.head, part, @)]
    /\ UNCHANGED <<cfg, tx_mem, pool, nbi, sent>>

\* Mutant: gives the entry back while one of its DMAs is outstanding.
TxPublishEarly ==
    /\ tx.pc = "dma"
    /\ tx.pending # DmaParts(tx.packet_size, TxCtmWindow)
    /\ cfg' = [cfg EXCEPT !.tx_head = tx.updated_head]
    /\ tx' = [tx EXCEPT !.pc = "send",
                        !.pkt.len = tx.packet_size + MAC_PREPEND_BYTES]
    /\ UNCHANGED <<tx_mem, pool, nbi, sent>>

\* All completion signals are in: set the length, give the entry back.
TxPublish ==
    /\ tx.pc = "dma"
    /\ tx.pending = {}
    /\ cfg' = [cfg EXCEPT !.tx_head = tx.updated_head]
    /\ tx' = [tx EXCEPT !.pc = "send",
                        !.pkt.len = tx.packet_size + MAC_PREPEND_BYTES]
    /\ UNCHANGED <<tx_mem, pool, nbi, sent>>

\* send_packet: the NBI owns the packet from here on.
TxSend ==
    /\ tx.pc = "send"
    /\ sent' = Append(sent, tx.pkt)
    /\ nbi' = nbi + 1
    /\ tx' = [tx EXCEPT !.pc = "allocate"]
    /\ UNCHANGED <<cfg, tx_mem, pool>>

\* External: the NBI puts a packet on the wire and frees its buffers.
NbiTransmit ==
    /\ nbi > 0
    /\ nbi' = nbi - 1
    /\ pool' = pool + 1
    /\ UNCHANGED <<cfg, tx_mem, tx, sent>>

TxProcess ==
    \/ TxMain
    \/ TxAllocate
    \/ TxReadHead
    \/ TxAwaitData
    \/ \E part \in tx.pending : TxDmaRead(part)
    \/ TxPublish
    \/ TxSend

TxNext == TxProcess \/ NbiTransmit
==============================================================================
