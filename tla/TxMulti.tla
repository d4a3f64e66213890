------------------------------- MODULE TxMulti -------------------------------
(***************************************************************************)
(* The multi-context transmit firmware (firmware/multi_tx.c): a context     *)
(* allocates a packet, claims the entry at shadow_head, fetches it by DMA,   *)
(* waits until the published head reaches its entry, moves the head past it  *)
(* and hands the packet to the NBI.  Steps are as in RxMulti.                *)
(***************************************************************************)
EXTENDS DeviceMeta, PacketOps, Contexts

CONSTANTS TxContexts,   \* the contexts
          tx_ctx0,      \* context 0, which loads the configuration
          TxCtmWindow,  \* payload bytes of an outgoing packet kept in the CTM
          TxBuffers     \* packets the allocator can have out at a time

ASSUME TxMultiAssumption ==
    /\ tx_ctx0 \in TxContexts
    /\ IsFiniteSet(TxContexts)
    /\ TxCtmWindow \in Nat \ {0}
    /\ TxBuffers \in Nat \ {0}

VARIABLES txl,      \* the shared local memory of the engine
          txc,      \* the contexts
          txq,      \* contexts with a read of cfg.tx_tail, in CLS order
          pool,     \* free CTM and MU buffers (external: ctm_credits and BLM)
          nbi,      \* packets handed to the NBI and not on the wire yet
          claimed,  \* history: how many entries were claimed
          sent      \* history: what was handed to the NBI, in order

txVars == <<txl, txc, txq, pool, nbi, claimed, sent>>

TxPackets(Byte) == [len : Nat, data : [PacketOffsets -> Byte]]

TxLocal == [buffer_capacity : Nat, packet_size : Nat, shadow_head : Offsets,
            init : {0, 1}]

TxContext(Byte) ==
    [pc : {"start", "allocate", "tail", "resume", "dma", "publish", "send"},
     tail : Offsets, head : Offsets, updated_head : Offsets,
     pending : SUBSET SUBSET PacketOffsets, pkt : TxPackets(Byte)]

TxTypeOK(Byte) ==
    /\ txl \in TxLocal
    /\ txc \in [TxContexts -> TxContext(Byte)]
    /\ txq \in Seq(TxContexts)
    /\ pool \in 0 .. TxBuffers
    /\ nbi \in 0 .. TxBuffers
    /\ claimed \in Nat
    /\ sent \in Seq(TxPackets(Byte))

\* A context between two packets: the locals of tx_process are dead.
TxIdle(pc) == [pc |-> pc, tail |-> 0, head |-> 0, updated_head |-> 0,
               pending |-> {},
               pkt |-> [len |-> 0, data |-> [b \in PacketOffsets |-> Zero]]]

TxInit ==
    /\ txl = [buffer_capacity |-> 0, packet_size |-> 0, shadow_head |-> 0,
              init |-> 0]
    /\ txc = [c \in TxContexts |-> TxIdle("start")]
    /\ txq = <<>>
    /\ pool = TxBuffers
    /\ nbi = 0
    /\ claimed = 0
    /\ sent = <<>>

TxMain0 ==
    /\ txc[tx_ctx0].pc = "start"
    /\ cfg.start_signal # 0
    /\ txl' = [txl EXCEPT !.buffer_capacity = cfg.buffer_size,
                          !.packet_size = cfg.packet_size, !.init = 1]
    /\ txc' = [txc EXCEPT ![tx_ctx0].pc = "allocate"]
    /\ UNCHANGED <<cfg, tx_mem, txq, pool, nbi, claimed, sent>>

TxMain(c) ==
    /\ c # tx_ctx0
    /\ txc[c].pc = "start"
    /\ txl.init # 0
    /\ txc' = [txc EXCEPT ![c].pc = "allocate"]
    /\ UNCHANGED <<cfg, tx_mem, txl, txq, pool, nbi, claimed, sent>>

\* allocate_packet; what a fresh buffer holds is never read (TxFetch fills it).
TxAllocate(c) ==
    /\ txc[c].pc = "allocate"
    /\ pool > 0
    /\ pool' = pool - 1
    /\ txc' = [txc EXCEPT ![c].pc = "tail"]
    /\ UNCHANGED <<cfg, tx_mem, txl, txq, nbi, claimed, sent>>

\* The CLS is read; the context is still swapped out.
TxReadTail(c) ==
    /\ txc[c].pc = "tail"
    /\ txc' = [txc EXCEPT ![c].pc = "resume", ![c].tail = cfg.tx_tail]
    /\ txq' = Append(txq, c)
    /\ UNCHANGED <<cfg, tx_mem, txl, pool, nbi, claimed, sent>>

UpdatedHead == Advance(txl.shadow_head, txl.packet_size, txl.buffer_capacity)

\* The context runs with the tail it read: the buffer looks empty ...
TxRetry(c) ==
    /\ txc[c].pc = "resume"
    /\ Resumes(txq, c)
    /\ txl.shadow_head = txc[c].tail
    /\ txc' = [txc EXCEPT ![c].pc = "tail"]
    /\ txq' = RemoveFirst(txq, c)
    /\ UNCHANGED <<cfg, tx_mem, txl, pool, nbi, claimed, sent>>

\* Mutant: claims whatever the tail says.
TxClaimAlways(c) ==
    /\ txc[c].pc = "resume"
    /\ Resumes(txq, c)
    /\ txl' = [txl EXCEPT !.shadow_head = UpdatedHead]
    /\ txc' = [txc EXCEPT ![c].pc = "dma",
                          ![c].head = txl.shadow_head,
                          ![c].updated_head = UpdatedHead,
                          ![c].pending = DmaParts(txl.packet_size, TxCtmWindow)]
    /\ txq' = RemoveFirst(txq, c)
    /\ claimed' = claimed + 1
    /\ UNCHANGED <<cfg, tx_mem, pool, nbi, sent>>

\* ... or not: the entry at shadow_head is claimed and the DMAs start.
TxClaim(c) ==
    /\ txc[c].pc = "resume"
    /\ Resumes(txq, c)
    /\ txl.shadow_head # txc[c].tail
    /\ txl' = [txl EXCEPT !.shadow_head = UpdatedHead]
    /\ txc' = [txc EXCEPT ![c].pc = "dma",
                          ![c].head = txl.shadow_head,
                          ![c].updated_head = UpdatedHead,
                          ![c].pending = DmaParts(txl.packet_size, TxCtmWindow)]
    /\ txq' = RemoveFirst(txq, c)
    /\ claimed' = claimed + 1
    /\ UNCHANGED <<cfg, tx_mem, pool, nbi, sent>>

TxDmaRead(c, part) ==
    /\ txc[c].pc = "dma"
    /\ part \in txc[c].pending
    /\ txc' = [txc EXCEPT ![c].pending = @ \ {part},
                          ![c].pkt.data = Fetch(tx_mem, txc[c].head, part, @)]
    /\ UNCHANGED <<cfg, tx_mem, txl, txq, pool, nbi, claimed, sent>>

\* Mutant: gives the entry back and sends the packet before the DMA is done.
TxTurnEarly(c) ==
    /\ txc[c].pc = "dma"
    /\ cfg.tx_head = txc[c].head
    /\ txc' = [txc EXCEPT ![c].pc = "publish",
                          ![c].pkt.len = txl.packet_size + MAC_PREPEND_BYTES]
    /\ UNCHANGED <<cfg, tx_mem, txl, txq, pool, nbi, claimed, sent>>

\* Mutant: waits for the published head to be past its entry.
TxTurnLate(c) ==
    /\ txc[c].pc = "dma"
    /\ txc[c].pending = {}
    /\ cfg.tx_head = txc[c].updated_head
    /\ txc' = [txc EXCEPT ![c].pc = "publish",
                          ![c].pkt.len = txl.packet_size + MAC_PREPEND_BYTES]
    /\ UNCHANGED <<cfg, tx_mem, txl, txq, pool, nbi, claimed, sent>>

\* All completion signals are in, the length is set, and the published head
\* is at this entry.
TxTurn(c) ==
    /\ txc[c].pc = "dma"
    /\ txc[c].pending = {}
    /\ cfg.tx_head = txc[c].head
    /\ txc' = [txc EXCEPT ![c].pc = "publish",
                          ![c].pkt.len = txl.packet_size + MAC_PREPEND_BYTES]
    /\ UNCHANGED <<cfg, tx_mem, txl, txq, pool, nbi, claimed, sent>>

TxPublish(c) ==
    /\ txc[c].pc = "publish"
    /\ cfg' = [cfg EXCEPT !.tx_head = txc[c].updated_head]
    /\ txc' = [txc EXCEPT ![c].pc = "send"]
    /\ UNCHANGED <<tx_mem, txl, txq, pool, nbi, claimed, sent>>

\* Mutant: goes on with the buffer it has given to the NBI.
TxSendReusing(c) ==
    /\ txc[c].pc = "send"
    /\ sent' = Append(sent, txc[c].pkt)
    /\ nbi' = nbi + 1
    /\ txc' = [txc EXCEPT ![c] = TxIdle("tail")]
    /\ UNCHANGED <<cfg, tx_mem, txl, txq, pool, claimed>>

TxSend(c) ==
    /\ txc[c].pc = "send"
    /\ sent' = Append(sent, txc[c].pkt)
    /\ nbi' = nbi + 1
    /\ txc' = [txc EXCEPT ![c] = TxIdle("allocate")]
    /\ UNCHANGED <<cfg, tx_mem, txl, txq, pool, claimed>>

\* External: the NBI puts a packet on the wire and frees its buffers.
NbiTransmit ==
    /\ nbi > 0
    /\ nbi' = nbi - 1
    /\ pool' = pool + 1
    /\ UNCHANGED <<cfg, tx_mem, txl, txc, txq, claimed, sent>>

TxProcess(c) ==
    \/ c = tx_ctx0 /\ TxMain0
    \/ TxMain(c)
    \/ TxAllocate(c)
    \/ TxReadTail(c)
    \/ TxRetry(c)
    \/ TxClaim(c)
    \/ \E part \in txc[c].pending : TxDmaRead(c, part)
    \/ TxTurn(c)
    \/ TxPublish(c)
    \/ TxSend(c)

TxNext == (\E c \in TxContexts : TxProcess(c)) \/ NbiTransmit

\* Contexts that hold an entry they have claimed and not given back.
TxHolding == {c \in TxContexts : txc[c].pc \in {"dma", "publish"}}
==============================================================================
